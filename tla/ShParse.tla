------------------------------ MODULE ShParse ------------------------------
(***************************************************************************)
(* The parser of the shell (user/sh.c), as operators on the command line,  *)
(* and a reference grammar to check it against.                            *)
(*                                                                         *)
(* A line is a sequence of characters, "nul" past its end; positions in it *)
(* stand for the pointers ps, q and eq.  A parse function returns the tree *)
(* and the position after it; panic() is the tree Bad.  A word is its q    *)
(* and eq.  malloc() is taken to succeed.                                  *)
(***************************************************************************)
EXTENDS Naturals, Sequences, SequencesExt

CONSTANT MAXARGS

whitespace == {" ", "\n"}
symbols == {"<", "|", ">", "&", ";", "(", ")"}

\* F(x), with x evaluated once
With(x, F(_)) == CHOOSE y \in {F(v) : v \in {x}} : TRUE

Ch(buf, s) == IF s > Len(buf) THEN "nul" ELSE buf[s]
First(buf, s, Stop(_)) ==
  CHOOSE i \in s..(Len(buf) + 1) : (i = Len(buf) + 1 \/ Stop(buf[i])) /\ \A j \in s..(i - 1) : ~Stop(buf[j])
Skip(buf, s) == First(buf, s, LAMBDA c : c \notin whitespace)

\* Where the token at q ends, and what gettoken() returns for it
TokEnd(buf, q) ==
  LET c == Ch(buf, q)
  IN  CASE c = "nul" -> q
        [] c = ">" /\ Ch(buf, q + 1) = ">" -> q + 2
        [] c \in symbols -> q + 1
        [] OTHER -> First(buf, q, LAMBDA d : d \in whitespace \cup symbols)
Tok(buf, q, eq) ==
  CASE Ch(buf, q) \notin symbols \cup {"nul"} -> "a" [] eq = q + 2 -> "+" [] OTHER -> Ch(buf, q)

\* eq is taken after the white space that follows the token
gettoken_late(buf, s) == With(Skip(buf, s), LAMBDA q : With(TokEnd(buf, q), LAMBDA eq :
  [tok |-> Tok(buf, q, eq), word |-> <<q, Skip(buf, eq)>>, s |-> Skip(buf, eq)]))
gettoken(buf, s) == With(Skip(buf, s), LAMBDA q : With(TokEnd(buf, q), LAMBDA eq :
  [tok |-> Tok(buf, q, eq), word |-> <<q, eq>>, s |-> Skip(buf, eq)]))

peek(buf, s, toks) == Ch(buf, Skip(buf, s)) \in toks

execcmd(argv) == [type |-> "EXEC", argv |-> argv]
redircmd(cmd, r) == [type |-> "REDIR", cmd |-> cmd, file |-> r.file, mode |-> r.mode,
                     fd |-> IF r.mode = "<" THEN 0 ELSE 1]
pipecmd(left, right) == [type |-> "PIPE", left |-> left, right |-> right]
listcmd(left, right) == [type |-> "LIST", left |-> left, right |-> right]
backcmd(cmd) == [type |-> "BACK", cmd |-> cmd]
Bad == [type |-> "panic"]
Error == [cmd |-> Bad, s |-> 0]

RECURSIVE Redirs(_, _, _)
RECURSIVE Args(_, _, _, _)
RECURSIVE parsepipe(_, _)
RECURSIVE parseline(_, _)
RECURSIVE Backs(_, _)

\* The loop of parseredirs(): the redirections that follow rs; s = 0 after panic()
Redirs(buf, rs, s) ==
  IF ~peek(buf, s, {"<", ">"}) THEN [rs |-> rs, s |-> s]
  ELSE With(gettoken(buf, s), LAMBDA t : With(gettoken(buf, t.s), LAMBDA f :
         IF f.tok # "a" THEN [rs |-> rs, s |-> 0]
         ELSE Redirs(buf, Append(rs, [file |-> f.word, mode |-> t.tok]), f.s)))

\* A later redirection goes around the earlier ones
Wrap(cmd, rs) == FoldLeft(redircmd, cmd, rs)

\* The loop of parseexec()
Args(buf, argv, rs, s) ==
  IF s = 0 THEN Error
  ELSE IF peek(buf, s, {"|", ")", "&", ";", "nul"}) THEN [cmd |-> Wrap(execcmd(argv), rs), s |-> s]
  ELSE With(gettoken(buf, s), LAMBDA t :
         IF t.tok # "a" \/ Len(argv) + 1 >= MAXARGS THEN Error
         ELSE With(Redirs(buf, rs, t.s), LAMBDA r : Args(buf, Append(argv, t.word), r.rs, r.s)))

parseblock(buf, s) ==
  With(parseline(buf, gettoken(buf, s).s), LAMBDA b :
    IF b.cmd = Bad \/ ~peek(buf, b.s, {")"}) THEN Error
    ELSE With(Redirs(buf, <<>>, gettoken(buf, b.s).s), LAMBDA r :
           IF r.s = 0 THEN Error ELSE [cmd |-> Wrap(b.cmd, r.rs), s |-> r.s]))

parseexec(buf, s) ==
  IF peek(buf, s, {"("}) THEN parseblock(buf, s)
  ELSE With(Redirs(buf, <<>>, s), LAMBDA r : Args(buf, <<>>, r.rs, r.s))

parsepipe(buf, s) == With(parseexec(buf, s), LAMBDA l :
  IF l.cmd = Bad \/ ~peek(buf, l.s, {"|"}) THEN l
  ELSE With(parsepipe(buf, gettoken(buf, l.s).s), LAMBDA r :
         IF r.cmd = Bad THEN Error ELSE [cmd |-> pipecmd(l.cmd, r.cmd), s |-> r.s]))

\* The while loop of parseline()
Backs(buf, p) ==
  IF p.cmd = Bad \/ ~peek(buf, p.s, {"&"}) THEN p
  ELSE Backs(buf, [cmd |-> backcmd(p.cmd), s |-> gettoken(buf, p.s).s])

parseline(buf, s) == With(Backs(buf, parsepipe(buf, s)), LAMBDA l :
  IF l.cmd = Bad \/ ~peek(buf, l.s, {";"}) THEN l
  ELSE With(parseline(buf, gettoken(buf, l.s).s), LAMBDA r :
         IF r.cmd = Bad THEN Error ELSE [cmd |-> listcmd(l.cmd, r.cmd), s |-> r.s]))

\* A tree, if nothing is left over
parsecmd(buf) == With(parseline(buf, 1), LAMBDA p :
  IF p.cmd = Bad \/ Skip(buf, p.s) # Len(buf) + 1 THEN Bad ELSE p.cmd)

\* The positions nulterminate() sets to 0
RECURSIVE Nuls(_)
Nuls(cmd) ==
  CASE cmd.type = "EXEC"  -> {cmd.argv[i][2] : i \in DOMAIN cmd.argv}
    [] cmd.type = "REDIR" -> Nuls(cmd.cmd) \cup {cmd.file[2]}
    [] cmd.type = "BACK"  -> Nuls(cmd.cmd)
    [] OTHER              -> Nuls(cmd.left) \cup Nuls(cmd.right)
nulterminate(buf, cmd) == [i \in DOMAIN buf |-> IF i \in Nuls(cmd) THEN "nul" ELSE buf[i]]

\* The C string at q
Str(buf, q) == SubSeq(buf, q, First(buf, q, LAMBDA c : c = "nul") - 1)

(***************************************************************************)
(* The reference: the grammar, by splitting the tokens of the line.  A     *)
(* word is the text it should be, not a place in the buffer.               *)
(***************************************************************************)
RECURSIVE Tokens(_, _)
Tokens(buf, s) == With(gettoken(buf, s), LAMBDA t :
  IF t.tok = "nul" THEN <<>>
  ELSE <<[tok |-> t.tok, text |-> SelectSeq(SubSeq(buf, t.word[1], t.word[2] - 1),
                                            LAMBDA c : c \notin whitespace)]>> \o Tokens(buf, t.s))

Depth(ts, i) ==
  LET count(c) == Len(SelectSeq(SubSeq(ts, 1, i), LAMBDA t : t.tok = c)) IN count("(") - count(")")
\* The first sym outside parentheses, or 0
Top(ts, sym) ==
  LET at == {i \in DOMAIN ts : ts[i].tok = sym /\ Depth(ts, i) = 0}
  IN  IF at = {} THEN 0 ELSE CHOOSE i \in at : \A j \in at : i <= j
Before(ts, i) == SubSeq(ts, 1, i - 1)
After(ts, i) == SubSeq(ts, i + 1, Len(ts))

\* Words and redirections only, each < > or >> followed by its file
Simple(ts) ==
  \A i \in DOMAIN ts :
    ts[i].tok = "a" \/ (ts[i].tok \in {"<", ">", "+"} /\ i < Len(ts) /\ ts[i + 1].tok = "a")
Redirected(ts) ==
  LET at == SetToSortSeq({i \in DOMAIN ts : ts[i].tok # "a"}, <)
  IN  [i \in DOMAIN at |-> [file |-> ts[at[i] + 1].text, mode |-> ts[at[i]].tok]]
Words(ts) ==
  LET at == SetToSortSeq({i \in DOMAIN ts : ts[i].tok = "a" /\ (i = 1 \/ ts[i - 1].tok = "a")}, <)
  IN  [i \in DOMAIN at |-> ts[at[i]].text]

RECURSIVE LineOf(_)
Both(l, r, cmd) == IF Bad \in {l, r} THEN Bad ELSE cmd

ExecOf(ts) ==
  IF ts # <<>> /\ ts[1].tok = "("
  THEN LET close == {i \in DOMAIN ts : Depth(ts, i) = 0}
       IN  IF close = {} THEN Bad
           ELSE LET j == CHOOSE i \in close : \A k \in close : i <= k
                    b == LineOf(SubSeq(ts, 2, j - 1))
                IN  IF b # Bad /\ Simple(After(ts, j)) /\ Words(After(ts, j)) = <<>>
                    THEN Wrap(b, Redirected(After(ts, j))) ELSE Bad
  ELSE IF Simple(ts) /\ Len(Words(ts)) < MAXARGS THEN Wrap(execcmd(Words(ts)), Redirected(ts)) ELSE Bad

RECURSIVE PipeOf(_)
PipeOf(ts) ==
  IF Top(ts, "|") = 0 THEN ExecOf(ts)
  ELSE LET l == ExecOf(Before(ts, Top(ts, "|")))
           r == PipeOf(After(ts, Top(ts, "|")))
       IN  Both(l, r, pipecmd(l, r))

\* & may stand only at the end of a command of the list
RECURSIVE BackOf(_)
BackOf(ts) ==
  IF ts # <<>> /\ Last(ts).tok = "&" /\ Depth(ts, Len(ts)) = 0
  THEN LET b == BackOf(Front(ts)) IN IF b = Bad THEN Bad ELSE backcmd(b)
  ELSE IF Top(ts, "&") # 0 THEN Bad ELSE PipeOf(ts)

LineOf(ts) ==
  IF Top(ts, ";") = 0 THEN BackOf(ts)
  ELSE LET l == BackOf(Before(ts, Top(ts, ";")))
           r == LineOf(After(ts, Top(ts, ";")))
       IN  Both(l, r, listcmd(l, r))

\* The tree of parsecmd() with the strings runcmd() will see
RECURSIVE Texts(_, _)
Texts(buf, cmd) ==
  CASE cmd.type = "EXEC"  -> [cmd EXCEPT !.argv = [i \in DOMAIN @ |-> Str(buf, @[i][1])]]
    [] cmd.type = "REDIR" -> [cmd EXCEPT !.cmd = Texts(buf, @), !.file = Str(buf, @[1])]
    [] cmd.type = "BACK"  -> [cmd EXCEPT !.cmd = Texts(buf, @)]
    [] cmd.type = "panic" -> cmd
    [] OTHER              -> [cmd EXCEPT !.left = Texts(buf, @), !.right = Texts(buf, @)]
====
