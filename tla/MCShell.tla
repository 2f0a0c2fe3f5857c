------------------------------ MODULE MCShell ------------------------------
EXTENDS Shell

Alphabet == {"c", " ", "<", ">", "|", "&", ";", "(", ")"}
Short == UNION {[1..n -> Alphabet] : n \in 0..4}

\* Pipelines of two and three, lists, blocks, a background pipeline, redirections, a missing
\* program and file, a syntax error and a line for main() itself
Typed ==
  {<<"e", "|", "c", "\n">>,
   <<"e", "|", "c", "|", "c", "\n">>,
   <<"(", "e", ";", "e", ")", "|", "c", ">", "f", "\n">>,
   <<"e", "|", "x", "&", ";", "c", "\n">>,
   <<"e", "|", "c", "<", "f", "\n">>,
   <<"c", "<", "x", "|", "c", ">", ">", "f", "\n">>,
   <<"e", "(", "\n">>,
   <<"c", "d", " ", "f", "\n">>,
   <<";", "\n">>}
Absent == {<<"x">>}
====
