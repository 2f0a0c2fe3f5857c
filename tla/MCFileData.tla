----------------------------- MODULE MCFileData -----------------------------
EXTENDS FileData, TLC

CONSTANTS f1, f2, d1, d2, d3, p1, p2

Symmetry == Permutations({p1, p2}) \cup Permutations({d1, d2})

\* Two descriptors of one file, one of another
Inodes == [d \in {d1, d2, d3} |-> IF d = d3 THEN f2 ELSE f1]
====
