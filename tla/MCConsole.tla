------------------------------ MODULE MCConsole ------------------------------
EXTENDS Console

CONSTANTS r1, w1
====
