------------------------------- MODULE MCDisk -------------------------------
EXTENDS VirtioDisk

CONSTANTS p1, p2, p3
====
