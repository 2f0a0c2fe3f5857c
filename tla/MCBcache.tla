------------------------------ MODULE MCBcache ------------------------------
(* Small instances of Bcache for TLC.                                      *)
EXTENDS Bcache

CONSTANTS p1, p2, p3, k1, k2, k3
=============================================================================
