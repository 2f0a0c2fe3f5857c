------------------------------- MODULE MCLog --------------------------------
EXTENDS Log, TLC

CONSTANTS b1, b2, b3, p1, p2
=============================================================================
