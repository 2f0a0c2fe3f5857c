------------------------------- MODULE MCSched -------------------------------
EXTENDS Sched

CONSTANTS c0, c1, p1, p2

ProcOrder(p) == IF p = p1 THEN p2 ELSE None
====
