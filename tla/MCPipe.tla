------------------------------- MODULE MCPipe -------------------------------
(* Small instances of Pipe for TLC.                                        *)
EXTENDS Pipe

CONSTANTS r1, w1
=============================================================================
