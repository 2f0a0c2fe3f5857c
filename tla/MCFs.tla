-------------------------------- MODULE MCFs --------------------------------
EXTENDS Fs

CONSTANTS p1, p2

Abs(s) == [abs |-> TRUE, elems |-> s]
Rel(s) == [abs |-> FALSE, elems |-> s]
Call(o, path) == [op |-> o, path |-> path, new |-> path]

\* Files and directories at the root and one level down, by absolute and relative paths
TreeCalls ==
  {Call("mkdir", Abs(<<"a">>)), Call("mkdir", Abs(<<"a", "a">>)),
   Call("create", Rel(<<"b">>)), Call("create", Abs(<<"a", "b">>)),
   Call("unlink", Abs(<<"a">>)), Call("unlink", Abs(<<"a", "b">>)),
   Call("unlink", Rel(<<"..">>)), Call("chdir", Abs(<<"a">>)), Call("open", Rel(<<"b">>)),
   [op |-> "link", path |-> Rel(<<"b">>), new |-> Abs(<<"a", "b">>)]}
====
