------------------------------- MODULE Shell -------------------------------
(***************************************************************************)
(* The shell running a command line (user/sh.c) over the descriptors,      *)
(* files and pipes of the kernel (file.c, sysfile.c, pipe.c), with echo    *)
(* and cat as the programs it starts.                                      *)
(*                                                                         *)
(* A process is the list of calls it has still to make: runcmd() and the   *)
(* other steps replace the head by the calls it stands for.  A call is one *)
(* step, except that fileclose() gives up the table's lock before it calls *)
(* pipeclose(), and exit() closes one descriptor at a time; the two        *)
(* filealloc()s of pipe() are one step.  A pipe counts its bytes; sleep    *)
(* and wakeup in it are the business of module Pipe.                       *)
(* init, which reaps orphans, is not among Procs.  The console gives a     *)
(* program that reads it end of file, and so does a file.                  *)
(***************************************************************************)
EXTENDS ShParse, FiniteSets, FiniteSetsExt

CONSTANTS Procs,      \* process slots but that of init: numbers, tried in order
          Files,      \* ftable.file: numbers, 1 is the console
          PIPESIZE,   \* capacity of a pipe
          NOFILE,     \* descriptors of a process
          Missing,    \* names that exec() and open() without O_CREATE do not find
          Lines,      \* lines that are typed and run
          Inputs      \* lines that are only parsed

Main == Min(Procs)
Console == 1
Init0 == 0            \* init as a parent
Fds == 0..(NOFILE - 1)

VARIABLES line,    \* buf of main(): what was typed, or <<>> before
          proc,    \* the process table
          file,    \* ftable
          pipe     \* the pipes: a page each
vars == <<line, proc, file, pipe>>

Call(op, arg) == [op |-> op, arg |-> arg]
Close(fd) == Call("close", fd)
Exit == Call("exit", 0)
Wait == Call("wait", 0)
Fork(todo) == Call("fork", todo)
Run(cmd) == Call("run", cmd)

NoFile == [ref |-> 0, type |-> "none", pipe |-> 0, writable |-> FALSE, name |-> <<>>]
NoPipe == [r |-> FALSE, w |-> FALSE, n |-> 0]
Unused == [st |-> "unused", parent |-> Init0, todo |-> <<>>, ofile |-> [fd \in Fds |-> 0], argv |-> <<>>]

Init ==
  /\ line = <<>>
  /\ proc = [p \in Procs |->
               IF p = Main
               THEN [Unused EXCEPT !.st = "run", !.todo = <<Call("getcmd", 0)>>,
                                   !.ofile = [fd \in Fds |-> IF fd < 3 THEN Console ELSE 0]]
               ELSE Unused]
  /\ file = [f \in Files |->
               IF f = Console THEN [NoFile EXCEPT !.ref = 6, !.type = "inode", !.name = <<"console">>]
               ELSE NoFile]
  /\ pipe = [f \in Files |-> NoPipe]

At(p, op) == proc[p].todo # <<>> /\ Head(proc[p].todo).op = op
Arg(p) == Head(proc[p].todo).arg
\* p makes these calls instead of the one at the head; or goes on with the next
Becomes(p, todo) == [proc EXCEPT ![p].todo = todo \o Tail(@)]
Instead(p, todo) == [proc EXCEPT ![p].todo = todo]
Proceed(p) == Becomes(p, <<>>)

(***************************************************************************)
(* file.c, sysfile.c, pipe.c                                               *)
(***************************************************************************)
FreeFiles == {f \in Files : file[f].ref = 0}
FreeFds(p) == {fd \in Fds : proc[p].ofile[fd] = 0}

\* sys_dup(): the descriptor is taken, the reference is not counted
dup_noref(p) ==
  LET f == proc[p].ofile[Arg(p)]
  IN  /\ At(p, "dup")
      /\ IF f = 0 \/ FreeFds(p) = {} THEN proc' = Proceed(p)
         ELSE proc' = [Proceed(p) EXCEPT ![p].ofile[Min(FreeFds(p))] = f]
      /\ UNCHANGED <<line, pipe, file>>
dup(p) ==
  LET f == proc[p].ofile[Arg(p)]
  IN  /\ At(p, "dup")
      /\ IF f = 0 \/ FreeFds(p) = {} THEN proc' = Proceed(p) /\ UNCHANGED file
         ELSE /\ proc' = [Proceed(p) EXCEPT ![p].ofile[Min(FreeFds(p))] = f]
              /\ file' = [file EXCEPT ![f].ref = @ + 1]
      /\ UNCHANGED <<line, pipe>>

\* fileclose(), up to the release of ftable.lock; what is left to do if it was the last
fileclose(f) == file' = IF file[f].ref > 1 THEN [file EXCEPT ![f].ref = @ - 1] ELSE [file EXCEPT ![f] = NoFile]
Closing(f) == IF file[f].ref > 1 \/ file[f].type # "pipe" THEN <<>> ELSE <<Call("pipeclose", file[f])>>

sys_close(p) ==
  LET f == proc[p].ofile[Arg(p)]
  IN  /\ At(p, "close")
      /\ IF f = 0 THEN proc' = Proceed(p) /\ UNCHANGED file
         ELSE /\ proc' = [Becomes(p, Closing(f)) EXCEPT ![p].ofile[Arg(p)] = 0]
              /\ fileclose(f)
      /\ UNCHANGED <<line, pipe>>

pipeclose(p) ==
  LET pi == pipe[Arg(p).pipe]
      left == IF Arg(p).writable THEN [pi EXCEPT !.w = FALSE] ELSE [pi EXCEPT !.r = FALSE]
  IN  /\ At(p, "pipeclose")
      /\ proc' = Proceed(p)
      /\ pipe' = [pipe EXCEPT ![Arg(p).pipe] = IF left.r \/ left.w THEN left ELSE NoPipe]
      /\ UNCHANGED <<line, file>>

\* sys_open() for a redirection; open() fails, or f and its descriptor are taken
sys_open(p) ==
  /\ At(p, "open")
  /\ IF \/ Arg(p).mode = "<" /\ Arg(p).name \in Missing
        \/ FreeFiles = {} \/ FreeFds(p) = {}
     THEN proc' = Instead(p, <<Exit>>) /\ UNCHANGED file
     ELSE LET f == Min(FreeFiles)
          IN  /\ proc' = [Proceed(p) EXCEPT ![p].ofile[Min(FreeFds(p))] = f]
              /\ file' = [file EXCEPT ![f] = [NoFile EXCEPT !.ref = 1, !.type = "inode", !.name = Arg(p).name,
                                                            !.writable = Arg(p).mode # "<"]]
  /\ UNCHANGED <<line, pipe>>

\* What runcmd() does with the pipe p[0], p[1]: the children keep p open
piped_open(cmd, r, w) ==
  <<Fork(<<Close(1), Call("dup", w), Close(r), Close(w), Run(cmd.left)>>),
    Fork(<<Close(0), Call("dup", r), Close(r), Run(cmd.right)>>),
    Close(r), Close(w), Wait, Wait, Exit>>
\* What runcmd() does with the pipe p[0], p[1]
piped(cmd, r, w) ==
  <<Fork(<<Close(1), Call("dup", w), Close(r), Close(w), Run(cmd.left)>>),
    Fork(<<Close(0), Call("dup", r), Close(r), Close(w), Run(cmd.right)>>),
    Close(r), Close(w), Wait, Wait, Exit>>

\* sys_pipe(), for the PIPE command Arg(p): panic("pipe") if there are not two files, two
\* descriptors and a page
sys_pipe(p) ==
  LET free == {i \in Files : pipe[i] = NoPipe}
      pi == Min(free)
      rf == Min(FreeFiles)
      wf == Min(FreeFiles \ {rf})
      fd0 == Min(FreeFds(p))
      fd1 == Min(FreeFds(p) \ {fd0})
      end == [NoFile EXCEPT !.ref = 1, !.type = "pipe", !.pipe = pi]
  IN  /\ At(p, "pipe")
      /\ IF Cardinality(FreeFiles) < 2 \/ Cardinality(FreeFds(p)) < 2 \/ free = {}
         THEN proc' = Instead(p, <<Exit>>) /\ UNCHANGED <<file, pipe>>
         ELSE /\ proc' = [Instead(p, piped(Arg(p), fd0, fd1)) EXCEPT ![p].ofile[fd0] = rf, ![p].ofile[fd1] = wf]
              /\ file' = [file EXCEPT ![rf] = end, ![wf] = [end EXCEPT !.writable = TRUE]]
              /\ pipe' = [pipe EXCEPT ![pi] = [r |-> TRUE, w |-> TRUE, n |-> 0]]
      /\ UNCHANGED line

(***************************************************************************)
(* fork(), exit(), wait()                                                  *)
(***************************************************************************)
FreeProcs == {q \in Procs : proc[q].st = "unused"}

\* fork1(): the child has the descriptors, and starts on Arg(p); panic("fork")
fork1(p) ==
  /\ At(p, "fork")
  /\ IF FreeProcs = {} THEN proc' = Instead(p, <<Exit>>) /\ UNCHANGED file
     ELSE /\ proc' = [Proceed(p) EXCEPT ![Min(FreeProcs)] =
                        [proc[p] EXCEPT !.parent = p, !.todo = Arg(p)]]
          /\ file' = [f \in Files |-> [file[f] EXCEPT !.ref =
                        @ + Cardinality({fd \in Fds : proc[p].ofile[fd] = f})]]
  /\ UNCHANGED <<line, pipe>>

\* exit() closes the open descriptors in turn
exit(p) ==
  /\ At(p, "exit")
  /\ proc' = LET open == SetToSortSeq(Fds \ FreeFds(p), <)
             IN  Instead(p, [i \in DOMAIN open |-> Close(open[i])] \o <<Call("zombie", 0)>>)
  /\ UNCHANGED <<line, file, pipe>>

\* It keeps its children
exit_zombie_orphan(p) ==
  /\ At(p, "zombie")
  /\ proc' = [proc EXCEPT ![p] = [Unused EXCEPT !.st = "zombie", !.parent = proc[p].parent]]
  /\ UNCHANGED <<line, file, pipe>>
\* It gives its children to init
exit_zombie(p) ==
  /\ At(p, "zombie")
  /\ proc' = [q \in Procs |->
                IF q = p THEN [Unused EXCEPT !.st = "zombie", !.parent = proc[p].parent]
                ELSE IF proc[q].parent = p THEN [proc[q] EXCEPT !.parent = Init0] ELSE proc[q]]
  /\ UNCHANGED <<line, file, pipe>>

Children(p) == {q \in Procs : proc[q].st # "unused" /\ proc[q].parent = p}

wait(p) ==
  /\ At(p, "wait")
  /\ IF Children(p) = {} THEN proc' = Proceed(p)
     ELSE \E q \in Children(p) : proc[q].st = "zombie" /\ proc' = [Proceed(p) EXCEPT ![q] = Unused]
  /\ UNCHANGED <<line, file, pipe>>

\* The loop of init
init_wait ==
  /\ \E q \in Children(Init0) : proc[q].st = "zombie" /\ proc' = [proc EXCEPT ![q] = Unused]
  /\ UNCHANGED <<line, file, pipe>>

(***************************************************************************)
(* sh.c                                                                    *)
(***************************************************************************)
\* main() reads a line, and then end of file
getcmd(p) ==
  /\ At(p, "getcmd")
  /\ \/ /\ line = <<>>
        /\ line' \in Lines
        /\ proc' = IF IsPrefix(<<"c", "d", " ">>, line') THEN proc
                   ELSE Becomes(p, <<Fork(<<Call("parse", 0)>>), Wait, Head(proc[p].todo)>>)
     \/ /\ line # <<>>
        /\ proc' = Becomes(p, <<Exit>>)
        /\ UNCHANGED line
  /\ UNCHANGED <<file, pipe>>

\* parsecmd() and nulterminate(): the tree with its strings
Parsed(buf) == With(parsecmd(buf), LAMBDA cmd :
  IF cmd = Bad THEN Bad ELSE Texts(nulterminate(buf, cmd), cmd))

runcmd_parse(p) ==
  /\ At(p, "parse")
  /\ proc' = Becomes(p, With(Parsed(line), LAMBDA cmd : IF cmd = Bad THEN <<Exit>> ELSE <<Run(cmd)>>))
  /\ UNCHANGED <<line, file, pipe>>

\* The calls a command stands for
Calls(cmd) ==
  CASE cmd.type = "EXEC"  -> IF cmd.argv = <<>> THEN <<Exit>> ELSE <<Call("exec", cmd.argv), Exit>>
    [] cmd.type = "REDIR" -> <<Close(cmd.fd), Call("open", [name |-> cmd.file, mode |-> cmd.mode]), Run(cmd.cmd)>>
    [] cmd.type = "LIST"  -> <<Fork(<<Run(cmd.left)>>), Wait, Run(cmd.right)>>
    [] cmd.type = "PIPE"  -> <<Call("pipe", cmd)>>
    [] cmd.type = "BACK"  -> <<Fork(<<Run(cmd.cmd)>>), Exit>>

runcmd(p) ==
  /\ At(p, "run")
  /\ proc' = Becomes(p, Calls(Arg(p)))
  /\ UNCHANGED <<line, file, pipe>>

(***************************************************************************)
(* The programs: "e" is echo with two bytes to write, any other is cat     *)
(***************************************************************************)
Program(argv) == IF argv[1][1] = "e" THEN <<Call("write", 0), Call("write", 0), Exit>> ELSE <<Call("read", 0)>>

exec(p) ==
  /\ At(p, "exec")
  /\ proc' = IF Arg(p)[1] \in Missing THEN Proceed(p)
             ELSE [Instead(p, Program(Arg(p))) EXCEPT ![p].argv = Arg(p)]
  /\ UNCHANGED <<line, file, pipe>>

\* cat() reads from 0 until end of file, and writes what it gets
read(p) ==
  LET f == file[proc[p].ofile[0]]
  IN  /\ At(p, "read")
      /\ \/ /\ f.type = "pipe" /\ pipe[f.pipe].n > 0
            /\ pipe' = [pipe EXCEPT ![f.pipe].n = @ - 1]
            /\ proc' = Becomes(p, <<Call("write", 1), Call("read", 0)>>)
         \/ /\ f.type = "pipe" => pipe[f.pipe].n = 0 /\ ~pipe[f.pipe].w
            /\ proc' = Becomes(p, <<Exit>>)
            /\ UNCHANGED pipe
      /\ UNCHANGED <<line, file>>

\* pipewrite() of one byte, or the write of an inode; cat stops at an error, echo does not
write(p) ==
  LET f == file[proc[p].ofile[1]]
  IN  /\ At(p, "write")
      /\ \/ /\ f.type # "pipe"
            /\ proc' = Proceed(p) /\ UNCHANGED pipe
         \/ /\ f.type = "pipe" /\ pipe[f.pipe].n < PIPESIZE
            /\ pipe' = [pipe EXCEPT ![f.pipe].n = @ + 1]
            /\ proc' = Proceed(p)
         \/ /\ f.type = "pipe" /\ pipe[f.pipe].n = PIPESIZE /\ ~pipe[f.pipe].r
            /\ proc' = IF Arg(p) = 1 THEN Instead(p, <<Exit>>) ELSE Proceed(p)
            /\ UNCHANGED pipe
      /\ UNCHANGED <<line, file>>

Step(p) ==
  \/ getcmd(p) \/ runcmd_parse(p) \/ runcmd(p)
  \/ fork1(p) \/ exit(p) \/ exit_zombie(p) \/ wait(p)
  \/ dup(p) \/ sys_close(p) \/ pipeclose(p) \/ sys_open(p) \/ sys_pipe(p)
  \/ exec(p) \/ read(p) \/ write(p)

Next == init_wait \/ \E p \in Procs : Step(p)
Spec == Init /\ [][Next]_vars
Fairness == WF_vars(init_wait) /\ \A p \in Procs : WF_vars(Step(p))
LiveSpec == Spec /\ Fairness

Fresh == line = <<>>

\* Types; a file without references has no type, and a pipe never holds more than PIPESIZE
\* (fileclose(), pipewrite()).
TypeOK ==
  /\ \A p \in Procs :
       /\ proc[p].st \in {"unused", "run", "zombie"} /\ (proc[p].st = "run" <=> proc[p].todo # <<>>)
       /\ proc[p].parent \in Procs \cup {Init0} /\ proc[p].ofile \in [Fds -> Files \cup {0}]
  /\ \A f \in Files : file[f].ref \in Nat /\ (file[f].ref = 0 <=> file[f].type = "none")
  /\ pipe \in [Files -> [r : BOOLEAN, w : BOOLEAN, n : 0..PIPESIZE]]

\* The references of a file are the descriptors that name it, whatever calls to fork(),
\* dup() and close() interleave, and a pipe is open at an end exactly while a file of that
\* end is, or a pipeclose() is on its way.
RefExact ==
  /\ TypeOK
  /\ \A f \in Files :
       file[f].ref = Cardinality({pf \in Procs \X Fds : proc[pf[1]].ofile[pf[2]] = f})
                       + (IF f = Console THEN 3 ELSE 0)
  /\ \A i \in Files, w \in BOOLEAN :
       (IF w THEN pipe[i].w ELSE pipe[i].r) <=>
         \/ \E f \in Files : file[f].type = "pipe" /\ file[f].pipe = i /\ file[f].writable = w
         \/ \E p \in Procs : At(p, "pipeclose") /\ Arg(p).pipe = i /\ Arg(p).writable = w

\* What a line says of its programs: arguments, input and output
RECURSIVE Wires(_, _, _)
Wires(cmd, in, out) ==
  CASE cmd.type = "EXEC"  -> {<<cmd.argv, in, out>>}
    [] cmd.type = "REDIR" -> IF cmd.fd = 0 THEN Wires(cmd.cmd, cmd.file, out) ELSE Wires(cmd.cmd, in, cmd.file)
    [] cmd.type = "BACK"  -> Wires(cmd.cmd, in, out)
    [] cmd.type = "LIST"  -> Wires(cmd.left, in, out) \cup Wires(cmd.right, in, out)
    [] cmd.type = "PIPE"  -> Wires(cmd.left, in, <<"pipe">>) \cup Wires(cmd.right, <<"pipe">>, out)

\* What a file is, seen from a program that reads or writes it
End(f, w) == IF file[f].type # "pipe" THEN file[f].name ELSE IF file[f].writable = w THEN <<"pipe">> ELSE <<>>

\* A program starts with the input and output its place in the line gives it, on
\* descriptors 0 and 1, and with no other descriptor but 2: no end of a pipe leaks into it.
WiredRight ==
  \A p \in Procs :
    At(p, "read") \/ At(p, "write") =>
      /\ {fd \in Fds : proc[p].ofile[fd] # 0} = 0..2
      /\ <<proc[p].argv, End(proc[p].ofile[0], FALSE), End(proc[p].ofile[1], TRUE)>>
           \in Wires(LineOf(Tokens(line, 1)), <<"console">>, <<"console">>)

\* parsecmd() accepts the lines of the grammar and no other, builds their tree, and
\* nulterminate() cuts every word and file name of it at its end and none short.
ParseExact == Fresh => \A buf \in Inputs : Parsed(buf) = LineOf(Tokens(buf, 1))

\* In the end no process, file or pipe of the line is left, whatever call failed.
Drained == <>[](/\ \A p \in Procs : proc[p] = Unused
                /\ \A f \in Files \ {Console} : file[f] = NoFile
                /\ \A f \in Files : pipe[f] = NoPipe)
====
