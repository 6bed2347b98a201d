------------------------------- MODULE Shell -------------------------------
(***************************************************************************)
(* The shell, user/sh.c: its parser, and the processes that runcmd()       *)
(* starts for a command line, with the programs cat, echo and part of      *)
(* grind, on the descriptors of module Files.                              *)
(*                                                                         *)
(* A process has a list of what it has still to do; runcmd() puts there    *)
(* the calls for one node of the command.  A call is a step, but for       *)
(* pipe(), which allocates twice, and for close(), which tells a pipe that *)
(* an end is gone after it has left the file table.  wait() reports a      *)
(* zombie child and leaves it there, as the code does (module Proc).       *)
(***************************************************************************)
EXTENDS Files

CONSTANTS Commands,   \* the commands that are typed, as trees
          BadLines,   \* other lines
          NLines,     \* bound: the lines typed
          MAXARGS
-----------------------------------------------------------------------------
(* A line is a sequence of tokens, as gettoken() tells them apart: words,  *)
(* and < > + (for >>) | & ; ( ).  Each function gives a command and the    *)
(* tokens that are left, or ok is FALSE: the shell's panic().              *)
Symbols == {"<", ">", "+", "|", "&", ";", "(", ")"}

Got(cmd, rest) == [ok |-> TRUE, cmd |-> cmd, rest |-> rest]
execcmd(argv) == [type |-> "EXEC", argv |-> argv]
redircmd(cmd, mode, file, fd) ==
  [type |-> "REDIR", cmd |-> cmd, mode |-> mode, file |-> file, fd |-> fd]
pipecmd(left, right) == [type |-> "PIPE", left |-> left, right |-> right]
listcmd(left, right) == [type |-> "LIST", left |-> left, right |-> right]
backcmd(cmd) == [type |-> "BACK", cmd |-> cmd]
Panic == [ok |-> FALSE, cmd |-> execcmd(<< >>), rest |-> << >>]

peek(toks, S) == toks # << >> /\ Head(toks) \in S

(* A REDIR is made before the arguments that follow it are added: they go  *)
(* to the EXEC inside.                                                     *)
RECURSIVE AddArg(_, _), Argc(_)
AddArg(cmd, word) ==
  IF cmd.type = "REDIR" THEN [cmd EXCEPT !.cmd = AddArg(@, word)]
  ELSE [cmd EXCEPT !.argv = Append(@, word)]
Argc(cmd) == IF cmd.type = "REDIR" THEN Argc(cmd.cmd) ELSE Len(cmd.argv)

RECURSIVE parseredirs(_, _), parseargs(_), parseback(_), parsepipe(_), parseline(_)

parseredirs(cmd, toks) ==
  IF ~peek(toks, {"<", ">", "+"}) THEN Got(cmd, toks)
  ELSE IF Len(toks) < 2 \/ toks[2] \in Symbols THEN Panic
  ELSE parseredirs(redircmd(cmd, toks[1], toks[2], IF toks[1] = "<" THEN 0 ELSE 1),
                   SubSeq(toks, 3, Len(toks)))

(* The loop of parseexec(), from what r has. *)
parseargs(r) ==
  IF ~r.ok \/ r.rest = << >> \/ peek(r.rest, {"|", ")", "&", ";"}) THEN r
  ELSE IF Head(r.rest) \in Symbols \/ Argc(r.cmd) + 1 >= MAXARGS THEN Panic
  ELSE parseargs(parseredirs(AddArg(r.cmd, Head(r.rest)), Tail(r.rest)))

parseblock(toks) ==
  LET r == parseline(Tail(toks))
  IN IF r.ok /\ peek(r.rest, {")"}) THEN parseredirs(r.cmd, Tail(r.rest)) ELSE Panic

parseexec(toks) ==
  IF peek(toks, {"("}) THEN parseblock(toks) ELSE parseargs(parseredirs(execcmd(<< >>), toks))

parsepipe(toks) ==
  LET l == parseexec(toks)
      r == parsepipe(Tail(l.rest))
  IN IF ~(l.ok /\ peek(l.rest, {"|"})) THEN l
     ELSE IF r.ok THEN Got(pipecmd(l.cmd, r.cmd), r.rest) ELSE Panic

parsebackOnce(r) ==   \* one & at most
  IF r.ok /\ peek(r.rest, {"&"}) THEN Got(backcmd(r.cmd), Tail(r.rest)) ELSE r

parseback(r) ==
  IF r.ok /\ peek(r.rest, {"&"}) THEN parseback(Got(backcmd(r.cmd), Tail(r.rest))) ELSE r

parseline(toks) ==
  LET l == parseback(parsepipe(toks))
      r == parseline(Tail(l.rest))
  IN IF ~(l.ok /\ peek(l.rest, {";"})) THEN l
     ELSE IF r.ok THEN Got(listcmd(l.cmd, r.cmd), r.rest) ELSE Panic

parsecmd(toks) == LET r == parseline(toks) IN IF r.rest = << >> THEN r ELSE Panic
-----------------------------------------------------------------------------
(* runcmd(): what a process has to do for a command.  Calls that take a     *)
(* descriptor from p[] have its index e: p[1] and p[2] are the two of the  *)
(* last pipe(), or of the first one when a second has set p[3] and p[4].   *)
Op(op) == [op |-> op]
Run(cmd) == <<[op |-> "run", cmd |-> cmd]>>
ForkTo(script) == [op |-> "fork", script |-> script]
CallPipe(e) == [op |-> "pipe", e |-> e]
CallOpen(must) == [op |-> "open", must |-> must]
CloseFd(fd) == [op |-> "close", fd |-> fd]
CloseP(e) == [op |-> "closep", e |-> e]
DupP(e) == [op |-> "dupp", e |-> e]
ReadP(e) == [op |-> "readp", e |-> e]

PipeSideKeeps(fd, e, cmd) ==   \* keeps p[1]
  <<CloseFd(fd), DupP(e), CloseP(1)>> \o Run(cmd)

PipeSide(fd, e, cmd) == <<CloseFd(fd), DupP(e), CloseP(1), CloseP(2)>> \o Run(cmd)

(* echo writes each argument, and a separator after it. *)
Echoes(argv) == [j \in 1 .. 2 * (Len(argv) - 1) |-> Op("echo")] \o <<Op("exit")>>

(* exec() of a program, or of none that there is. *)
Exec(argv) ==
  IF argv = << >> THEN <<Op("exit")>>
  ELSE CASE argv[1] = "cat"   -> <<Op("cat")>>
         [] argv[1] = "echo"  -> Echoes(argv)
         [] argv[1] = "grind" -> <<Op("go")>>
         [] OTHER             -> <<Op("exit")>>

runcmd(cmd) ==
  CASE cmd.type = "EXEC"  -> Exec(cmd.argv)
    [] cmd.type = "REDIR" -> <<CloseFd(cmd.fd), CallOpen(TRUE)>> \o Run(cmd.cmd)
    [] cmd.type = "LIST"  -> <<ForkTo(Run(cmd.left)), Op("wait")>> \o Run(cmd.right)
    [] cmd.type = "PIPE"  -> <<CallPipe(1), ForkTo(PipeSide(1, 2, cmd.left)),
                               ForkTo(PipeSide(0, 1, cmd.right)),
                               CloseP(1), CloseP(2), Op("wait"), Op("wait"), Op("exit")>>
    [] cmd.type = "BACK"  -> <<ForkTo(Run(cmd.cmd)), Op("exit")>>

(* The case of grind's go() that sets up echo hi | cat between two pipes   *)
(* of its own, and reads what comes out.                                   *)
GrindPipeline ==
  <<CallPipe(1), CallPipe(3),
    ForkTo(<<CloseP(3), CloseP(4), CloseP(1), CloseFd(1), DupP(2), CloseP(2)>>
           \o Echoes(<<"echo", "hi">>)),
    ForkTo(<<CloseP(2), CloseP(3), CloseFd(0), DupP(1), CloseP(1), CloseFd(1), DupP(4),
             CloseP(4), Op("cat")>>),
    CloseP(1), CloseP(2), CloseP(4), ReadP(3), ReadP(3), CloseP(3),
    Op("wait"), Op("wait"), Op("exit")>>
-----------------------------------------------------------------------------
VARIABLES
  k,       \* files, pipes and descriptors: see Files
  st,      \* the processes: see Absent
  line,    \* buf: the tokens, and the command that was typed, or none
  lines    \* the number of lines read

vars == <<k, st, line, lines>>

(* state; parent; todo; p[], the descriptors of a pipe; f0, the file that  *)
(* pipe() has so far; what close() has still to close; the bytes that cat  *)
(* holds.                                                                  *)
Absent == [state |-> "UNUSED", parent |-> 0, todo |-> << >>, p |-> <<0, 0, 0, 0>>, f0 |-> 0,
           closing |-> << >>, held |-> 0]

(* The tokens of a command: what has to be typed for it. *)
RECURSIVE Render(_)
Paren(cmd, types) ==
  IF cmd.type \in types THEN Render(cmd) ELSE <<"(">> \o Render(cmd) \o <<")">>
Render(cmd) ==
  CASE cmd.type = "EXEC"  -> cmd.argv
    [] cmd.type = "REDIR" -> Paren(cmd.cmd, {"EXEC", "REDIR"}) \o <<cmd.mode, cmd.file>>
    [] cmd.type = "PIPE"  -> Paren(cmd.left, {"EXEC", "REDIR"}) \o <<"|">>
                             \o Paren(cmd.right, {"EXEC", "REDIR", "PIPE"})
    [] cmd.type = "BACK"  -> Paren(cmd.cmd, {"EXEC", "REDIR", "PIPE", "BACK"}) \o <<"&">>
    [] cmd.type = "LIST"  -> Paren(cmd.left, {"EXEC", "REDIR", "PIPE", "BACK"}) \o <<";">>
                             \o Render(cmd.right)

Line(cmd) == [toks |-> Render(cmd), cmd |-> <<cmd>>]
Typed == {Line(cmd) : cmd \in Commands}
         \cup {[toks |-> t, cmd |-> << >>] : t \in BadLines}

(* init has opened the console, and started the shell with it as 0, 1 and  *)
(* 2; init keeps its own three descriptors.                                *)
Console == 1
Init ==
  /\ k = [file |-> [f \in File |-> IF f = Console
                      THEN [ref |-> 6, type |-> "device", pipe |-> 0, writable |-> TRUE]
                      ELSE NoFile],
          pipe |-> [q \in Pipes |-> NoPipe],
          fd |-> [p \in Proc |-> [d \in Fd |-> IF p = 1 /\ d < 3 THEN Console ELSE 0]]]
  /\ st = [p \in Proc |-> IF p = 1 THEN [Absent EXCEPT !.state = "RUNNING", !.todo = <<Op("main")>>]
                          ELSE Absent]
  /\ line = Line(execcmd(<< >>))
  /\ lines = 0

Do(p, op) ==
  /\ st[p].state = "RUNNING" /\ st[p].closing = << >>
  /\ Head(st[p].todo).op = op

Then(p, s) == st' = [st EXCEPT ![p] = s]
Done(p) == [st[p] EXCEPT !.todo = Tail(@)]
Quit(p) == [st[p] EXCEPT !.todo = <<Op("exit")>>]
SameLine == UNCHANGED <<line, lines>>

(* The main loop of the shell; the child parses the line. *)
Parsed == [l \in Typed \cup {Line(execcmd(<< >>))} |-> parsecmd(l.toks)]
Child(l) == IF Parsed[l].ok THEN Run(Parsed[l].cmd) ELSE <<Op("exit")>>

Main(p) ==
  /\ Do(p, "main")
  /\ IF lines = NLines THEN Then(p, Quit(p)) /\ SameLine
     ELSE /\ line' \in Typed
          /\ lines' = lines + 1
          /\ Then(p, [st[p] EXCEPT !.todo =
                 IF peek(line'.toks, {"cd"}) THEN @   \* chdir() in the shell itself
                 ELSE <<ForkTo(Child(line')), Op("wait")>> \o @])
  /\ UNCHANGED k

RunCmd(p) ==
  /\ Do(p, "run")
  /\ Then(p, [st[p] EXCEPT !.todo = runcmd(Head(@).cmd)])
  /\ SameLine /\ UNCHANGED k

(* fork1() *)
Fork(p) ==
  /\ Do(p, "fork")
  /\ LET free == {q \in Proc : st[q].state = "UNUSED"}
         np == Min(free)
     IN IF free = {} THEN Then(p, Quit(p)) /\ UNCHANGED k
        ELSE /\ k' = CopyFds(k, p, np)
             /\ st' = [st EXCEPT ![p] = Done(p),
                         ![np] = [Absent EXCEPT !.state = "RUNNING", !.parent = p,
                                                !.todo = Head(st[p].todo).script,
                                                !.p = st[p].p]]
  /\ SameLine

(* wait(): a zombie child, or no child at all. *)
Wait(p) ==
  /\ Do(p, "wait")
  /\ LET kids == {q \in Proc : st[q].parent = p}
     IN kids = {} \/ \E q \in kids : st[q].state = "ZOMBIE"
  /\ Then(p, Done(p))
  /\ SameLine /\ UNCHANGED k

(* close(): argfd() refuses a descriptor that is not open. *)
CloseNow(p, d, s) ==
  LET f == k.fd[p][d]
  IN IF f = 0 THEN Then(p, s) /\ UNCHANGED k
     ELSE /\ k' = fileclose([k EXCEPT !.fd[p][d] = 0], f)
          /\ Then(p, [s EXCEPT !.closing = Closed(k, f)])

Close(p) == Do(p, "close") /\ CloseNow(p, Head(st[p].todo).fd, Done(p)) /\ SameLine
CloseEnd(p) == Do(p, "closep") /\ CloseNow(p, st[p].p[Head(st[p].todo).e], Done(p)) /\ SameLine

(* The end of fileclose(), outside ftable.lock. *)
PipeClose(p) ==
  /\ st[p].closing # << >>
  /\ k' = pipeclose(k, Head(st[p].closing))
  /\ Then(p, [st[p] EXCEPT !.closing = Tail(@)])
  /\ SameLine

DupEnd(p) ==
  /\ Do(p, "dupp")
  /\ LET d == st[p].p[Head(st[p].todo).e]
     IN k' = IF CanDup(k, p, d) THEN dup(k, p, d) ELSE k
  /\ Then(p, Done(p))
  /\ SameLine

(* open() of a file, which may fail; the shell then exits. *)
Open(p) ==
  /\ Do(p, "open")
  /\ \/ /\ FreeFiles(k) # {} /\ FreeFds(k, p) # {}
        /\ LET f == Min(FreeFiles(k))
           IN k' = fdalloc([filealloc(k) EXCEPT !.file[f].type = "inode"], p, f)
        /\ Then(p, Done(p))
     \/ /\ Then(p, IF Head(st[p].todo).must THEN Quit(p) ELSE Done(p))
        /\ UNCHANGED k
  /\ SameLine

(* sys_pipe(): filealloc(); then filealloc(), kalloc() and two fdalloc()s, *)
(* each of which can fail.                                                 *)
Pipe1(p) ==
  /\ Do(p, "pipe") /\ st[p].f0 = 0
  /\ IF FreeFiles(k) = {} THEN Then(p, Quit(p)) /\ UNCHANGED k
     ELSE k' = filealloc(k) /\ Then(p, [st[p] EXCEPT !.f0 = Min(FreeFiles(k))])
  /\ SameLine

UndoPipeHalf(g, rf, wf) == fileclose(g, rf)   \* without fileclose(wf)

UndoPipe(g, rf, wf) == fileclose(fileclose(g, rf), wf)

Pipe2(p) ==
  /\ Do(p, "pipe") /\ st[p].f0 # 0
  /\ LET rf == st[p].f0
         wf == Min(FreeFiles(k))
         q == Min(FreePipes(k))
         made == pipealloc(k, rf, wf)
         failed == [Quit(p) EXCEPT !.f0 = 0]
         d0 == Min(FreeFds(k, p))
         d1 == Min(FreeFds(k, p) \ {d0})
         e == Head(st[p].todo).e
     IN IF FreeFiles(k) = {} \/ FreePipes(k) = {}
        THEN k' = fileclose(k, rf) /\ Then(p, failed)
        ELSE IF Cardinality(FreeFds(k, p)) < 2
        THEN /\ k' = UndoPipe(made, rf, wf)
             /\ Then(p, [failed EXCEPT !.closing = <<PipeEnd(q, FALSE), PipeEnd(q, TRUE)>>])
        ELSE /\ k' = fdalloc(fdalloc(made, p, rf), p, wf)
             /\ Then(p, [Done(p) EXCEPT !.f0 = 0, !.p = [@ EXCEPT ![e] = d0, ![e + 1] = d1]])
  /\ SameLine
-----------------------------------------------------------------------------
(* The programs: cat copies what it reads from 0 to 1.  A file and the     *)
(* console are empty, and take every byte.                                 *)
PipeAt(p, d) == IF k.fd[p][d] = 0 THEN 0 ELSE k.file[k.fd[p][d]].pipe

Readable(q) == k.pipe[q].n > 0 \/ ~k.pipe[q].writeopen

Cat(p) ==
  /\ Do(p, "cat") /\ st[p].held = 0
  /\ LET q == PipeAt(p, 0)
     IN IF q = 0 THEN Then(p, Quit(p)) /\ UNCHANGED k
        ELSE /\ Readable(q)
             /\ k' = [k EXCEPT !.pipe[q].n = 0]
             /\ Then(p, IF k.pipe[q].n = 0 THEN Quit(p) ELSE [st[p] EXCEPT !.held = k.pipe[q].n])
  /\ SameLine

ReadEnd(p) ==   \* grind's read() of one byte
  /\ Do(p, "readp")
  /\ LET q == PipeAt(p, st[p].p[Head(st[p].todo).e])
     IN Readable(q) /\ k' = [k EXCEPT !.pipe[q].n = Max({0, @ - 1})]
  /\ Then(p, Done(p))
  /\ SameLine

(* write(), a byte a step; a full pipe without a reader is an error. *)
WriteDeaf(p, s, failed) ==   \* sleeps also when there is no reader
  LET q == PipeAt(p, 1)
  IN IF q = 0 THEN Then(p, s) /\ UNCHANGED k
     ELSE k.pipe[q].n < PIPESIZE /\ k' = [k EXCEPT !.pipe[q].n = @ + 1] /\ Then(p, s)

Write(p, s, failed) ==
  LET q == PipeAt(p, 1)
  IN IF q = 0 THEN Then(p, s) /\ UNCHANGED k
     ELSE IF k.pipe[q].n = PIPESIZE
          THEN ~k.pipe[q].readopen /\ Then(p, failed) /\ UNCHANGED k
     ELSE k' = [k EXCEPT !.pipe[q].n = @ + 1] /\ Then(p, s)

CatWrite(p) ==
  /\ Do(p, "cat") /\ st[p].held > 0
  /\ Write(p, [st[p] EXCEPT !.held = @ - 1], Quit(p))
  /\ SameLine

Echo(p) == Do(p, "echo") /\ Write(p, Done(p), Done(p)) /\ SameLine

Go(p) ==   \* one round, with or without a file that an earlier one left open
  /\ Do(p, "go")
  /\ \E before \in {<< >>, <<CallOpen(FALSE)>>} :
       Then(p, [st[p] EXCEPT !.todo = before \o GrindPipeline])
  /\ SameLine /\ UNCHANGED k

(* exit(): close the descriptors in turn, then become a zombie; init takes *)
(* the children.                                                           *)
Exit(p) ==
  /\ Do(p, "exit")
  /\ LET open == {d \in Fd : k.fd[p][d] # 0}
     IN IF open # {} THEN CloseNow(p, Min(open), st[p])
        ELSE /\ st' = [q \in Proc |->
                         IF q = p THEN [Absent EXCEPT !.state = "ZOMBIE", !.parent = st[p].parent]
                         ELSE IF st[q].parent = p THEN [st[q] EXCEPT !.parent = 0]
                         ELSE st[q]]
             /\ UNCHANGED k
  /\ SameLine

Step(p) ==
  \/ Main(p) \/ RunCmd(p) \/ Fork(p) \/ Wait(p) \/ Close(p) \/ CloseEnd(p) \/ PipeClose(p)
  \/ DupEnd(p) \/ Open(p) \/ Pipe1(p) \/ Pipe2(p) \/ Cat(p) \/ CatWrite(p) \/ ReadEnd(p)
  \/ Echo(p) \/ Go(p) \/ Exit(p)

Next == \E p \in Proc : Step(p)

Spec == Init /\ [][Next]_vars /\ \A p \in Proc : WF_vars(Step(p))
-----------------------------------------------------------------------------
(* f->ref counts the descriptors of the file, those of init included, and  *)
(* the one that pipe() is about to give out: whatever fork(), dup(),       *)
(* exit() and a failing pipe() or open() do, no file is leaked and none    *)
(* goes while it is in use.                                                *)
FilesExact ==
  \A f \in File :
    k.file[f].ref = Cardinality({x \in Proc \X Fd : k.fd[x[1]][x[2]] = f})
                    + Cardinality({p \in Proc : st[p].f0 = f}) + (IF f = Console THEN 3 ELSE 0)

(* An end of a pipe is open exactly while a file stands for it, or a       *)
(* fileclose() that has left the file table has still to close it; the     *)
(* page goes with the second end, and no sooner.                           *)
PipeEndsExact ==
  LET stands(q, w) ==
        \/ \E f \in File : k.file[f].ref > 0 /\ k.file[f].pipe = q /\ k.file[f].writable = w
        \/ \E p \in Proc : \E j \in 1 .. Len(st[p].closing) :
             st[p].closing[j].pipe = q /\ st[p].closing[j].writable = w
  IN \A q \in Pipes : /\ k.pipe[q].readopen = stands(q, FALSE)
                      /\ k.pipe[q].writeopen = stands(q, TRUE)
                      /\ k.pipe[q].used = (k.pipe[q].readopen \/ k.pipe[q].writeopen)

(* A program has 0, 1 and 2, and no end of a pipe but the one to read from *)
(* as 0 and the one to write to as 1: none inherits an end that another    *)
(* process waits to see closed.                                            *)
NoStrayEnds ==
  \A p \in Proc :
    st[p].state = "RUNNING" /\ Head(st[p].todo).op \in {"cat", "echo"} =>
      /\ \A d \in 0 .. 2 : k.fd[p][d] # 0
      /\ \A d \in Fd : PipeAt(p, d) # 0 => d = IF k.file[k.fd[p][d]].writable THEN 1 ELSE 0

(* The shell runs the command that was typed: parsing the text of a        *)
(* command gives the command back, and another line gives none.            *)
RunsWhatIsTyped ==
  Parsed[line].ok = (line.cmd # << >>) /\ (Parsed[line].ok => line.cmd = <<Parsed[line].cmd>>)

(* Every process ends: each cat of a pipeline gets its end of file, also   *)
(* when a fork(), pipe() or open() on the way has failed.                  *)
AllEnd == <>(\A p \in Proc : st[p].state # "RUNNING")
=============================================================================
