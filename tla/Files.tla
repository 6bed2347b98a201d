------------------------------- MODULE Files -------------------------------
(***************************************************************************)
(* The table of open files of file.c, the descriptors of sysfile.c, and    *)
(* the life of a pipe's two ends (its bytes are in module Pipe).  The      *)
(* operations are functions of the kernel's state k:                       *)
(*   k.file[f]   ref, type, and for a pipe which one and which end         *)
(*   k.pipe[q]   used (its page is allocated), readopen, writeopen, and    *)
(*               the number of bytes n in it                               *)
(*   k.fd[p]     p->ofile: a file, or 0                                    *)
(* What each does to k.file happens under ftable.lock.                     *)
(***************************************************************************)
EXTENDS Integers, FiniteSets, SequencesExt

CONSTANTS Proc,      \* the entries of proc[], numbered from 1
          NFILE, NOFILE, PIPESIZE,
          NPIPE      \* pages there are for pipes

File == 1 .. NFILE
Fd == 0 .. NOFILE - 1
Pipes == 1 .. NPIPE

ASSUME FilesAssumption ==
  /\ Proc = 1 .. Cardinality(Proc)
  /\ {NFILE, NOFILE, PIPESIZE} \subseteq Nat \ {0} /\ NPIPE \in Nat

NoFile == [ref |-> 0, type |-> "none", pipe |-> 0, writable |-> FALSE]
NoPipe == [used |-> FALSE, readopen |-> FALSE, writeopen |-> FALSE, n |-> 0]

FreeFiles(k) == {f \in File : k.file[f].ref = 0}
FreeFds(k, p) == {d \in Fd : k.fd[p][d] = 0}
FreePipes(k) == {q \in Pipes : ~k.pipe[q].used}

(* filealloc(): the first free entry, with the type it was left with. *)
filealloc(k) == [k EXCEPT !.file[Min(FreeFiles(k))].ref = 1]

filedup(k, f) == [k EXCEPT !.file[f].ref = @ + 1]

(* fdalloc() *)
fdalloc(k, p, f) == [k EXCEPT !.fd[p][Min(FreeFds(k, p))] = f]

(* fileclose(), up to the release of ftable.lock; Closed says what is then *)
(* to be closed: << >>, or the file as it was.                             *)
fileclose(k, f) ==
  IF k.file[f].ref > 1 THEN [k EXCEPT !.file[f].ref = @ - 1] ELSE [k EXCEPT !.file[f] = NoFile]
Closed(k, f) ==
  IF k.file[f].ref = 1 /\ k.file[f].type = "pipe" THEN <<k.file[f]>> ELSE << >>

(* pipeclose(): the second end to go frees the page. *)
pipecloseKeeps(k, ff) ==   \* tests the end it has just closed
  IF ff.writable THEN [k EXCEPT !.pipe[ff.pipe].writeopen = FALSE]
  ELSE [k EXCEPT !.pipe[ff.pipe] = NoPipe]

pipeclose(k, ff) ==
  LET q == k.pipe[ff.pipe]
      r == IF ff.writable THEN [q EXCEPT !.writeopen = FALSE] ELSE [q EXCEPT !.readopen = FALSE]
  IN [k EXCEPT !.pipe[ff.pipe] = IF r.readopen \/ r.writeopen THEN r ELSE NoPipe]

(* pipealloc() once it has its two files: the page, and the two ends. *)
PipeEnd(q, writable) == [ref |-> 1, type |-> "pipe", pipe |-> q, writable |-> writable]
pipealloc(k, rf, wf) ==
  LET q == Min(FreePipes(k))
  IN [k EXCEPT !.file[rf] = PipeEnd(q, FALSE), !.file[wf] = PipeEnd(q, TRUE),
               !.pipe[q] = [used |-> TRUE, readopen |-> TRUE, writeopen |-> TRUE, n |-> 0]]

(* sys_dup() *)
CanDup(k, p, d) == k.fd[p][d] # 0 /\ FreeFds(k, p) # {}
dup(k, p, d) == filedup(fdalloc(k, p, k.fd[p][d]), k.fd[p][d])

(* The descriptors of fork(). *)
CopyFds(k, p, np) ==
  [k EXCEPT !.fd[np] = k.fd[p],
            !.file = [f \in File |->
               [@[f] EXCEPT !.ref = @ + Cardinality({d \in Fd : k.fd[p][d] = f})]]]
=============================================================================
