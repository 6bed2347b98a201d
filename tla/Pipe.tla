------------------------------- MODULE Pipe -------------------------------
(***************************************************************************)
(* One pipe, kernel/pipe.c, and the processes that hold descriptors of its *)
(* ends.  fileclose() calls pipeclose() when the last descriptor of an end *)
(* goes; a process inside a call keeps its descriptor.                     *)
(*                                                                         *)
(* pi->lock is held from acquire() to the sleep() or the return, one byte  *)
(* per step.  The test of pr->killed and the sleep that follows it are two *)
(* steps: kill() takes p->lock, not pi->lock, and can come in between.     *)
(***************************************************************************)
EXTENDS Integers, Sequences, FiniteSets

CONSTANTS
  Proc,       \* the processes that share the pipe
  Fds,        \* the descriptors of each at the start: subsets of {"r", "w"}
  Killable,   \* the processes kill() is called on
  Byte,       \* what a byte can be
  Length,     \* how long a read or a write may be
  PIPESIZE,
  UINT,       \* 2^32 in the code: nread and nwrite are uint
  None        \* nobody

ASSUME PipeAssumption ==
  /\ Fds \in [Proc -> SUBSET {"r", "w"}]
  /\ \A e \in {"r", "w"} : \E p \in Proc : e \in Fds[p]
  /\ Killable \subseteq Proc
  /\ Length \subseteq Nat \ {0}
  /\ PIPESIZE \in Nat \ {0}
  /\ UINT \in Nat /\ UINT > PIPESIZE /\ UINT % PIPESIZE = 0
  /\ None \notin Proc

VARIABLES
  data, nread, nwrite, readopen, writeopen,   \* struct pipe
  freed,      \* whether kfree(pi) was called
  lock,       \* who holds pi->lock
  fds,        \* the descriptors of each process
  killed,     \* p->killed
  pc,         \* where each process is
  n, i, ch,   \* the argument and the locals of piperead() and pipewrite()
  eof         \* the processes a read() of which has returned 0

pipe == <<data, nread, nwrite, readopen, writeopen, freed>>
args == <<n, i, ch>>
vars == <<pipe, lock, fds, killed, pc, args, eof>>

Full == nwrite = (nread + PIPESIZE) % UINT
Empty == nread = nwrite

Goto(p, label) == pc' = [pc EXCEPT ![p] = label]

(* wakeup(&pi->nread) and wakeup(&pi->nwrite): every process asleep there. *)
Wakeup(here, woken) ==
  [q \in Proc |-> IF pc[q] = here THEN woken ELSE pc[q]]

WakeReaders == Wakeup("r_asleep", "r_acquire")
WakeWriters == Wakeup("w_asleep", "w_acquire")

Init ==   \* after pipealloc() and the forks that share the pipe
  /\ data \in [0..PIPESIZE - 1 -> Byte]
  /\ nread = 0 /\ nwrite = 0
  /\ readopen = 1 /\ writeopen = 1
  /\ freed = 0
  /\ lock = None
  /\ fds = Fds
  /\ killed = [p \in Proc |-> 0]
  /\ pc = [p \in Proc |-> "user"]
  /\ n = [p \in Proc |-> 0]
  /\ i = [p \in Proc |-> 0]
  /\ ch \in {[p \in Proc |-> b] : b \in Byte}
  /\ eof = {}

Return(p) ==
  /\ lock' = None
  /\ n' = [n EXCEPT ![p] = 0]
  /\ i' = [i EXCEPT ![p] = 0]
-----------------------------------------------------------------------------
(* The calls.  usertrap() lets no killed process make one. *)

Call(p, end, label) ==
  /\ pc[p] = "user" /\ killed[p] = 0
  /\ end \in fds[p]
  /\ \E k \in Length : n' = [n EXCEPT ![p] = k]
  /\ Goto(p, label)
  /\ UNCHANGED <<pipe, lock, fds, killed, i, ch, eof>>

Write(p) == Call(p, "w", "w_acquire")
Read(p) == Call(p, "r", "r_acquire")

Acquire(p) ==
  /\ pc[p] \in {"w_acquire", "r_acquire"}
  /\ lock = None
  /\ lock' = p
  /\ Goto(p, IF pc[p] = "w_acquire" THEN "w_loop" ELSE "r_loop")
  /\ UNCHANGED <<pipe, fds, killed, args, eof>>
-----------------------------------------------------------------------------
(* pipewrite() *)
(* The pipe is full: give up, or wake the readers and go to sleep. *)
WriteFull(p) ==
  /\ pc[p] = "w_loop" /\ i[p] < n[p] /\ Full
  /\ IF readopen = 0 \/ killed[p] = 1
     THEN Return(p) /\ Goto(p, "user") /\ UNCHANGED ch
     ELSE pc' = [WakeReaders EXCEPT ![p] = "w_sleep"] /\ UNCHANGED <<lock, args>>
  /\ UNCHANGED <<pipe, fds, killed, eof>>

(* sleep(&pi->nwrite, &pi->lock), sleep(&pi->nread, &pi->lock) *)
Sleep(p) ==
  /\ pc[p] \in {"w_sleep", "r_sleep"}
  /\ lock' = None
  /\ Goto(p, IF pc[p] = "w_sleep" THEN "w_asleep" ELSE "r_asleep")
  /\ UNCHANGED <<pipe, fds, killed, args, eof>>

WriteByte(p, b) ==
  /\ pc[p] = "w_loop" /\ i[p] < n[p] /\ ~Full
  /\ data' = [data EXCEPT ![nwrite % PIPESIZE] = b]
  /\ nwrite' = (nwrite + 1) % UINT
  /\ i' = [i EXCEPT ![p] = @ + 1]
  /\ UNCHANGED <<nread, readopen, writeopen, freed, lock, fds, killed, pc, n, ch, eof>>

WriteEndQuiet(p) ==   \* forgets the last wakeup(&pi->nread)
  /\ pc[p] = "w_loop" /\ i[p] = n[p]
  /\ Return(p)
  /\ Goto(p, "user")
  /\ UNCHANGED <<pipe, fds, killed, ch, eof>>

(* All bytes written, or copyin() failed on the next one. *)
WriteEnd(p) ==
  /\ pc[p] = "w_loop"
  /\ i[p] = n[p] \/ ~Full
  /\ Return(p)
  /\ pc' = [WakeReaders EXCEPT ![p] = "user"]
  /\ UNCHANGED <<pipe, fds, killed, ch, eof>>
-----------------------------------------------------------------------------
(* piperead() *)

(* While the pipe is empty and can still be written: give up if killed,    *)
(* else go to sleep.                                                       *)
ReadTest(p) ==
  /\ pc[p] = "r_loop"
  /\ IF Empty /\ writeopen = 1
     THEN IF killed[p] = 1
          THEN Return(p) /\ Goto(p, "user") /\ UNCHANGED ch
          ELSE Goto(p, "r_sleep") /\ UNCHANGED <<lock, args>>
     ELSE Goto(p, "r_copy") /\ UNCHANGED <<lock, args>>
  /\ UNCHANGED <<pipe, fds, killed, eof>>

ReadBytePre(p) ==   \* ++pi->nread instead of pi->nread++
  /\ pc[p] = "r_copy" /\ i[p] < n[p] /\ ~Empty
  /\ ch' = [ch EXCEPT ![p] = data[(nread + 1) % PIPESIZE]]
  /\ nread' = (nread + 1) % UINT
  /\ i' = [i EXCEPT ![p] = @ + 1]
  /\ UNCHANGED <<data, nwrite, readopen, writeopen, freed, lock, fds, killed, pc, n, eof>>

(* One byte to the user; if copyout() fails, the byte is gone. *)
ReadByte(p) ==
  /\ pc[p] = "r_copy" /\ i[p] < n[p] /\ ~Empty
  /\ ch' = [ch EXCEPT ![p] = data[nread % PIPESIZE]]
  /\ nread' = (nread + 1) % UINT
  /\ \/ i' = [i EXCEPT ![p] = @ + 1] /\ UNCHANGED pc
     \/ Goto(p, "r_fault") /\ UNCHANGED i
  /\ UNCHANGED <<data, nwrite, readopen, writeopen, freed, lock, fds, killed, n, eof>>

(* Nothing copied from an empty pipe: end of file. *)
ReadEnd(p) ==
  /\ pc[p] = "r_fault" \/ (pc[p] = "r_copy" /\ (i[p] = n[p] \/ Empty))
  /\ Return(p)
  /\ eof' = IF pc[p] = "r_copy" /\ i[p] = 0 THEN eof \cup {p} ELSE eof
  /\ pc' = [WakeWriters EXCEPT ![p] = "user"]
  /\ UNCHANGED <<pipe, fds, killed, ch>>
-----------------------------------------------------------------------------
(* close(), or exit() of a killed process: the last descriptor of an end   *)
(* closes the end.                                                         *)
CloseLabel(end) == IF end = "r" THEN "close_r" ELSE "close_w"

Close(p, end) ==
  /\ pc[p] = "user"
  /\ end \in fds[p]
  /\ fds' = [fds EXCEPT ![p] = @ \ {end}]
  /\ Goto(p, IF \E q \in Proc \ {p} : end \in fds[q] THEN "user" ELSE CloseLabel(end))
  /\ UNCHANGED <<pipe, lock, killed, args, eof>>

PipeCloseEager(p) ==   \* frees the pipe with the first end
  /\ lock = None
  /\ \/ /\ pc[p] = "close_w"
        /\ writeopen' = 0
        /\ pc' = [WakeReaders EXCEPT ![p] = "user"]
        /\ UNCHANGED readopen
     \/ /\ pc[p] = "close_r"
        /\ readopen' = 0
        /\ pc' = [WakeWriters EXCEPT ![p] = "user"]
        /\ UNCHANGED writeopen
  /\ freed' = IF readopen' = 0 \/ writeopen' = 0 THEN 1 ELSE freed
  /\ UNCHANGED <<data, nread, nwrite, lock, fds, killed, args, eof>>

PipeClose(p) ==
  /\ lock = None
  /\ \/ /\ pc[p] = "close_w"
        /\ writeopen' = 0
        /\ pc' = [WakeReaders EXCEPT ![p] = "user"]
        /\ UNCHANGED readopen
     \/ /\ pc[p] = "close_r"
        /\ readopen' = 0
        /\ pc' = [WakeWriters EXCEPT ![p] = "user"]
        /\ UNCHANGED writeopen
  /\ freed' = IF readopen' = 0 /\ writeopen' = 0 THEN 1 ELSE freed
  /\ UNCHANGED <<data, nread, nwrite, lock, fds, killed, args, eof>>

(* kill(): sets p->killed and wakes the process if it is asleep. *)
Kill(p) ==
  /\ p \in Killable
  /\ killed[p] = 0
  /\ killed' = [killed EXCEPT ![p] = 1]
  /\ Goto(p, CASE pc[p] = "r_asleep" -> "r_acquire"
                [] pc[p] = "w_asleep" -> "w_acquire"
                [] OTHER -> pc[p])
  /\ UNCHANGED <<pipe, lock, fds, args, eof>>
-----------------------------------------------------------------------------
(* What a process does once it is in a call. *)
Kernel(p) == \/ Acquire(p) \/ Sleep(p) \/ WriteFull(p) \/ WriteEnd(p)
             \/ \E b \in Byte : WriteByte(p, b)
             \/ ReadTest(p) \/ ReadByte(p) \/ ReadEnd(p) \/ PipeClose(p)

User(p) == Write(p) \/ Read(p) \/ \E end \in {"r", "w"} : Close(p, end)

Next == \E p \in Proc : Kernel(p) \/ User(p) \/ Kill(p)

Spec == Init /\ [][Next]_vars
-----------------------------------------------------------------------------
Count == (nwrite - nread + UINT) % UINT

(* The ring buffer with its wrapping counters implements the queue. *)
Abstract == INSTANCE Fifo WITH
  Size  <- PIPESIZE,
  queue <- [k \in 1..Count |-> data[(nread + k - 1) % PIPESIZE]],
  open  <- (IF readopen = 1 THEN {"r"} ELSE {}) \cup
           (IF writeopen = 1 THEN {"w"} ELSE {})

InOrder == Abstract!Spec

(* A reader sleeps only while the pipe is empty and somebody can write, a  *)
(* writer only while it is full and somebody can read; between two         *)
(* critical sections of pi->lock.  The one exception is what pipewrite()   *)
(* of a killed process leaves behind: it fills the pipe and returns -1     *)
(* without the wakeup(&pi->nread) that its other exits make.               *)
KilledWriter == \E p \in Proc : killed[p] = 1 /\ "w" \in Fds[p]

SleepWithCause ==
  lock = None =>
    /\ (\E p \in Proc : pc[p] = "r_asleep") => writeopen = 1 /\ (Empty \/ KilledWriter)
    /\ (\E p \in Proc : pc[p] = "w_asleep") => readopen = 1 /\ Full

(* kfree() comes after the last use: nobody is in a call of a freed pipe   *)
(* or holds a descriptor of it.                                            *)
FreedUnused == freed = 1 => \A p \in Proc : pc[p] = "user" /\ fds[p] = {}
============================================================================
