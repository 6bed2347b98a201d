------------------------------- MODULE Log -------------------------------
(***************************************************************************)
(* The write-ahead redo log of kernel/log.c, with the part of the buffer   *)
(* cache of kernel/bio.c it relies on: what a block's buffer holds and its *)
(* reference count.                                                        *)
(*                                                                         *)
(* Steps are as fine as the code's visible effects: one step per critical  *)
(* section of log.lock, and one step per disk write, so that a crash can   *)
(* fall between any two of them.  sleep(&log, &log.lock) and wakeup(&log)  *)
(* are atomic here; that sleep() is atomic is the subject of SleepLock.    *)
(***************************************************************************)
EXTENDS Naturals, Sequences, FiniteSets

CONSTANTS
  Proc,         \* the processes that make file-system calls
  Block,        \* the home blocks the calls write
  Data,         \* what a block can contain
  Zero,         \* the contents mkfs gives the log area
  MAXOPBLOCKS,  \* blocks begin_op() reserves for one call (param.h)
  LOGSIZE,      \* length of logheader.block[] (param.h)
  nlog,         \* log.size, the blocks of the log area, header included
  OpBlocks,     \* the most distinct blocks one call really writes
  REFMOD,       \* 2^32 in the code: buf.refcnt is a uint
  Recycle,      \* the blocks whose buffers bget() may take for other blocks
  MaxCrash,     \* bound: how many crashes a behaviour has
  NoBlock,      \* not a block
  NotCached     \* not a value: the block has no buffer

ASSUME LogAssumption ==
  /\ IsFiniteSet(Proc)
  /\ Zero \in Data
  /\ MAXOPBLOCKS \in Nat \ {0}
  /\ LOGSIZE \in Nat \ {0}
  /\ nlog \in Nat \ {0}
  /\ OpBlocks \in 0..MAXOPBLOCKS
  /\ REFMOD \in Nat /\ REFMOD > 2
  /\ Recycle \subseteq Block
  /\ MaxCrash \in Nat
  /\ NoBlock \notin Block
  /\ NotCached \notin Data

VARIABLES
  home,         \* disk: the home location of each block
  logblk,       \* disk: the data blocks of the log area
  head,         \* disk: the block numbers in the log header
  mode,         \* "up", or the step of recover_from_log() the boot is at
  lh,           \* log.lh, the block numbers in the in-memory header
  outstanding,  \* log.outstanding
  committing,   \* log.committing
  tail,         \* the loop variable of write_log() and install_trans()
  cache,        \* the data in the block's buffer, or NotCached
  refcnt,       \* the refcnt of the block's buffer
  pc,           \* where each process is
  wb,           \* the block whose buffer the process holds
  opw,          \* the distinct blocks the process's call has logged so far
  crashes       \* how many crashes there have been

disk == <<home, logblk, head>>
logvars == <<lh, outstanding, committing>>
bufs == <<cache, refcnt>>
calls == <<wb, opw>>
vars == <<disk, mode, logvars, tail, bufs, pc, calls, crashes>>

PC == {"idle", "asleep", "awake", "op", "log_write", "panic",
       "write_log", "write_head", "install", "erase", "done"}
Mode == {"up", "read_head", "install", "erase"}

Logged(h) == {h[i] : i \in DOMAIN h}

(* The loop of log_write() over lh.block[]: a block is listed once. *)
AddBlock(h, b) == IF b \in Logged(h) THEN h ELSE Append(h, b)

(* bread(): the buffer if the block has one, else the disk. *)
Bread(b) == IF cache[b] = NotCached THEN home[b] ELSE cache[b]

Goto(p, label) == pc' = [pc EXCEPT ![p] = label]

(* wakeup(&log) makes every process that sleeps in begin_op() runnable. *)
WakeupLog == [q \in Proc |-> IF pc[q] = "asleep" THEN "awake" ELSE pc[q]]

Init ==
  /\ home \in [Block -> Data]
  /\ logblk = [i \in 1..LOGSIZE |-> Zero]
  /\ head = << >>
  /\ mode = "up"
  /\ lh = << >>
  /\ outstanding = 0
  /\ committing = 0
  /\ tail = 1
  /\ cache = [b \in Block |-> NotCached]
  /\ refcnt = [b \in Block |-> 0]
  /\ pc = [p \in Proc |-> "idle"]
  /\ wb = [p \in Proc |-> NoBlock]
  /\ opw = [p \in Proc |-> << >>]
  /\ crashes = 0
-----------------------------------------------------------------------------
(* begin_op(): wait while a commit runs or the log might run out of space. *)

MustWaitNoSelf ==   \* does not reserve space for the caller itself
  \/ committing = 1
  \/ Len(lh) + outstanding * MAXOPBLOCKS > LOGSIZE

MustWait ==
  \/ committing = 1
  \/ Len(lh) + (outstanding + 1) * MAXOPBLOCKS > LOGSIZE

BeginSleep(p) ==
  /\ pc[p] \in {"idle", "awake"}
  /\ MustWait
  /\ Goto(p, "asleep")
  /\ UNCHANGED <<disk, logvars, tail, bufs, calls>>

BeginOp(p) ==
  /\ pc[p] \in {"idle", "awake"}
  /\ ~MustWait
  /\ outstanding' = outstanding + 1
  /\ Goto(p, "op")
  /\ UNCHANGED <<disk, lh, committing, tail, bufs, calls>>

(* A call reads a block, modifies the buffer and enters log_write(), which *)
(* tests the limits before it takes log.lock.                              *)
TooBig == Len(lh) >= LOGSIZE \/ Len(lh) >= nlog - 1

FsWrite(p, b, d) ==
  /\ pc[p] = "op"
  /\ \A q \in Proc : wb[q] # b
  /\ b \in Logged(opw[p]) \/ Len(opw[p]) < OpBlocks
  /\ cache' = [cache EXCEPT ![b] = d]
  /\ refcnt' = [refcnt EXCEPT ![b] = (@ + 1) % REFMOD]
  /\ wb' = [wb EXCEPT ![p] = b]
  /\ Goto(p, IF TooBig \/ outstanding < 1 THEN "panic" ELSE "log_write")
  /\ UNCHANGED <<disk, logvars, tail, opw>>

LogWriteNoPin(p) ==   \* forgets bpin()
  LET b == wb[p] IN
  /\ pc[p] = "log_write"
  /\ lh' = AddBlock(lh, b)
  /\ refcnt' = [refcnt EXCEPT ![b] = (@ + REFMOD - 1) % REFMOD]
  /\ wb' = [wb EXCEPT ![p] = NoBlock]
  /\ opw' = [opw EXCEPT ![p] = AddBlock(@, b)]
  /\ Goto(p, "op")
  /\ UNCHANGED <<disk, outstanding, committing, tail, cache>>

(* The rest of log_write(): absorb the block or append it and pin its      *)
(* buffer; then the call's brelse().                                       *)
LogWrite(p) ==
  LET b == wb[p] IN
  /\ pc[p] = "log_write"
  /\ lh' = AddBlock(lh, b)
  /\ refcnt' = IF b \in Logged(lh)
               THEN [refcnt EXCEPT ![b] = (@ + REFMOD - 1) % REFMOD]
               ELSE refcnt   \* bpin() and brelse()
  /\ wb' = [wb EXCEPT ![p] = NoBlock]
  /\ opw' = [opw EXCEPT ![p] = AddBlock(@, b)]
  /\ Goto(p, "op")
  /\ UNCHANGED <<disk, outstanding, committing, tail, cache>>

(* end_op(): the last call out becomes the committer. *)
EndOp(p) ==
  /\ pc[p] = "op"
  /\ outstanding' = outstanding - 1
  /\ opw' = [opw EXCEPT ![p] = << >>]
  /\ IF outstanding = 1 /\ committing = 0
     THEN /\ committing' = 1
          /\ Goto(p, IF lh = << >> THEN "done" ELSE "write_log")
          /\ tail' = 1
     ELSE /\ pc' = IF committing = 1 THEN [pc EXCEPT ![p] = "panic"]
                                 ELSE [WakeupLog EXCEPT ![p] = "idle"]
          /\ UNCHANGED <<committing, tail>>
  /\ UNCHANGED <<disk, lh, bufs, wb>>
-----------------------------------------------------------------------------
(* commit(), one action for each disk write. *)

WriteLogShort(p) ==   \* stops one block early
  /\ pc[p] = "write_log"
  /\ logblk' = [logblk EXCEPT ![tail] = Bread(lh[tail])]
  /\ cache' = [cache EXCEPT ![lh[tail]] = Bread(lh[tail])]
  /\ tail' = tail + 1
  /\ Goto(p, IF tail + 1 >= Len(lh) THEN "write_head" ELSE "write_log")
  /\ UNCHANGED <<home, head, logvars, refcnt, calls>>

WriteLog(p) ==
  /\ pc[p] = "write_log"
  /\ logblk' = [logblk EXCEPT ![tail] = Bread(lh[tail])]
  /\ cache' = [cache EXCEPT ![lh[tail]] = Bread(lh[tail])]
  /\ tail' = tail + 1
  /\ Goto(p, IF tail = Len(lh) THEN "write_head" ELSE "write_log")
  /\ UNCHANGED <<home, head, logvars, refcnt, calls>>

WriteHeadLost(p) ==   \* installs without the header on disk
  /\ pc[p] = "write_head"
  /\ tail' = 1
  /\ Goto(p, "install")
  /\ UNCHANGED <<disk, logvars, bufs, calls>>

WriteHead(p) ==
  /\ pc[p] = "write_head"
  /\ head' = lh
  /\ tail' = 1
  /\ Goto(p, "install")
  /\ UNCHANGED <<home, logblk, logvars, bufs, calls>>

InstallCacheOnly ==   \* forgets bwrite(dbuf)
  LET b == lh[tail] IN
  /\ cache' = [cache EXCEPT ![b] = logblk[tail]]
  /\ refcnt' = [refcnt EXCEPT ![b] = (@ + REFMOD - 1) % REFMOD]
  /\ tail' = tail + 1
  /\ UNCHANGED <<disk, logvars>>

(* One iteration of install_trans(), for a commit and for recovery. *)
InstallBlock ==
  LET b == lh[tail] IN
  /\ cache' = [cache EXCEPT ![b] = logblk[tail]]
  /\ home' = [home EXCEPT ![b] = logblk[tail]]
  /\ refcnt' = [refcnt EXCEPT ![b] = (@ + REFMOD - 1) % REFMOD]   \* bunpin()
  /\ tail' = tail + 1
  /\ UNCHANGED <<logblk, head, logvars>>

(* log.lh.n = 0; write_head() *)
EraseLog ==
  /\ lh' = << >>
  /\ head' = << >>
  /\ UNCHANGED <<home, logblk, outstanding, committing, tail, bufs>>

Install(p) ==
  /\ pc[p] = "install"
  /\ InstallBlock
  /\ Goto(p, IF tail = Len(lh) THEN "erase" ELSE "install")
  /\ UNCHANGED calls

Erase(p) ==
  /\ pc[p] = "erase"
  /\ EraseLog
  /\ Goto(p, "done")
  /\ UNCHANGED calls

CommitDoneSilent(p) ==   \* forgets wakeup(&log)
  /\ pc[p] = "done"
  /\ committing' = 0
  /\ Goto(p, "idle")
  /\ UNCHANGED <<disk, lh, outstanding, tail, bufs, calls>>

(* end_op() after commit(): let the sleepers try again. *)
CommitDone(p) ==
  /\ pc[p] = "done"
  /\ committing' = 0
  /\ pc' = [WakeupLog EXCEPT ![p] = "idle"]
  /\ UNCHANGED <<disk, lh, outstanding, tail, bufs, calls>>
-----------------------------------------------------------------------------
(* bget() takes the buffer of a block nobody references for another block. *)
Evict(b) ==
  /\ b \in Recycle
  /\ cache[b] # NotCached
  /\ refcnt[b] = 0
  /\ cache' = [cache EXCEPT ![b] = NotCached]
  /\ UNCHANGED <<disk, logvars, tail, refcnt, pc, calls>>

(* Power failure at any moment: only the disk survives. *)
Crash ==
  /\ crashes < MaxCrash
  /\ crashes' = crashes + 1
  /\ mode' = "read_head"
  /\ lh' = << >>
  /\ outstanding' = 0
  /\ committing' = 0
  /\ tail' = 1
  /\ cache' = [b \in Block |-> NotCached]
  /\ refcnt' = [b \in Block |-> 0]
  /\ pc' = [p \in Proc |-> "idle"]
  /\ wb' = [p \in Proc |-> NoBlock]
  /\ opw' = [p \in Proc |-> << >>]
  /\ UNCHANGED disk

(* recover_from_log(), run by the first process before any other exists. *)
RecoverReadHead ==
  /\ mode = "read_head"
  /\ lh' = head
  /\ tail' = 1
  /\ mode' = IF head = << >> THEN "erase" ELSE "install"
  /\ UNCHANGED <<disk, outstanding, committing, bufs, pc, calls, crashes>>

RecoverInstall ==
  /\ mode = "install"
  /\ InstallBlock
  /\ mode' = IF tail = Len(lh) THEN "erase" ELSE "install"
  /\ UNCHANGED <<pc, calls, crashes>>

RecoverErase ==
  /\ mode = "erase"
  /\ EraseLog
  /\ mode' = "up"
  /\ UNCHANGED <<pc, calls, crashes>>
-----------------------------------------------------------------------------
Call(p) ==
  \/ BeginSleep(p)
  \/ BeginOp(p)
  \/ \E b \in Block, d \in Data : FsWrite(p, b, d)
  \/ LogWrite(p)
  \/ EndOp(p)

Commit(p) ==
  \/ WriteLog(p)
  \/ WriteHead(p)
  \/ Install(p)
  \/ Erase(p)
  \/ CommitDone(p)

Running ==
  /\ mode = "up"
  /\ \/ \E p \in Proc : Call(p) \/ Commit(p)
     \/ \E b \in Block : Evict(b)
  /\ UNCHANGED <<mode, crashes>>

Recovery == RecoverReadHead \/ RecoverInstall \/ RecoverErase

Next == Running \/ Recovery \/ Crash

Spec == Init /\ [][Next]_vars

(* Fairness.  A call makes finitely many writes and then calls end_op();   *)
(* the committer and the boot run to their end unless the machine crashes. *)
Up(A) == mode = "up" /\ A /\ UNCHANGED <<mode, crashes>>

Fairness ==
  /\ \A p \in Proc : /\ WF_vars(Up(LogWrite(p)))
                     /\ SF_vars(Up(EndOp(p)))
                     /\ WF_vars(Up(Commit(p)))
  /\ WF_vars(Recovery)

FairSpec == Spec /\ Fairness
-----------------------------------------------------------------------------
(* Types of the variables of log.c and of the model's disk. *)
TypeOK ==
  /\ home \in [Block -> Data]
  /\ logblk \in [1..LOGSIZE -> Data]
  /\ head \in Seq(Block)
  /\ mode \in Mode
  /\ lh \in Seq(Block)
  /\ outstanding \in Nat
  /\ committing \in {0, 1}
  /\ tail \in Nat \ {0}
  /\ cache \in [Block -> Data \cup {NotCached}]
  /\ refcnt \in [Block -> 0..REFMOD - 1]
  /\ pc \in [Proc -> PC]
  /\ wb \in [Proc -> Block \cup {NoBlock}]
  /\ opw \in [Proc -> Seq(Block)]
  /\ crashes \in 0..MaxCrash

(* What recover_from_log() would make of the disk as it is now. *)
Recovered ==
  [b \in Block |-> IF b \in Logged(head)
                  THEN logblk[CHOOSE i \in DOMAIN head : head[i] = b]
                  ELSE home[b]]

InCall == {p \in Proc : pc[p] \in {"op", "log_write", "panic"}}

(* The log implements the atomic disk: the durable contents change in one  *)
(* step, at write_head(), while no call is active; a crash at any other    *)
(* moment, recovery included, keeps all of a call's writes or none.        *)
Abstract == INSTANCE AtomicDisk WITH
  stable <- Recovered,
  view   <- IF mode = "up" THEN [b \in Block |-> Bread(b)] ELSE Recovered,
  active <- InCall

Atomicity == Abstract!Spec

(* When no call is active and no commit is running, everything that calls  *)
(* wrote is durable: end_op() of the last call returns only after commit.  *)
QuiescentIsDurable ==
  mode = "up" /\ outstanding = 0 /\ committing = 0 =>
    \A b \in Block : Recovered[b] = Bread(b)

(* The block numbers in memory always fit the log area on disk, although   *)
(* log_write() tests the limits before it takes log.lock.                  *)
LogFits == Len(lh) <= nlog - 1

(* Write-ahead rule: install_trans() overwrites a home block only while    *)
(* the header on disk names it.                                            *)
WriteAhead ==
  [][\A b \in Block : home'[b] # home[b] =>
       b \in Logged(head) /\ head' = head]_vars

Installed(i) ==
  \E p \in Proc : pc[p] = "erase" \/ (pc[p] = "install" /\ i < tail)

(* log_write() pins: while the system runs, the buffer of a logged block   *)
(* that is not yet installed cannot be recycled.                           *)
LoggedIsPinned ==
  mode = "up" =>
    \A i \in DOMAIN lh : ~Installed(i) => refcnt[lh[i]] > 0

(* Every process that sleeps in begin_op() is woken (or the machine        *)
(* crashes and it is gone).                                                *)
SleepersWake == \A p \in Proc : pc[p] = "asleep" ~> pc[p] # "asleep"
============================================================================
