------------------------------- MODULE Proc -------------------------------
(***************************************************************************)
(* The life of a process, kernel/proc.c: fork, exit, wait, kill, sleep,    *)
(* wakeup and the scheduler, with sys_sleep() as a kernel sleep that is    *)
(* not wait()'s.                                                           *)
(*                                                                         *)
(* Every acquire() that can spin while its caller holds another lock, or   *)
(* after the caller has read something without a lock, is a step of its    *)
(* own.  A critical section of one p->lock that takes no other lock is one *)
(* step.  lock[q] is the process whose kernel thread holds q->lock: the    *)
(* scheduler hands the lock it took to the process it switches to.         *)
(***************************************************************************)
EXTENDS Naturals, FiniteSets

CONSTANTS
  NPROC,      \* size of the process table (param.h)
  CPU,        \* the harts that run scheduler()
  KillArgs,   \* the arguments user programs give kill()
  Sleepers,   \* the slots whose programs call sleep()
  Failures,   \* the allocations of fork() that may fail
  Flags,      \* the flags user programs give wait(): 0 blocks, 1 does not
  PreemptAt,  \* bound: the points where a timer interrupt is taken
  MaxPid,     \* bound: the last pid allocpid() gives out
  ticks,      \* &ticks, the channel of sys_sleep()
  None        \* no process

ASSUME ProcAssumption ==
  /\ NPROC \in Nat \ {0}
  /\ MaxPid \in Nat \ {0}
  /\ KillArgs \subseteq 0..MaxPid
  /\ Sleepers \subseteq 1..NPROC
  /\ Failures \subseteq {"trapframe", "pagetable", "uvmcopy"}
  /\ Flags \subseteq {0, 1}
  /\ None \notin 1..NPROC /\ ticks \notin 1..NPROC \cup {None}

Slot == 1..NPROC
initproc == 1

VARIABLES
  state,      \* p->state
  parent,     \* p->parent
  chan,       \* p->chan: None, the process itself (wait), or ticks
  killed,     \* p->killed
  pid,        \* p->pid
  nextpid,    \* nextpid
  lock,       \* p->lock: who holds it
  cproc,      \* c->proc of each cpu
  pc,         \* where the process's kernel thread is
  idx,        \* the loop variable of wait() and reparent()
  havekids,   \* the local of wait()
  flags,      \* the argument of wait()
  opar,       \* original_parent in exit()
  depth       \* how many activations of wait() are on the kernel stack

table == <<state, parent, chan, killed, pid, nextpid>>
locals == <<idx, havekids, flags, opar, depth>>
vars == <<table, lock, cproc, pc, locals>>

Free(q) == lock[q] = None     \* acquire(&q->lock) does not spin
OnCpu(p) == \E c \in CPU : cproc[c] = p

Goto(p, label) == pc' = [pc EXCEPT ![p] = label]

Init ==   \* after userinit()
  /\ state = [p \in Slot |-> IF p = initproc THEN "RUNNABLE" ELSE "UNUSED"]
  /\ parent = [p \in Slot |-> None]
  /\ chan = [p \in Slot |-> None]
  /\ killed = [p \in Slot |-> 0]
  /\ pid = [p \in Slot |-> IF p = initproc THEN 1 ELSE 0]
  /\ nextpid = 2
  /\ lock = [p \in Slot |-> None]
  /\ cproc = [c \in CPU |-> None]
  /\ pc = [p \in Slot |-> "user"]
  /\ idx = [p \in Slot |-> 1]
  /\ havekids = [p \in Slot |-> 0]
  /\ flags = [p \in Slot |-> 0]
  /\ opar = [p \in Slot |-> None]
  /\ depth = [p \in Slot |-> 0]
-----------------------------------------------------------------------------
(* The scheduler. *)

(* One p->lock critical section: scheduler() picks p and switches to it; p *)
(* comes out of sched() in sleep(), yield() or forkret() and releases.     *)
SchedRun(c, p) ==
  /\ cproc[c] = None
  /\ state[p] = "RUNNABLE"
  /\ Free(p)
  /\ state' = [state EXCEPT ![p] = "RUNNING"]
  /\ chan' = [chan EXCEPT ![p] = None]
  /\ cproc' = [cproc EXCEPT ![c] = p]
  /\ UNCHANGED <<parent, killed, pid, nextpid, lock, pc, locals>>

(* p sets p->state to s and calls sched() while it holds p->lock: sched()  *)
(* panics when p holds another lock too; otherwise the cpu goes back to    *)
(* scheduler(), which releases p->lock.                                    *)
HeldBy(p) == {q \in Slot : lock[q] = p}

SwitchOut(p, s, label) ==
  IF HeldBy(p) \subseteq {p}
  THEN /\ state' = [state EXCEPT ![p] = s]
       /\ cproc' = [c \in CPU |-> IF cproc[c] = p THEN None ELSE cproc[c]]
       /\ lock' = [lock EXCEPT ![p] = None]
       /\ Goto(p, label)
  ELSE Goto(p, "panic") /\ UNCHANGED <<state, cproc, lock>>

(* p is in user mode, about to enter the kernel; usertrap() sends a killed *)
(* process to exit() instead.                                              *)
InUser(p) == OnCpu(p) /\ pc[p] = "user"

Syscall(p) == InUser(p) /\ killed[p] = 0

(* push_off() and pop_off(): interrupts are off while the process holds a  *)
(* lock; "ticks_sleep" is inside tickslock.                                *)
IntrOn(p) == HeldBy(p) = {} /\ pc[p] \notin {"ticks_sleep", "panic"}

(* A timer interrupt, in usertrap() or in kerneltrap(). *)
Interrupted(p) ==
  /\ OnCpu(p) /\ IntrOn(p)
  /\ pc[p] \in PreemptAt
  /\ pc[p] = "user" => killed[p] = 0

Timer(p) ==   \* yield()
  /\ Interrupted(p)
  /\ Free(p)
  /\ SwitchOut(p, "RUNNABLE", pc[p])
  /\ UNCHANGED <<parent, chan, killed, pid, nextpid, locals>>
-----------------------------------------------------------------------------
(* fork().  np->lock is held from allocproc() to the end, and nobody reads *)
(* the fields of an UNUSED slot without it.  Any UNUSED slot can be the    *)
(* first that the scan meets; a fork() that finds none changes nothing.    *)

Fork(p, q) ==
  /\ Syscall(p)
  /\ nextpid <= MaxPid
  /\ state[q] = "UNUSED" /\ Free(q)
  /\ pid' = [pid EXCEPT ![q] = nextpid]
  /\ nextpid' = nextpid + 1
  /\ parent' = [parent EXCEPT ![q] = p]
  /\ state' = [state EXCEPT ![q] = "RUNNABLE"]
  /\ pc' = [pc EXCEPT ![q] = "user"]
  /\ UNCHANGED <<chan, killed, lock, cproc, locals>>

(* No page for the trapframe: the slot stays UNUSED and keeps its pid. *)
ForkNoTrapframe(p, q) ==
  /\ "trapframe" \in Failures
  /\ Syscall(p)
  /\ nextpid <= MaxPid
  /\ state[q] = "UNUSED" /\ Free(q)
  /\ pid' = [pid EXCEPT ![q] = nextpid]
  /\ nextpid' = nextpid + 1
  /\ UNCHANGED <<state, parent, chan, killed, lock, cproc, pc, locals>>

(* No page table, or no memory for the copy: freeproc(). *)
ForkNoMemory(p, q) ==
  /\ Failures \cap {"pagetable", "uvmcopy"} # {}
  /\ Syscall(p)
  /\ nextpid <= MaxPid
  /\ state[q] = "UNUSED" /\ Free(q)
  /\ pid' = [pid EXCEPT ![q] = 0]
  /\ nextpid' = nextpid + 1
  /\ parent' = [parent EXCEPT ![q] = None]
  /\ chan' = [chan EXCEPT ![q] = None]
  /\ killed' = [killed EXCEPT ![q] = 0]
  /\ UNCHANGED <<state, lock, cproc, pc, locals>>
-----------------------------------------------------------------------------
(* kill(): a slot whose pid matches, whatever its state.  The scan looks   *)
(* at one slot at a time while the others change, so any match can be the  *)
(* first it meets.                                                         *)
Kill(p, k, q) ==
  /\ Syscall(p)
  /\ pid[q] = k /\ Free(q)
  /\ killed' = [killed EXCEPT ![q] = 1]
  /\ state' = [state EXCEPT ![q] = IF @ = "SLEEPING" THEN "RUNNABLE" ELSE @]
  /\ UNCHANGED <<parent, chan, pid, nextpid, lock, cproc, pc, locals>>

(* sys_sleep(): the loop's test under tickslock, then sleep(&ticks, ...).  *)
(* When the ticks have passed is left open.                                *)
SysSleep(p) ==
  /\ p \in Sleepers
  /\ Syscall(p)
  /\ Goto(p, "ticks_test")
  /\ UNCHANGED <<table, lock, cproc, locals>>

TicksTest(p) ==
  /\ OnCpu(p) /\ pc[p] = "ticks_test"
  /\ \/ Goto(p, "user")
     \/ killed[p] = 0 /\ Goto(p, "ticks_sleep")
  /\ UNCHANGED <<table, lock, cproc, locals>>

TicksSleep(p) ==
  /\ OnCpu(p) /\ pc[p] = "ticks_sleep"
  /\ Free(p)
  /\ chan' = [chan EXCEPT ![p] = ticks]
  /\ SwitchOut(p, "SLEEPING", "ticks_test")
  /\ UNCHANGED <<parent, killed, pid, nextpid, locals>>

(* clockintr(): wakeup(&ticks), one p->lock at a time. *)
Tick(q) ==
  /\ Free(q)
  /\ state[q] = "SLEEPING" /\ chan[q] = ticks
  /\ state' = [state EXCEPT ![q] = "RUNNABLE"]
  /\ UNCHANGED <<parent, chan, killed, pid, nextpid, lock, cproc, pc, locals>>
-----------------------------------------------------------------------------
(* exit(), after its files are closed.  init's program never calls it. *)

Wakeup1(st, q) ==
  [st EXCEPT ![q] = IF chan[q] = q /\ @ = "SLEEPING" THEN "RUNNABLE" ELSE @]

Exit(p) ==
  /\ \/ p # initproc /\ Syscall(p)
     \/ InUser(p) /\ killed[p] = 1
  /\ Goto(p, IF p = initproc THEN "panic" ELSE "exit_wakeinit")
  /\ UNCHANGED <<table, lock, cproc, locals>>

ExitWakeInit(p) ==
  /\ pc[p] = "exit_wakeinit" /\ OnCpu(p)
  /\ Free(initproc)
  /\ state' = Wakeup1(state, initproc)
  /\ Goto(p, "exit_copy")
  /\ UNCHANGED <<parent, chan, killed, pid, nextpid, lock, cproc, locals>>

ExitCopyParentKeeps(p) ==   \* forgets release(&p->lock)
  /\ pc[p] = "exit_copy" /\ OnCpu(p)
  /\ Free(p)
  /\ opar' = [opar EXCEPT ![p] = parent[p]]
  /\ lock' = [lock EXCEPT ![p] = p]
  /\ Goto(p, "exit_lockparent")
  /\ UNCHANGED <<table, cproc, idx, havekids, flags, depth>>

ExitCopyParent(p) ==
  /\ pc[p] = "exit_copy" /\ OnCpu(p)
  /\ Free(p)
  /\ opar' = [opar EXCEPT ![p] = parent[p]]
  /\ Goto(p, "exit_lockparent")
  /\ UNCHANGED <<table, lock, cproc, idx, havekids, flags, depth>>

ExitLockParentNot(p) ==   \* does not wait for the parent's lock
  /\ pc[p] = "exit_lockparent" /\ OnCpu(p)
  /\ Goto(p, "exit_lockself")
  /\ UNCHANGED <<table, lock, cproc, locals>>

ExitLockParent(p) ==
  /\ pc[p] = "exit_lockparent" /\ OnCpu(p)
  /\ Free(opar[p])
  /\ lock' = [lock EXCEPT ![opar[p]] = p]
  /\ Goto(p, "exit_lockself")
  /\ UNCHANGED <<table, cproc, locals>>

ExitLockSelf(p) ==
  /\ pc[p] = "exit_lockself" /\ OnCpu(p)
  /\ Free(p)
  /\ lock' = [lock EXCEPT ![p] = p]
  /\ idx' = [idx EXCEPT ![p] = 1]
  /\ Goto(p, "reparent")
  /\ UNCHANGED <<table, cproc, havekids, flags, opar, depth>>

(* reparent(): pp->parent is read without pp->lock, then the lock taken. *)
ReparentTestSiblings(p) ==   \* compares with p->parent instead of p
  /\ pc[p] = "reparent" /\ OnCpu(p)
  /\ idx[p] \in Slot
  /\ IF parent[idx[p]] = parent[p]
     THEN Goto(p, "reparent_lock") /\ UNCHANGED idx
     ELSE idx' = [idx EXCEPT ![p] = @ + 1] /\ UNCHANGED pc
  /\ UNCHANGED <<table, lock, cproc, havekids, flags, opar, depth>>

ReparentTest(p) ==
  /\ pc[p] = "reparent" /\ OnCpu(p)
  /\ idx[p] \in Slot
  /\ IF parent[idx[p]] = p
     THEN Goto(p, "reparent_lock") /\ UNCHANGED idx
     ELSE idx' = [idx EXCEPT ![p] = @ + 1] /\ UNCHANGED pc
  /\ UNCHANGED <<table, lock, cproc, havekids, flags, opar, depth>>

ReparentChild(p) ==
  /\ pc[p] = "reparent_lock" /\ OnCpu(p)
  /\ Free(idx[p])
  /\ parent' = [parent EXCEPT ![idx[p]] = initproc]
  /\ idx' = [idx EXCEPT ![p] = @ + 1]
  /\ Goto(p, "reparent")
  /\ UNCHANGED <<state, chan, killed, pid, nextpid, lock, cproc, havekids, flags,
                 opar, depth>>

ExitFinishUnlocks(p) ==   \* releases p->lock as well, before sched()
  /\ pc[p] = "reparent" /\ OnCpu(p)
  /\ idx[p] \notin Slot
  /\ state' = [Wakeup1(state, opar[p]) EXCEPT ![p] = "ZOMBIE"]
  /\ lock' = [lock EXCEPT ![opar[p]] = None, ![p] = None]
  /\ idx' = [idx EXCEPT ![p] = 1]
  /\ opar' = [opar EXCEPT ![p] = None]
  /\ Goto(p, "exit_sched")
  /\ UNCHANGED <<parent, chan, killed, pid, nextpid, cproc, havekids, flags, depth>>

ExitFinish(p) ==   \* still holds both locks
  /\ pc[p] = "reparent" /\ OnCpu(p)
  /\ idx[p] \notin Slot
  /\ state' = [Wakeup1(state, opar[p]) EXCEPT ![p] = "ZOMBIE"]
  /\ lock' = [lock EXCEPT ![opar[p]] = None]
  /\ idx' = [idx EXCEPT ![p] = 1]
  /\ opar' = [opar EXCEPT ![p] = None]
  /\ Goto(p, "exit_sched")
  /\ UNCHANGED <<parent, chan, killed, pid, nextpid, cproc, havekids, flags, depth>>

ExitSched(p) ==
  /\ pc[p] = "exit_sched" /\ OnCpu(p)
  /\ SwitchOut(p, state[p], "dead")
  /\ UNCHANGED <<parent, chan, killed, pid, nextpid, locals>>
-----------------------------------------------------------------------------
(* wait() holds p->lock from its first line to the sleep.  Each activation *)
(* after the first is the recursive call that follows a wakeup.            *)

SysWait(p) ==
  /\ Syscall(p)
  /\ \E f \in Flags : flags' = [flags EXCEPT ![p] = f]
  /\ Goto(p, "wait_enter")
  /\ UNCHANGED <<table, lock, cproc, idx, havekids, opar, depth>>

WaitEnter(p) ==
  /\ pc[p] = "wait_enter" /\ OnCpu(p)
  /\ Free(p)
  /\ lock' = [lock EXCEPT ![p] = p]
  /\ idx' = [idx EXCEPT ![p] = 1]
  /\ havekids' = [havekids EXCEPT ![p] = 0]
  /\ depth' = [depth EXCEPT ![p] = @ + 1]
  /\ Goto(p, "wait_scan")
  /\ UNCHANGED <<table, cproc, flags, opar>>

WaitTest(p) ==
  /\ pc[p] = "wait_scan" /\ OnCpu(p)
  /\ idx[p] \in Slot
  /\ IF parent[idx[p]] = p
     THEN Goto(p, "wait_lock") /\ UNCHANGED idx
     ELSE idx' = [idx EXCEPT ![p] = @ + 1] /\ UNCHANGED pc
  /\ UNCHANGED <<table, lock, cproc, havekids, flags, opar, depth>>

(* The locals of wait() are gone or will not be read again. *)
WaitForget(p) ==
  /\ idx' = [idx EXCEPT ![p] = 1]
  /\ havekids' = [havekids EXCEPT ![p] = 0]

WaitReturn(p) ==
  /\ lock' = [lock EXCEPT ![p] = None]
  /\ depth' = [depth EXCEPT ![p] = 0]
  /\ flags' = [flags EXCEPT ![p] = 0]
  /\ WaitForget(p)
  /\ Goto(p, "user")

(* The child's state under np->lock.  wait() returns when it finds a       *)
(* zombie, with its pid or, if copyout() fails, with -1; the zombie stays  *)
(* in the table either way.                                                *)
WaitChild(p) ==
  LET np == idx[p] IN
  /\ pc[p] = "wait_lock" /\ OnCpu(p)
  /\ Free(np)
  /\ IF state[np] = "ZOMBIE"
     THEN WaitReturn(p)
     ELSE /\ havekids' = [havekids EXCEPT ![p] = 1]
          /\ idx' = [idx EXCEPT ![p] = @ + 1]
          /\ Goto(p, "wait_scan")
          /\ UNCHANGED <<lock, depth, flags>>
  /\ UNCHANGED <<table, cproc, opar>>

WaitFinishDeaf(p) ==   \* does not look at p->killed
  /\ pc[p] = "wait_scan" /\ OnCpu(p)
  /\ idx[p] \notin Slot
  /\ IF flags[p] = 1 \/ havekids[p] = 0
     THEN WaitReturn(p) /\ UNCHANGED <<chan, state, cproc>>
     ELSE /\ chan' = [chan EXCEPT ![p] = p]
          /\ SwitchOut(p, "SLEEPING", "wait_enter")
          /\ WaitForget(p)
          /\ UNCHANGED <<depth, flags>>
  /\ UNCHANGED <<parent, killed, pid, nextpid, opar>>

WaitFinish(p) ==
  /\ pc[p] = "wait_scan" /\ OnCpu(p)
  /\ idx[p] \notin Slot
  /\ IF flags[p] = 1 \/ havekids[p] = 0 \/ killed[p] = 1
     THEN WaitReturn(p) /\ UNCHANGED <<chan, state, cproc>>
     ELSE /\ chan' = [chan EXCEPT ![p] = p]
          /\ SwitchOut(p, "SLEEPING", "wait_enter")
          /\ WaitForget(p)
          /\ UNCHANGED <<depth, flags>>
  /\ UNCHANGED <<parent, killed, pid, nextpid, opar>>
-----------------------------------------------------------------------------
Exiting(p) == \/ ExitWakeInit(p) \/ ExitCopyParent(p) \/ ExitLockParent(p)
              \/ ExitLockSelf(p) \/ ReparentTest(p) \/ ReparentChild(p)
              \/ ExitFinish(p) \/ ExitSched(p)

Waiting(p) == WaitEnter(p) \/ WaitTest(p) \/ WaitChild(p) \/ WaitFinish(p)

(* What a process does on its own once it is in the kernel. *)
Kernel(p) == Exiting(p) \/ Waiting(p) \/ TicksTest(p) \/ TicksSleep(p)

User(p) == \/ \E q \in Slot : Fork(p, q) \/ ForkNoTrapframe(p, q) \/ ForkNoMemory(p, q)
           \/ \E k \in KillArgs, q \in Slot : Kill(p, k, q)
           \/ SysSleep(p) \/ SysWait(p) \/ Exit(p)

Next == \/ \E p \in Slot : User(p) \/ Kernel(p) \/ Timer(p) \/ Tick(p)
        \/ \E c \in CPU, p \in Slot : SchedRun(c, p)

Spec == Init /\ [][Next]_vars
-----------------------------------------------------------------------------
(* When wait() sees a ZOMBIE under the child's lock, the child has left    *)
(* its cpu and its kernel stack for good.                                  *)
ZombieOffCpu ==
  \A p \in Slot : state[p] = "ZOMBIE" /\ Free(p) => ~OnCpu(p)

(* "np->parent can't change between the check and the acquire()", in       *)
(* wait() and in reparent().                                               *)
ParentStable ==
  \A p \in Slot : pc[p] \in {"wait_lock", "reparent_lock"} => parent[idx[p]] = p

(* No wakeup from a child's exit() is lost: a process other than init that *)
(* sleeps in wait() has no zombie child.                                   *)
NoMissedExit ==
  \A p, q \in Slot : /\ p # initproc
                     /\ state[p] = "SLEEPING" /\ chan[p] = p
                     /\ parent[q] = p
                     => state[q] # "ZOMBIE"

(* The lock a process spins on. *)
Wants(p) == CASE pc[p] \in {"wait_lock", "reparent_lock"} -> idx[p]
              [] pc[p] = "exit_wakeinit" -> initproc
              [] pc[p] = "exit_lockparent" -> opar[p]
              [] pc[p] \in {"exit_copy", "exit_lockself", "wait_enter", "ticks_sleep"} -> p
              [] OTHER -> None

(* The parent-then-child rule: no processes spin on locks they hold among  *)
(* themselves.                                                             *)
NoDeadlock ==
  \A S \in (SUBSET Slot) \ {{}} :
    ~ \A p \in S : OnCpu(p) /\ Wants(p) # None /\ lock[Wants(p)] \in S

(* wait() calls itself after each wakeup, on a kernel stack of one page.   *)
(* A process other than init finds its zombie, or that it was killed, when *)
(* it is woken; init adds an activation for each process that exits, up to *)
(* NPROC + 1 of them in all.                                               *)
WaitDepth ==
  \A p \in Slot : depth[p] <= IF p = initproc THEN NPROC + 1 ELSE 2
============================================================================
