---------------------------- MODULE ProcProofs ----------------------------
(***************************************************************************)
(* What exit(), wait() and the scheduler rely on, for any number of slots  *)
(* and cpus: ZombieOffCpu, ParentStable and NoMissedExit of module Proc;   *)
(* that the locks of the process table cannot deadlock (NoDeadlock); and   *)
(* that the recursion of wait() is bounded (WaitDepth).                    *)
(*                                                                         *)
(* Locks: who holds one and spins for another waits for a process below it *)
(* in the family tree, and the tree has no cycles because a child's pid is *)
(* greater than its parent's.                                              *)
(*                                                                         *)
(* Depth: a process that was woken in wait() has a zombie to find, or was  *)
(* killed, or is init and an exit() of its own has been counted for it.    *)
(***************************************************************************)
EXTENDS Proc, TLAPS

Label ==
  {"user", "ticks_test", "ticks_sleep", "exit_wakeinit", "exit_copy", "exit_lockparent",
   "exit_lockself", "reparent", "reparent_lock", "exit_sched", "dead", "wait_enter",
   "wait_scan", "wait_lock", "panic"}

State == {"UNUSED", "SLEEPING", "RUNNABLE", "RUNNING", "ZOMBIE"}

TypeOK ==
  /\ state \in [Slot -> State]
  /\ parent \in [Slot -> Slot \cup {None}]
  /\ chan \in [Slot -> Slot \cup {None, ticks}]
  /\ lock \in [Slot -> Slot \cup {None}]
  /\ cproc \in [CPU -> Slot \cup {None}]
  /\ pc \in [Slot -> Label]
  /\ idx \in [Slot -> 1 .. NPROC + 1]
  /\ opar \in [Slot -> Slot \cup {None}]

(* What a cpu runs is RUNNING, or a zombie that still holds its own lock. *)
CpuRuns ==
  \A c \in CPU : cproc[c] # None =>
    \/ state[cproc[c]] = "RUNNING"
    \/ /\ state[cproc[c]] = "ZOMBIE" /\ lock[cproc[c]] = cproc[c]
       /\ pc[cproc[c]] \in {"exit_sched", "panic"}

(* A slot that was never forked, or not with success. *)
UnusedSlot == \A p \in Slot : state[p] = "UNUSED" => parent[p] = None /\ pc[p] = "user"

(* The locks that exit() and wait() hold, and that the two are different. *)
LocksHeld ==
  \A p \in Slot :
    /\ pc[p] \in {"reparent", "reparent_lock", "exit_sched", "wait_scan", "wait_lock"} =>
         lock[p] = p
    /\ pc[p] = "exit_lockparent" => opar[p] \in Slot
    /\ pc[p] \in {"exit_lockself", "reparent", "reparent_lock"} =>
         opar[p] \in Slot /\ lock[opar[p]] = p
    /\ pc[p] \in {"reparent", "reparent_lock"} => opar[p] # p

(* Everybody but init has a parent, and init does not exit. *)
HasParent ==
  \A p \in Slot :
    /\ p # initproc /\ state[p] # "UNUSED" => parent[p] \in Slot
    /\ pc[p] \in {"exit_wakeinit", "exit_copy"} => p # initproc

(* The parent that exit() has locked is the parent still, or init is. *)
ParentKnown ==
  \A p \in Slot :
    pc[p] \in {"exit_lockparent", "exit_lockself", "reparent", "reparent_lock"} =>
      parent[p] \in {opar[p], initproc}

IdxInTable == \A p \in Slot : pc[p] \in {"wait_lock", "reparent_lock"} => idx[p] \in Slot

(* wait() has passed no zombie: a child needs its parent's lock to become one. *)
NonePassed ==
  \A p, q \in Slot : /\ p # initproc
                     /\ pc[p] \in {"wait_scan", "wait_lock"}
                     /\ q < idx[p] /\ parent[q] = p
                     => state[q] # "ZOMBIE"

IInv == /\ TypeOK /\ CpuRuns /\ UnusedSlot /\ LocksHeld /\ HasParent /\ ParentKnown
        /\ IdxInTable /\ ParentStable /\ NonePassed /\ NoMissedExit
-----------------------------------------------------------------------------
USE ProcAssumption DEF Slot, initproc

(* A process on a cpu is RUNNING until exit() gets to its sched(). *)
LEMMA Running ==
  ASSUME NEW p \in Slot, IInv, OnCpu(p), pc[p] \notin {"exit_sched", "panic"}
  PROVE state[p] = "RUNNING"
  BY DEF IInv, CpuRuns, OnCpu

(* Frame: nothing that the invariant is about changes. *)
LEMMA Frame ==
  ASSUME IInv, UNCHANGED <<state, parent, chan, lock, cproc, pc, idx, opar>> PROVE IInv'
  BY DEF IInv, TypeOK, CpuRuns, UnusedSlot, LocksHeld, HasParent, ParentKnown, IdxInTable,
         ParentStable, NonePassed, NoMissedExit

(* Every step keeps the types; the two scans over the table stop at its    *)
(* end because they look at a slot before they go on (IdxInTable).         *)
LEMMA TypeInv == TypeOK /\ IdxInTable /\ [Next]_vars => TypeOK'
<1> SUFFICES ASSUME TypeOK, IdxInTable, [Next]_vars PROVE TypeOK'
  BY Zenon
<1> USE DEF TypeOK
<1>1. ASSUME NEW c \in CPU, NEW p \in Slot, SchedRun(c, p) PROVE TypeOK'
  <2> USE <1>1 DEF SchedRun
  <2>1. state' \in [Slot -> State]
    BY Zenon DEF State
  <2>2. chan' \in [Slot -> Slot \cup {None, ticks}]
    BY Zenon
  <2>3. cproc' \in [CPU -> Slot \cup {None}]
    BY Zenon
  <2> QED  BY <2>1, <2>2, <2>3, Zenon DEF table, locals
<1>2. ASSUME NEW p \in Slot, Timer(p) PROVE TypeOK'
  <2> USE <1>2 DEF Timer, Interrupted, SwitchOut, Goto
  <2>1. state' \in [Slot -> State]
    BY Zenon DEF State
  <2>2. lock' \in [Slot -> Slot \cup {None}]
    OBVIOUS
  <2>3. cproc' \in [CPU -> Slot \cup {None}]
    OBVIOUS
  <2>4. pc' \in [Slot -> Label]
    BY DEF Label
  <2> QED  BY <2>1, <2>2, <2>3, <2>4, Zenon DEF table, locals
<1>3. ASSUME NEW p \in Slot, NEW q \in Slot, Fork(p, q) PROVE TypeOK'
  <2> USE <1>3 DEF Fork
  <2>1. state' \in [Slot -> State]
    BY Zenon DEF State
  <2>2. parent' \in [Slot -> Slot \cup {None}]
    BY Zenon
  <2>3. pc' \in [Slot -> Label]
    BY Zenon DEF Label
  <2> QED  BY <2>1, <2>2, <2>3, Zenon DEF table, locals
<1>4. ASSUME NEW p \in Slot, NEW q \in Slot, ForkNoTrapframe(p, q) PROVE TypeOK'
  <2> USE <1>4 DEF ForkNoTrapframe
  <2> QED  BY Zenon DEF table, locals
<1>5. ASSUME NEW p \in Slot, NEW q \in Slot, ForkNoMemory(p, q) PROVE TypeOK'
  <2> USE <1>5 DEF ForkNoMemory
  <2>1. parent' \in [Slot -> Slot \cup {None}]
    BY Zenon
  <2>2. chan' \in [Slot -> Slot \cup {None, ticks}]
    BY Zenon
  <2> QED  BY <2>1, <2>2, Zenon DEF table, locals
<1>6. ASSUME NEW p \in Slot, NEW k \in KillArgs, NEW q \in Slot, Kill(p, k, q) PROVE TypeOK'
  <2> USE <1>6 DEF Kill
  <2>1. state' \in [Slot -> State]
    BY Zenon DEF State
  <2> QED  BY <2>1, Zenon DEF table, locals
<1>7. ASSUME NEW p \in Slot, SysSleep(p) PROVE TypeOK'
  <2> USE <1>7 DEF SysSleep, Goto
  <2>1. pc' \in [Slot -> Label]
    BY Zenon DEF Label
  <2> QED  BY <2>1, Zenon DEF table, locals
<1>8. ASSUME NEW p \in Slot, TicksTest(p) PROVE TypeOK'
  <2> USE <1>8 DEF TicksTest, Goto
  <2>1. pc' \in [Slot -> Label]
    BY DEF Label
  <2> QED  BY <2>1, Zenon DEF table, locals
<1>9. ASSUME NEW p \in Slot, TicksSleep(p) PROVE TypeOK'
  <2> USE <1>9 DEF TicksSleep, SwitchOut, Goto
  <2>1. state' \in [Slot -> State]
    BY DEF State
  <2>2. chan' \in [Slot -> Slot \cup {None, ticks}]
    BY Zenon
  <2>3. lock' \in [Slot -> Slot \cup {None}]
    BY Zenon
  <2>4. cproc' \in [CPU -> Slot \cup {None}]
    OBVIOUS
  <2>5. pc' \in [Slot -> Label]
    BY DEF Label
  <2> QED  BY <2>1, <2>2, <2>3, <2>4, <2>5, Zenon DEF table, locals
<1>10. ASSUME NEW p \in Slot, Tick(p) PROVE TypeOK'
  <2> USE <1>10 DEF Tick
  <2>1. state' \in [Slot -> State]
    BY Zenon DEF State
  <2> QED  BY <2>1, Zenon DEF table, locals
<1>11. ASSUME NEW p \in Slot, Exit(p) PROVE TypeOK'
  <2> USE <1>11 DEF Exit, Goto
  <2>1. pc' \in [Slot -> Label]
    BY Zenon DEF Label
  <2> QED  BY <2>1, Zenon DEF table, locals
<1>12. ASSUME NEW p \in Slot, ExitWakeInit(p) PROVE TypeOK'
  <2> USE <1>12 DEF ExitWakeInit, Wakeup1, Goto
  <2>1. state' \in [Slot -> State]
    BY Zenon DEF State
  <2>2. pc' \in [Slot -> Label]
    BY Zenon DEF Label
  <2> QED  BY <2>1, <2>2, Zenon DEF table, locals
<1>13. ASSUME NEW p \in Slot, ExitCopyParent(p) PROVE TypeOK'
  <2> USE <1>13 DEF ExitCopyParent, Goto
  <2>1. pc' \in [Slot -> Label]
    BY Zenon DEF Label
  <2>2. opar' \in [Slot -> Slot \cup {None}]
    BY Zenon
  <2> QED  BY <2>1, <2>2, Zenon DEF table, locals
<1>14. ASSUME NEW p \in Slot, ExitLockParent(p) PROVE TypeOK'
  <2> USE <1>14 DEF ExitLockParent, Goto
  <2>1. lock' \in [Slot -> Slot \cup {None}]
    BY Zenon
  <2>2. pc' \in [Slot -> Label]
    BY Zenon DEF Label
  <2> QED  BY <2>1, <2>2, Zenon DEF table, locals
<1>15. ASSUME NEW p \in Slot, ExitLockSelf(p) PROVE TypeOK'
  <2> USE <1>15 DEF ExitLockSelf, Goto
  <2>1. lock' \in [Slot -> Slot \cup {None}]
    BY Zenon
  <2>2. pc' \in [Slot -> Label]
    BY Zenon DEF Label
  <2>3. idx' \in [Slot -> 1 .. NPROC + 1]
    OBVIOUS
  <2> QED  BY <2>1, <2>2, <2>3, Zenon DEF table, locals
<1>16. ASSUME NEW p \in Slot, ReparentTest(p) PROVE TypeOK'
  <2> USE <1>16 DEF ReparentTest, Goto
  <2>1. pc' \in [Slot -> Label]
    BY DEF Label
  <2>2. idx' \in [Slot -> 1 .. NPROC + 1]
    <3>1. idx[p] + 1 \in 1 .. NPROC + 1
      OBVIOUS
    <3>2. CASE parent[idx[p]] = p
      BY <3>2, Zenon
    <3>3. CASE parent[idx[p]] # p
      BY <3>1, <3>3, Zenon
    <3> QED  BY <3>2, <3>3, Zenon
  <2> QED  BY <2>1, <2>2, Zenon DEF table, locals
<1>17. ASSUME NEW p \in Slot, ReparentChild(p) PROVE TypeOK'
  <2> USE <1>17 DEF ReparentChild, Goto
  <2>1. parent' \in [Slot -> Slot \cup {None}]
    BY SMTT(20) DEF IdxInTable
  <2>2. pc' \in [Slot -> Label]
    BY Zenon DEF Label
  <2>3. idx' \in [Slot -> 1 .. NPROC + 1]
    BY SMTT(20) DEF IdxInTable
  <2> QED  BY <2>1, <2>2, <2>3, Zenon DEF table, locals
<1>18. ASSUME NEW p \in Slot, ExitFinish(p) PROVE TypeOK'
  <2> USE <1>18 DEF ExitFinish, Wakeup1, Goto
  <2>1. state' \in [Slot -> State]
    BY DEF State
  <2>2. lock' \in [Slot -> Slot \cup {None}]
    BY Zenon
  <2>3. pc' \in [Slot -> Label]
    BY Zenon DEF Label
  <2>4. idx' \in [Slot -> 1 .. NPROC + 1]
    OBVIOUS
  <2>5. opar' \in [Slot -> Slot \cup {None}]
    BY Zenon
  <2> QED  BY <2>1, <2>2, <2>3, <2>4, <2>5, Zenon DEF table, locals
<1>19. ASSUME NEW p \in Slot, ExitSched(p) PROVE TypeOK'
  <2> USE <1>19 DEF ExitSched, SwitchOut, Goto
  <2>1. state' \in [Slot -> State]
    BY DEF State
  <2>2. lock' \in [Slot -> Slot \cup {None}]
    BY Zenon
  <2>3. cproc' \in [CPU -> Slot \cup {None}]
    OBVIOUS
  <2>4. pc' \in [Slot -> Label]
    BY DEF Label
  <2> QED  BY <2>1, <2>2, <2>3, <2>4, Zenon DEF table, locals
<1>20. ASSUME NEW p \in Slot, SysWait(p) PROVE TypeOK'
  <2> USE <1>20 DEF SysWait, Goto
  <2>1. pc' \in [Slot -> Label]
    BY Zenon DEF Label
  <2> QED  BY <2>1, Zenon DEF table, locals
<1>21. ASSUME NEW p \in Slot, WaitEnter(p) PROVE TypeOK'
  <2> USE <1>21 DEF WaitEnter, Goto
  <2>1. lock' \in [Slot -> Slot \cup {None}]
    BY Zenon
  <2>2. pc' \in [Slot -> Label]
    BY Zenon DEF Label
  <2>3. idx' \in [Slot -> 1 .. NPROC + 1]
    OBVIOUS
  <2> QED  BY <2>1, <2>2, <2>3, Zenon DEF table, locals
<1>22. ASSUME NEW p \in Slot, WaitTest(p) PROVE TypeOK'
  <2> USE <1>22 DEF WaitTest, Goto
  <2>1. pc' \in [Slot -> Label]
    BY DEF Label
  <2>2. idx' \in [Slot -> 1 .. NPROC + 1]
    <3>1. idx[p] + 1 \in 1 .. NPROC + 1
      OBVIOUS
    <3>2. CASE parent[idx[p]] = p
      BY <3>2, Zenon
    <3>3. CASE parent[idx[p]] # p
      BY <3>1, <3>3, Zenon
    <3> QED  BY <3>2, <3>3, Zenon
  <2> QED  BY <2>1, <2>2, Zenon DEF table, locals
<1>23. ASSUME NEW p \in Slot, WaitChild(p) PROVE TypeOK'
  <2> USE <1>23 DEF WaitChild, WaitReturn, WaitForget, Goto
  <2>1. lock' \in [Slot -> Slot \cup {None}]
    OBVIOUS
  <2>2. pc' \in [Slot -> Label]
    BY DEF Label
  <2>3. idx' \in [Slot -> 1 .. NPROC + 1]
    BY SMTT(20) DEF IdxInTable
  <2> QED  BY <2>1, <2>2, <2>3, Zenon DEF table, locals
<1>24. ASSUME NEW p \in Slot, WaitFinish(p) PROVE TypeOK'
  <2> USE <1>24 DEF WaitFinish, WaitReturn, WaitForget, SwitchOut, Goto
  <2>1. state' \in [Slot -> State]
    BY DEF State
  <2>2. chan' \in [Slot -> Slot \cup {None, ticks}]
    OBVIOUS
  <2>3. lock' \in [Slot -> Slot \cup {None}]
    OBVIOUS
  <2>4. cproc' \in [CPU -> Slot \cup {None}]
    OBVIOUS
  <2>5. pc' \in [Slot -> Label]
    BY DEF Label
  <2>6. idx' \in [Slot -> 1 .. NPROC + 1]
    OBVIOUS
  <2> QED  BY <2>1, <2>2, <2>3, <2>4, <2>5, <2>6, Zenon DEF table, locals
<1>25. CASE UNCHANGED vars
  BY <1>25, Zenon DEF vars, table, locals
<1> HIDE DEF TypeOK
<1> QED  BY <1>1, <1>2, <1>3, <1>4, <1>5, <1>6, <1>7, <1>8, <1>9, <1>10, <1>11, <1>12,
     <1>13, <1>14, <1>15, <1>16, <1>17, <1>18, <1>19, <1>20, <1>21, <1>22, <1>23, <1>24,
     <1>25, Zenon DEF Next, User, Kernel, Exiting, Waiting

(* A step that only moves p on to a place where it holds no lock, or into  *)
(* panic(), keeps the invariant.                                           *)
LEMMA MoveInv ==
  ASSUME NEW p \in Slot, IInv, state[p] = "RUNNING",
         NEW l \in {"user", "ticks_test", "ticks_sleep", "exit_wakeinit", "wait_enter",
                    "panic"},
         l = "exit_wakeinit" => p # initproc, Goto(p, l),
         UNCHANGED <<state, parent, chan, lock, cproc, idx, opar>>
  PROVE TypeOK' => IInv'
<1>1. CpuRuns' /\ UnusedSlot' /\ NoMissedExit'
  BY DEF Goto, IInv, TypeOK, CpuRuns, UnusedSlot, NoMissedExit
<1>2. LocksHeld' /\ HasParent' /\ ParentKnown'
  BY DEF Goto, IInv, TypeOK, LocksHeld, HasParent, ParentKnown
<1>3. IdxInTable' /\ ParentStable' /\ NonePassed'
  BY SMTT(20) DEF Goto, IInv, TypeOK, IdxInTable, ParentStable, NonePassed
<1> QED  BY <1>1, <1>2, <1>3, Zenon DEF IInv

(* scheduler() takes a RUNNABLE process whose lock is free, so no zombie. *)
LEMMA SchedRunInv ==
  ASSUME NEW c \in CPU, NEW p \in Slot, IInv, SchedRun(c, p)
  PROVE TypeOK' => IInv'
<1> USE DEF SchedRun, locals, IInv, TypeOK
<1>1. CpuRuns'  BY SMTT(20) DEF CpuRuns, Free
<1>2. UnusedSlot'  BY Zenon DEF UnusedSlot
<1>3. HasParent'  BY Zenon DEF HasParent
<1>4. NonePassed'  BY Zenon DEF NonePassed
<1>5. NoMissedExit'  BY Zenon DEF NoMissedExit
<1>6. LocksHeld' /\ ParentKnown' /\ IdxInTable' /\ ParentStable'
  BY Zenon DEF LocksHeld, ParentKnown, IdxInTable, ParentStable
<1> QED  BY <1>1, <1>2, <1>3, <1>4, <1>5, <1>6, Zenon

(* yield(): with interrupts on, p holds no lock, so it is in no critical   *)
(* section of exit() or wait().                                            *)
LEMMA TimerInv ==
  ASSUME NEW p \in Slot, IInv, Timer(p)
  PROVE TypeOK' => IInv'
<1>0. state[p] = "RUNNING"
  BY Running DEF Timer, Interrupted, IntrOn, HeldBy, IInv, LocksHeld
<1> USE DEF Timer, SwitchOut, Goto, locals, IInv, TypeOK
<1>1. CpuRuns'  BY <1>0, SMTT(20) DEF CpuRuns
<1>2. UnusedSlot'  BY <1>0, SMTT(20) DEF UnusedSlot
<1>3. LocksHeld'
  <2>1. /\ \A r \in Slot : r # p => pc'[r] = pc[r] /\ lock'[r] = lock[r]
        /\ pc'[p] \in {pc[p], "panic"} /\ opar' = opar
    BY Zenon
  <2>2. /\ lock[p] = None
        /\ \A r \in Slot : lock[r] # p
    BY Zenon DEF Interrupted, IntrOn, HeldBy, Free
  <2> QED  BY <2>1, <2>2 DEF LocksHeld
<1>4. HasParent'  BY <1>0, SMTT(20) DEF HasParent
<1>5. ParentKnown'  BY DEF ParentKnown
<1>6. IdxInTable'  BY Zenon DEF IdxInTable
<1>7. ParentStable'  BY SMTT(20) DEF ParentStable, IdxInTable
<1>8. NonePassed'  BY SMTT(20) DEF NonePassed
<1>9. NoMissedExit'  BY <1>0 DEF NoMissedExit
<1> QED  BY <1>1, <1>2, <1>3, <1>4, <1>5, <1>6, <1>7, <1>8, <1>9, Zenon

(* fork() takes an UNUSED slot, which nobody's scan has as its child. *)
LEMMA ForkInv ==
  ASSUME NEW p \in Slot, NEW q \in Slot, IInv, Fork(p, q)
  PROVE TypeOK' => IInv'
<1> USE DEF Fork, locals, IInv, TypeOK
<1>1. CpuRuns'  BY SMTT(20) DEF CpuRuns
<1>2. UnusedSlot'  BY Zenon DEF UnusedSlot
<1>3. LocksHeld'  BY SMTT(20) DEF LocksHeld
<1>4. HasParent'  BY Zenon DEF HasParent
<1>5. ParentKnown'  BY Zenon DEF ParentKnown, UnusedSlot
<1>6. IdxInTable'  BY Zenon DEF IdxInTable
<1>7. ParentStable'  BY SMTT(20) DEF ParentStable, IdxInTable, UnusedSlot
<1>8. NonePassed'  BY Zenon DEF NonePassed, UnusedSlot
<1>9. NoMissedExit'  BY DEF NoMissedExit, UnusedSlot
<1> QED  BY <1>1, <1>2, <1>3, <1>4, <1>5, <1>6, <1>7, <1>8, <1>9, Zenon

(* A fork() without a trapframe changes only pids. *)
LEMMA ForkNoTrapframeInv ==
  ASSUME NEW p \in Slot, NEW q \in Slot, IInv, ForkNoTrapframe(p, q)
  PROVE TypeOK' => IInv'
  BY Frame, Zenon DEF ForkNoTrapframe, locals

(* freeproc() of a slot that is still UNUSED. *)
LEMMA ForkNoMemoryInv ==
  ASSUME NEW p \in Slot, NEW q \in Slot, IInv, ForkNoMemory(p, q)
  PROVE TypeOK' => IInv'
<1> USE DEF ForkNoMemory, locals, IInv, TypeOK
<1>1. UnusedSlot'  BY Zenon DEF UnusedSlot
<1>2. HasParent'  BY Zenon DEF HasParent
<1>3. ParentKnown'  BY Zenon DEF ParentKnown, UnusedSlot
<1>4. ParentStable'  BY SMTT(20) DEF ParentStable, IdxInTable, UnusedSlot
<1>5. NonePassed'  BY Zenon DEF NonePassed
<1>6. NoMissedExit'  BY Zenon DEF NoMissedExit
<1> QED  BY <1>1, <1>2, <1>3, <1>4, <1>5, <1>6, Zenon DEF CpuRuns, LocksHeld, IdxInTable

(* kill() makes a sleeper RUNNABLE, never a zombie of anybody. *)
LEMMA KillInv ==
  ASSUME NEW p \in Slot, NEW k \in KillArgs, NEW q \in Slot, IInv, Kill(p, k, q)
  PROVE TypeOK' => IInv'
<1> USE DEF Kill, locals, IInv, TypeOK
<1>1. CpuRuns'  BY SMTT(20) DEF CpuRuns
<1>2. UnusedSlot'  BY Zenon DEF UnusedSlot
<1>3. HasParent'  BY Zenon DEF HasParent
<1>4. NonePassed'  BY Zenon DEF NonePassed
<1>5. NoMissedExit'  BY Zenon DEF NoMissedExit
<1>6. LocksHeld' /\ ParentKnown' /\ IdxInTable' /\ ParentStable'
  BY Zenon DEF LocksHeld, ParentKnown, IdxInTable, ParentStable
<1> QED  BY <1>1, <1>2, <1>3, <1>4, <1>5, <1>6, Zenon

(* sys_sleep() starts: only pc moves. *)
LEMMA SysSleepInv ==
  ASSUME NEW p \in Slot, IInv, SysSleep(p)
  PROVE TypeOK' => IInv'
<1>0. state[p] = "RUNNING"
  BY Running, Zenon DEF SysSleep, Syscall, InUser
<1> QED  BY <1>0, MoveInv, Zenon DEF SysSleep, table, locals

(* The loop's test of sys_sleep(): only pc moves. *)
LEMMA TicksTestInv ==
  ASSUME NEW p \in Slot, IInv, TicksTest(p)
  PROVE TypeOK' => IInv'
<1>0. state[p] = "RUNNING"
  BY Running, Zenon DEF TicksTest
<1> QED  BY <1>0, MoveInv, Zenon DEF TicksTest, table, locals

(* sleep(&ticks): the channel is not that of wait(), and the lock p gives  *)
(* back is its own.                                                        *)
LEMMA TicksSleepInv ==
  ASSUME NEW p \in Slot, IInv, TicksSleep(p)
  PROVE TypeOK' => IInv'
<1>0. state[p] = "RUNNING"
  BY Running, Zenon DEF TicksSleep
<1> USE DEF TicksSleep, SwitchOut, Goto, locals, IInv, TypeOK
<1>1. CpuRuns'  BY <1>0, SMTT(20) DEF CpuRuns
<1>2. UnusedSlot'  BY <1>0, SMTT(20) DEF UnusedSlot
<1>3. LocksHeld'
  <2>1. /\ \A r \in Slot : r # p => pc'[r] = pc[r] /\ lock'[r] = lock[r]
        /\ pc'[p] \in {"ticks_test", "panic"} /\ opar' = opar
    OBVIOUS
  <2>2. lock[p] = None
    BY Zenon DEF Free
  <2> QED  BY <2>1, <2>2 DEF LocksHeld
<1>4. HasParent'  BY <1>0 DEF HasParent
<1>5. ParentKnown'  BY DEF ParentKnown
<1>6. IdxInTable'  BY DEF IdxInTable
<1>7. ParentStable'  BY SMTT(20) DEF ParentStable, IdxInTable
<1>8. NonePassed'  BY SMTT(20) DEF NonePassed
<1>9. NoMissedExit'  BY <1>0, SMTT(20) DEF NoMissedExit
<1> QED  BY <1>1, <1>2, <1>3, <1>4, <1>5, <1>6, <1>7, <1>8, <1>9, Zenon

(* A wakeup from the clock takes a sleeper off ticks. *)
LEMMA TickInv ==
  ASSUME NEW p \in Slot, IInv, Tick(p)
  PROVE TypeOK' => IInv'
<1> USE DEF Tick, locals, IInv, TypeOK
<1>1. CpuRuns'  BY SMTT(20) DEF CpuRuns
<1>2. UnusedSlot'  BY Zenon DEF UnusedSlot
<1>3. HasParent'  BY Zenon DEF HasParent
<1>4. NonePassed'  BY Zenon DEF NonePassed
<1>5. NoMissedExit'  BY Zenon DEF NoMissedExit
<1>6. LocksHeld' /\ ParentKnown' /\ IdxInTable' /\ ParentStable'
  BY Zenon DEF LocksHeld, ParentKnown, IdxInTable, ParentStable
<1> QED  BY <1>1, <1>2, <1>3, <1>4, <1>5, <1>6, Zenon

(* exit() starts: only pc moves, and init panics instead. *)
LEMMA ExitInv ==
  ASSUME NEW p \in Slot, IInv, Exit(p)
  PROVE TypeOK' => IInv'
<1>0. state[p] = "RUNNING"
  BY Running, Zenon DEF Exit, Syscall, InUser
<1> QED  BY <1>0, MoveInv, Zenon DEF Exit, table, locals

(* exit() wakes init, which NoMissedExit does not speak of. *)
LEMMA ExitWakeInitInv ==
  ASSUME NEW p \in Slot, IInv, ExitWakeInit(p)
  PROVE TypeOK' => IInv'
<1>0. state[p] = "RUNNING"
  BY Running, Zenon DEF ExitWakeInit
<1> USE DEF ExitWakeInit, Wakeup1, Goto, locals, IInv, TypeOK
<1>1. CpuRuns'  BY <1>0, SMTT(20) DEF CpuRuns
<1>2. UnusedSlot'  BY <1>0, Zenon DEF UnusedSlot
<1>3. LocksHeld'  BY SMTT(20) DEF LocksHeld
<1>4. HasParent'  BY <1>0, Zenon DEF HasParent
<1>5. ParentKnown'  BY Zenon DEF ParentKnown
<1>6. IdxInTable'  BY Zenon DEF IdxInTable
<1>7. ParentStable'  BY Zenon DEF ParentStable, IdxInTable
<1>8. NonePassed'  BY Zenon DEF NonePassed
<1>9. NoMissedExit'  BY <1>0, SMTT(20) DEF NoMissedExit
<1> QED  BY <1>1, <1>2, <1>3, <1>4, <1>5, <1>6, <1>7, <1>8, <1>9, Zenon

(* exit() copies p->parent, which is a process because p is not init. *)
LEMMA ExitCopyParentInv ==
  ASSUME NEW p \in Slot, IInv, ExitCopyParent(p)
  PROVE TypeOK' => IInv'
<1>0. state[p] = "RUNNING"
  BY Running, Zenon DEF ExitCopyParent
<1> USE DEF ExitCopyParent, Goto, table, IInv, TypeOK
<1>1. CpuRuns'  BY <1>0, SMTT(20) DEF CpuRuns
<1>2. UnusedSlot'  BY <1>0, Zenon DEF UnusedSlot
<1>3. LocksHeld'  BY <1>0, SMTT(20) DEF LocksHeld, HasParent
<1>4. HasParent'  BY <1>0, Zenon DEF HasParent
<1>5. ParentKnown'  BY Zenon DEF ParentKnown
<1>6. IdxInTable'  BY Zenon DEF IdxInTable
<1>7. ParentStable'  BY SMTT(20) DEF ParentStable, IdxInTable
<1>8. NonePassed'  BY Zenon DEF NonePassed
<1> QED  BY <1>1, <1>2, <1>3, <1>4, <1>5, <1>6, <1>7, <1>8, Zenon DEF NoMissedExit

(* exit() locks the parent that it copied, which may no longer be its      *)
(* parent: then init is.                                                   *)
LEMMA ExitLockParentInv ==
  ASSUME NEW p \in Slot, IInv, ExitLockParent(p)
  PROVE TypeOK' => IInv'
<1>0. state[p] = "RUNNING"
  BY Running, Zenon DEF ExitLockParent
<1> USE DEF ExitLockParent, Goto, table, locals, IInv, TypeOK
<1>1. CpuRuns'  BY <1>0, SMTT(20) DEF CpuRuns, Free, LocksHeld
<1>2. UnusedSlot'  BY <1>0, Zenon DEF UnusedSlot
<1>3. LocksHeld'  BY SMTT(20) DEF LocksHeld, Free
<1>4. HasParent'  BY <1>0, Zenon DEF HasParent
<1>5. ParentKnown'  BY Zenon DEF ParentKnown
<1>6. IdxInTable'  BY Zenon DEF IdxInTable
<1>7. ParentStable'  BY Zenon DEF ParentStable, IdxInTable
<1>8. NonePassed'  BY Zenon DEF NonePassed
<1> QED  BY <1>1, <1>2, <1>3, <1>4, <1>5, <1>6, <1>7, <1>8, Zenon DEF NoMissedExit

(* exit() locks itself while it holds the lock of its parent. *)
LEMMA ExitLockSelfInv ==
  ASSUME NEW p \in Slot, IInv, ExitLockSelf(p)
  PROVE TypeOK' => IInv'
<1>0. state[p] = "RUNNING"
  BY Running, Zenon DEF ExitLockSelf
<1> USE DEF ExitLockSelf, Goto, table, IInv, TypeOK
<1>1. CpuRuns'  BY <1>0, SMTT(20) DEF CpuRuns, Free
<1>2. UnusedSlot'  BY <1>0, Zenon DEF UnusedSlot
<1>3. LocksHeld'  BY SMTT(20) DEF LocksHeld, Free
<1>4. HasParent'  BY <1>0, Zenon DEF HasParent
<1>5. ParentKnown'  BY Zenon DEF ParentKnown
<1>6. IdxInTable'  BY Zenon DEF IdxInTable
<1>7. ParentStable'  BY Zenon DEF ParentStable, IdxInTable
<1>8. NonePassed'  BY Zenon DEF NonePassed
<1> QED  BY <1>1, <1>2, <1>3, <1>4, <1>5, <1>6, <1>7, <1>8 DEF NoMissedExit

(* The unlocked test of reparent() finds a child, or goes on. *)
LEMMA ReparentTestInv ==
  ASSUME NEW p \in Slot, IInv, ReparentTest(p)
  PROVE TypeOK' => IInv'
<1>0. state[p] = "RUNNING"
  BY Running, Zenon DEF ReparentTest
<1> USE DEF ReparentTest, Goto, table, IInv, TypeOK
<1>1. CpuRuns'  BY <1>0, SMTT(20) DEF CpuRuns
<1>2. UnusedSlot'  BY <1>0, Zenon DEF UnusedSlot
<1>3. LocksHeld'  BY SMTT(20) DEF LocksHeld
<1>4. HasParent'  BY <1>0, Zenon DEF HasParent
<1>5. ParentKnown'  BY Zenon DEF ParentKnown
<1>6. IdxInTable'  BY Zenon DEF IdxInTable
<1>7. ParentStable'  BY SMTT(20) DEF ParentStable, IdxInTable
<1>8. NonePassed'  BY Zenon DEF NonePassed
<1> QED  BY <1>1, <1>2, <1>3, <1>4, <1>5, <1>6, <1>7, <1>8, Zenon DEF NoMissedExit

(* reparent() gives a child to init: only its parent does that, and the    *)
(* parent is not scanning for wait().                                      *)
LEMMA ReparentChildInv ==
  ASSUME NEW p \in Slot, IInv, ReparentChild(p)
  PROVE TypeOK' => IInv'
<1>0. state[p] = "RUNNING"
  BY Running, Zenon DEF ReparentChild
<1> USE DEF ReparentChild, Goto, IInv, TypeOK
<1>1. CpuRuns'  BY <1>0, SMTT(20) DEF CpuRuns
<1>2. UnusedSlot'  BY <1>0, SMTT(20) DEF UnusedSlot, IdxInTable, ParentStable
<1>3. LocksHeld'  BY SMTT(20) DEF LocksHeld
<1>4. HasParent'  BY <1>0 DEF HasParent, IdxInTable
<1>5. ParentKnown'  BY Zenon DEF ParentKnown, IdxInTable
<1>6. IdxInTable'  BY Zenon DEF IdxInTable
<1>7. ParentStable'  BY SMTT(20) DEF ParentStable, IdxInTable
<1>8. NonePassed'  BY Zenon DEF NonePassed, IdxInTable
<1>9. NoMissedExit'  BY <1>0, Zenon DEF NoMissedExit, IdxInTable
<1> QED  BY <1>1, <1>2, <1>3, <1>4, <1>5, <1>6, <1>7, <1>8, <1>9, Zenon

(* p becomes a zombie while it holds its parent's lock.  So the parent is  *)
(* not in the middle of wait()'s scan, and if it sleeps, wakeup1() wakes   *)
(* it.                                                                     *)
LEMMA ExitFinishInv ==
  ASSUME NEW p \in Slot, IInv, ExitFinish(p)
  PROVE TypeOK' => IInv'
<1>0. state[p] = "RUNNING"
  BY Running, Zenon DEF ExitFinish
<1>1. /\ opar[p] \in Slot \ {p} /\ lock[opar[p]] = p
      /\ parent[p] \in {opar[p], initproc}
  BY Zenon DEF ExitFinish, IInv, LocksHeld, ParentKnown
<1>2. \A r \in Slot :
        /\ state'[r] = "ZOMBIE" => r = p \/ state[r] = "ZOMBIE"
        /\ state'[r] = "SLEEPING" =>
             r # p /\ state[r] = "SLEEPING" /\ ~(r = opar[p] /\ chan[r] = r)
  BY <1>1, Zenon DEF ExitFinish, Wakeup1, IInv, TypeOK
<1>3. \A r \in Slot : pc'[r] \in {"wait_scan", "wait_lock"} =>
                       r # p /\ pc[r] = pc'[r] /\ idx'[r] = idx[r]
  BY Zenon DEF ExitFinish, Goto, IInv, TypeOK
<1>4. UNCHANGED <<parent, chan>>
  BY Zenon DEF ExitFinish
<1>5. CpuRuns'
  <2>1. /\ cproc' = cproc /\ state'[p] = "ZOMBIE" /\ lock'[p] = p /\ pc'[p] = "exit_sched"
        /\ \A r \in Slot \ {p} : /\ state[r] = "RUNNING" => state'[r] = "RUNNING"
                                 /\ state[r] = "ZOMBIE" => state'[r] = "ZOMBIE"
                                 /\ lock[r] = r => lock'[r] = r
                                 /\ pc'[r] = pc[r]
    BY <1>1, SMTT(20) DEF ExitFinish, Wakeup1, Goto, IInv, TypeOK, LocksHeld
  <2> QED  BY <2>1, SMTT(20) DEF IInv, TypeOK, CpuRuns
<1>6. UnusedSlot'  BY <1>0, Zenon DEF ExitFinish, Wakeup1, Goto, IInv, TypeOK, UnusedSlot
<1>7. LocksHeld'  BY SMTT(20) DEF ExitFinish, Goto, IInv, TypeOK, LocksHeld
<1>8. HasParent'  BY <1>0, Zenon DEF ExitFinish, Wakeup1, Goto, IInv, TypeOK, HasParent
<1>9. ParentKnown'  BY Zenon DEF ExitFinish, Goto, IInv, TypeOK, ParentKnown
<1>10. IdxInTable'  BY Zenon DEF ExitFinish, Goto, IInv, TypeOK, IdxInTable
<1>11. ParentStable'  BY Zenon DEF ExitFinish, Goto, IInv, TypeOK, ParentStable, IdxInTable
<1>12. NonePassed'
  <2> SUFFICES ASSUME NEW a \in Slot, NEW b \in Slot, a # initproc, parent[b] = a,
                      pc'[a] \in {"wait_scan", "wait_lock"}, b < idx'[a]
               PROVE  state'[b] # "ZOMBIE"
    BY <1>4, Zenon DEF NonePassed
  <2>1. a # p /\ lock[a] = a /\ state[b] # "ZOMBIE"
    BY <1>3 DEF IInv, NonePassed, LocksHeld
  <2>2. b # p
    BY <1>1, <2>1, Zenon
  <2> QED  BY <1>2, <2>1, <2>2, Zenon
<1>13. NoMissedExit'
  <2> SUFFICES ASSUME NEW a \in Slot, NEW b \in Slot, a # initproc, parent[b] = a,
                      state'[a] = "SLEEPING", chan[a] = a
               PROVE  state'[b] # "ZOMBIE"
    BY <1>4, Zenon DEF NoMissedExit
  <2>1. a # opar[p] /\ state[b] # "ZOMBIE"
    BY <1>2, Zenon DEF IInv, NoMissedExit
  <2>2. b # p
    BY <1>1, <2>1, Zenon
  <2> QED  BY <1>2, <2>1, <2>2, Zenon
<1> QED  BY <1>5, <1>6, <1>7, <1>8, <1>9, <1>10, <1>11, <1>12, <1>13, Zenon DEF IInv

(* The last sched() takes p off its cpu in the same critical section of    *)
(* p->lock.                                                                *)
LEMMA ExitSchedInv ==
  ASSUME NEW p \in Slot, IInv, ExitSched(p)
  PROVE TypeOK' => IInv'
<1> USE DEF ExitSched, SwitchOut, Goto, locals, IInv, TypeOK
<1>1. CpuRuns'  BY SMTT(20) DEF CpuRuns, LocksHeld
<1>2. UnusedSlot'  BY Zenon DEF UnusedSlot
<1>3. LocksHeld'  BY SMTT(20) DEF LocksHeld
<1>4. HasParent'  BY DEF HasParent
<1>5. ParentKnown'  BY DEF ParentKnown
<1>6. IdxInTable'  BY DEF IdxInTable
<1>7. ParentStable'  BY SMTT(20) DEF ParentStable, IdxInTable
<1>8. NonePassed'  BY SMTT(20) DEF NonePassed
<1>9. NoMissedExit'  BY DEF NoMissedExit
<1> QED  BY <1>1, <1>2, <1>3, <1>4, <1>5, <1>6, <1>7, <1>8, <1>9, Zenon

(* wait() is called: only pc moves. *)
LEMMA SysWaitInv ==
  ASSUME NEW p \in Slot, IInv, SysWait(p)
  PROVE TypeOK' => IInv'
<1>0. state[p] = "RUNNING"
  BY Running, Zenon DEF SysWait, Syscall, InUser
<1> QED  BY <1>0, MoveInv, Zenon DEF SysWait, table, locals

(* wait() takes p->lock and starts its scan: it has passed nobody. *)
LEMMA WaitEnterInv ==
  ASSUME NEW p \in Slot, IInv, WaitEnter(p)
  PROVE TypeOK' => IInv'
<1>0. state[p] = "RUNNING"
  BY Running, Zenon DEF WaitEnter
<1> USE DEF WaitEnter, Goto, table, IInv, TypeOK
<1>1. CpuRuns'  BY <1>0, SMTT(20) DEF CpuRuns
<1>2. UnusedSlot'  BY <1>0, Zenon DEF UnusedSlot
<1>3. LocksHeld'  BY SMTT(20) DEF LocksHeld, Free
<1>4. HasParent'  BY <1>0, Zenon DEF HasParent
<1>5. ParentKnown'  BY Zenon DEF ParentKnown
<1>6. IdxInTable'  BY Zenon DEF IdxInTable
<1>7. ParentStable'  BY Zenon DEF ParentStable, IdxInTable
<1>8. NonePassed'  BY SMTT(20) DEF NonePassed
<1> QED  BY <1>1, <1>2, <1>3, <1>4, <1>5, <1>6, <1>7, <1>8, Zenon DEF NoMissedExit

(* wait() passes a slot that is not its child, or stops at it. *)
LEMMA WaitTestInv ==
  ASSUME NEW p \in Slot, IInv, WaitTest(p)
  PROVE TypeOK' => IInv'
<1>0. state[p] = "RUNNING"
  BY Running, Zenon DEF WaitTest
<1> USE DEF WaitTest, Goto, table, locals, IInv, TypeOK
<1>1. CpuRuns'  BY <1>0, SMTT(20) DEF CpuRuns
<1>2. UnusedSlot'  BY <1>0, Zenon DEF UnusedSlot
<1>3. LocksHeld'  BY SMTT(20) DEF LocksHeld
<1>4. HasParent'  BY <1>0, Zenon DEF HasParent
<1>5. ParentKnown'  BY DEF ParentKnown
<1>6. IdxInTable'  BY Zenon DEF IdxInTable
<1>7. ParentStable'  BY SMTT(20) DEF ParentStable, IdxInTable
<1>8. NonePassed'  BY SMTT(20) DEF NonePassed
<1> QED  BY <1>1, <1>2, <1>3, <1>4, <1>5, <1>6, <1>7, <1>8, Zenon DEF NoMissedExit

(* wait() passes a child that is no zombie, under the child's lock. *)
LEMMA WaitChildInv ==
  ASSUME NEW p \in Slot, IInv, WaitChild(p)
  PROVE TypeOK' => IInv'
<1>0. state[p] = "RUNNING"
  BY Running, Zenon DEF WaitChild
<1> USE DEF WaitChild, WaitReturn, WaitForget, Goto, table, IInv, TypeOK
<1>1. CpuRuns'  BY <1>0, SMTT(20) DEF CpuRuns
<1>2. UnusedSlot'  BY <1>0, Zenon DEF UnusedSlot
<1>3. LocksHeld'
  <2>1. /\ \A r \in Slot \ {p} : pc'[r] = pc[r] /\ lock'[r] = lock[r]
        /\ pc'[p] = "user" \/ (pc'[p] = "wait_scan" /\ lock' = lock)
        /\ opar' = opar
    <3>1. CASE state[idx[p]] = "ZOMBIE"
      BY <3>1, SMTT(20)
    <3>2. CASE state[idx[p]] # "ZOMBIE"
      BY <3>2, Zenon
    <3> QED  BY <3>1, <3>2, Zenon
  <2>2. lock[p] = p
    BY Zenon DEF LocksHeld
  <2> HIDE DEF WaitChild
  <2> QED  BY <2>1, <2>2, SMTT(20) DEF LocksHeld
<1>4. HasParent'  BY <1>0 DEF HasParent
<1>5. ParentKnown'  BY DEF ParentKnown
<1>6. IdxInTable'  BY DEF IdxInTable
<1>7. ParentStable'  BY SMTT(20) DEF ParentStable, IdxInTable
<1>8. NonePassed'  BY SMTT(20) DEF NonePassed, ParentStable, IdxInTable
<1> QED  BY <1>1, <1>2, <1>3, <1>4, <1>5, <1>6, <1>7, <1>8, Zenon DEF NoMissedExit

(* wait() falls asleep at the end of its scan, when it has passed all      *)
(* slots and so has no zombie child; it gives its lock back in that step.  *)
LEMMA WaitFinishInv ==
  ASSUME NEW p \in Slot, IInv, WaitFinish(p)
  PROVE TypeOK' => IInv'
<1>0. state[p] = "RUNNING" /\ lock[p] = p
  BY Running, Zenon DEF WaitFinish, IInv, LocksHeld
<1>1. \A r \in Slot \ {p} : /\ state'[r] = state[r] /\ chan'[r] = chan[r]
                            /\ lock'[r] = lock[r] /\ pc'[r] = pc[r] /\ idx'[r] = idx[r]
  BY DEF WaitFinish, WaitReturn, WaitForget, SwitchOut, Goto, IInv, TypeOK
<1>2. UNCHANGED <<parent, opar>>
  BY Zenon DEF WaitFinish
<1>3. pc'[p] \in {"user", "wait_enter", "panic"}
  BY DEF WaitFinish, WaitReturn, SwitchOut, Goto, IInv, TypeOK
<1>4. \/ state'[p] = "RUNNING" /\ cproc' = cproc
      \/ state'[p] = "SLEEPING" /\ cproc' = [c \in CPU |-> IF cproc[c] = p THEN None ELSE cproc[c]]
  BY <1>0, Zenon DEF WaitFinish, SwitchOut, IInv, TypeOK
<1>5. p # initproc => \A q \in Slot : parent[q] = p => state[q] # "ZOMBIE"
  BY DEF WaitFinish, IInv, TypeOK, NonePassed
<1>6. CpuRuns'  BY <1>1, <1>4 DEF IInv, TypeOK, CpuRuns
<1>7. UnusedSlot'  BY <1>1, <1>2, <1>4, Zenon DEF IInv, UnusedSlot
<1>8. LocksHeld'  BY <1>0, <1>1, <1>2, <1>3 DEF IInv, TypeOK, LocksHeld
<1>9. HasParent'
  <2>1. p # initproc => parent[p] \in Slot
    BY <1>0, Zenon DEF IInv, HasParent
  <2>2. \A r \in Slot \ {p} :
          /\ r # initproc /\ state'[r] # "UNUSED" => parent[r] \in Slot
          /\ pc'[r] \in {"exit_wakeinit", "exit_copy"} => r # initproc
    BY <1>1, Zenon DEF IInv, HasParent
  <2> QED  BY <1>2, <1>3, <2>1, <2>2, Zenon DEF HasParent
<1>10. ParentKnown'  BY <1>1, <1>2, <1>3, Zenon DEF IInv, ParentKnown
<1>11. IdxInTable'
  <2> SUFFICES ASSUME NEW r \in Slot, pc'[r] \in {"wait_lock", "reparent_lock"}
               PROVE  idx'[r] \in Slot
    BY Zenon DEF IdxInTable
  <2>1. r # p
    BY <1>3, Zenon
  <2> QED  BY <1>1, <2>1, Zenon DEF IInv, IdxInTable
<1>12. ParentStable'  BY <1>1, <1>2, <1>3, Zenon DEF IInv, ParentStable
<1>13. NonePassed'
  <2> SUFFICES ASSUME NEW a \in Slot, NEW b \in Slot, a # initproc, parent[b] = a,
                      pc'[a] \in {"wait_scan", "wait_lock"}, b < idx'[a]
               PROVE  state'[b] # "ZOMBIE"
    BY <1>2, Zenon DEF NonePassed
  <2>1. a # p
    BY <1>3, Zenon
  <2>2. state[b] # "ZOMBIE"
    BY <1>1, <2>1, Zenon DEF IInv, NonePassed
  <2> QED  BY <1>1, <1>4, <2>2, Zenon
<1>14. NoMissedExit'
  <2> SUFFICES ASSUME NEW a \in Slot, NEW b \in Slot, a # initproc, parent[b] = a,
                      state'[a] = "SLEEPING", chan'[a] = a
               PROVE  state'[b] # "ZOMBIE"
    BY <1>2, Zenon DEF NoMissedExit
  <2>1. CASE a = p
    BY <1>1, <1>4, <1>5, <2>1, Zenon
  <2>2. CASE a # p
    <3>1. state[a] = "SLEEPING" /\ chan[a] = a
      BY <1>1, <2>2, Zenon
    <3>2. state[b] # "ZOMBIE"
      BY <3>1, Zenon DEF IInv, NoMissedExit
    <3> QED  BY <1>1, <1>4, <3>2, Zenon
  <2> QED  BY <2>1, <2>2, Zenon
<1> QED  BY <1>6, <1>7, <1>8, <1>9, <1>10, <1>11, <1>12, <1>13, <1>14, Zenon DEF IInv
-----------------------------------------------------------------------------
(* After userinit() there is only init, and it does not run yet. *)
LEMMA InitInv == Init => IInv
<1> SUFFICES ASSUME Init PROVE IInv
  BY Zenon
<1>1. TypeOK
  BY DEF Init, TypeOK, State, Label
<1>2. CpuRuns /\ UnusedSlot /\ HasParent
  BY Zenon DEF Init, CpuRuns, UnusedSlot, HasParent
<1>3. LocksHeld /\ ParentKnown /\ IdxInTable /\ ParentStable /\ NonePassed /\ NoMissedExit
  BY Zenon DEF Init, LocksHeld, ParentKnown, IdxInTable, ParentStable, NonePassed, NoMissedExit
<1> QED  BY <1>1, <1>2, <1>3, Zenon DEF IInv

(* Every step of every process, and of every cpu, keeps the invariant. *)
LEMMA NextInv == IInv /\ [Next]_vars => IInv'
<1> SUFFICES ASSUME IInv, [Next]_vars PROVE IInv'
  BY Zenon
<1>1. TypeOK'
  BY TypeInv, Zenon DEF IInv
<1>2. ASSUME NEW p \in Slot, User(p) PROVE IInv'
  BY <1>1, <1>2, ForkInv, ForkNoTrapframeInv, ForkNoMemoryInv, KillInv, SysSleepInv,
       SysWaitInv, ExitInv, Zenon DEF User
<1>3. ASSUME NEW p \in Slot, Exiting(p) PROVE IInv'
  BY <1>1, <1>3, ExitWakeInitInv, ExitCopyParentInv, ExitLockParentInv, ExitLockSelfInv,
       ReparentTestInv, ReparentChildInv, ExitFinishInv, ExitSchedInv, Zenon DEF Exiting
<1>4. ASSUME NEW p \in Slot, Waiting(p) PROVE IInv'
  BY <1>1, <1>4, WaitEnterInv, WaitTestInv, WaitChildInv, WaitFinishInv, Zenon DEF Waiting
<1>5. CASE UNCHANGED vars
  BY <1>5, Frame, Zenon DEF vars, table, locals
<1> QED
  BY <1>1, <1>2, <1>3, <1>4, <1>5, TicksTestInv, TicksSleepInv, TimerInv, TickInv,
       SchedRunInv, Zenon DEF Next, Kernel

(* IInv is an invariant of proc.c, for any table size and any cpus. *)
THEOREM ProcInvariance == Spec => []IInv
  BY InitInv, NextInv, PTL DEF Spec

(* A zombie whose lock is free is on no cpu: exit() keeps p->lock from the *)
(* moment it sets ZOMBIE until its cpu has left it, so wait() may take the *)
(* lock as the sign that the child is gone.                                *)
THEOREM ZombiesAreOffCpu == Spec => []ZombieOffCpu
<1>1. IInv => ZombieOffCpu
  BY DEF IInv, TypeOK, CpuRuns, ZombieOffCpu, Free, OnCpu
<1> QED  BY <1>1, ProcInvariance, PTL

(* np->parent, which wait() and reparent() test without np->lock, has not  *)
(* changed when they have the lock.                                        *)
THEOREM ParentsAreStable == Spec => []ParentStable
<1>1. IInv => ParentStable
  BY Zenon DEF IInv
<1> QED  BY <1>1, ProcInvariance, PTL

(* No process but init sleeps in wait() with a zombie child: exit() makes  *)
(* the zombie under the lock that wait() holds from its scan to its sleep. *)
THEOREM NoExitIsMissed == Spec => []NoMissedExit
<1>1. IInv => NoMissedExit
  BY Zenon DEF IInv
<1> QED  BY <1>1, ProcInvariance, PTL
-----------------------------------------------------------------------------
(* Locks and depth *)

(* The process whose kernel thread holds q->lock is q itself, in exit() or *)
(* wait(), or a child of q in exit().                                      *)
Holders ==
  \A p, q \in Slot : lock[q] = p =>
    \/ pc[p] = "panic"
    \/ q = p /\ pc[p] \in {"reparent", "reparent_lock", "exit_sched", "wait_scan", "wait_lock"}
    \/ q = opar[p] /\ pc[p] \in {"exit_lockself", "reparent", "reparent_lock"}

(* The labels of exit() between its reading of p->parent and its end. *)
HasOpar == {"exit_lockparent", "exit_lockself", "reparent", "reparent_lock"}

(* A child is younger than its parent, and parents stay in the table. *)
Younger(c, p) == state[p] # "UNUSED" /\ pid[p] < pid[c]

PidOrder ==
  /\ nextpid \in Nat /\ pid \in [Slot -> Nat]
  /\ \A p \in Slot : pid[p] < nextpid
  /\ state[initproc] # "UNUSED" /\ pid[initproc] = 1
  /\ \A p \in Slot : p # initproc /\ state[p] # "UNUSED" => pid[p] > 1
  /\ \A p \in Slot : parent[p] # None => state[p] # "UNUSED" /\ Younger(p, parent[p])
  /\ \A p \in Slot : pc[p] \in HasOpar => Younger(p, opar[p])

(* exit() of a process whose parent is no longer the one that it found:    *)
(* that one is exiting itself.                                             *)
OparKnown ==
  \A p \in Slot :
    pc[p] \in HasOpar /\ parent[p] # opar[p] =>
      pc[opar[p]] \in {"reparent", "reparent_lock", "exit_sched", "dead"}

(* The processes that have called wakeup1(initproc) in exit(). *)
ExitedPC == HasOpar \cup {"exit_copy", "exit_sched", "dead"}
Exited == {p \in Slot : pc[p] \in ExitedPC}

(* p->killed is 0 or 1. *)
KilledType == killed \in [Slot -> {0, 1}]

(* A zombie that wait() has not passed yet, or the news of kill(). *)
WillReturn(p) ==
  \/ killed[p] = 1
  \/ \E q \in Slot : idx[p] <= q /\ parent[q] = p /\ state[q] = "ZOMBIE"

(* How deep wait() may be when it sleeps. *)
Limit(p) == IF p = initproc THEN Cardinality(Exited) + 1 ELSE 1

(* Inside the scan of wait(). *)
ScanPC == {"wait_scan", "wait_lock"}

(* The depth of wait() of one process: nothing outside wait(); asleep, at  *)
(* most the limit; woken, less than that, or wait() is about to return.    *)
DepthOf(p) ==
  /\ depth[p] \in Nat
  /\ pc[p] \notin ScanPC \cup {"wait_enter"} => depth[p] = 0
  /\ pc[p] \notin ScanPC \cup {"reparent", "reparent_lock", "panic"} => idx[p] = 1
  /\ chan[p] = p => pc[p] = "wait_enter" /\ state[p] \in {"SLEEPING", "RUNNABLE"}
  /\ pc[p] = "wait_enter" /\ state[p] = "SLEEPING" => chan[p] = p /\ depth[p] <= Limit(p)
  /\ pc[p] = "wait_enter" /\ state[p] # "SLEEPING" =>
       depth[p] < Limit(p) \/ (depth[p] = Limit(p) /\ WillReturn(p))
  /\ pc[p] \in ScanPC =>
       depth[p] <= Limit(p) \/ (depth[p] = Limit(p) + 1 /\ WillReturn(p))

DepthInv == /\ initproc \notin Exited /\ KilledType /\ depth \in [Slot -> Nat]
            /\ \A p \in Slot : DepthOf(p)

(* What the proofs need to know of numbers and of finite sets; the library *)
(* gives it at the end of the module.                                      *)
NatWellOrdered == \A T \in SUBSET Nat : T # {} => \E m \in T : \A k \in T : m <= k

(* The limit only grows, and an exit() that wakes init up counts for it.   *)
LimitStep ==
  /\ \A p \in Slot : /\ Limit(p) \in Nat /\ 0 < Limit(p)
                     /\ Limit(p)' \in Nat /\ Limit(p) <= Limit(p)'
  /\ \A p \in Slot : pc[p] = "exit_wakeinit" /\ pc'[p] = "exit_copy" =>
                     Limit(initproc) < Limit(initproc)'
-----------------------------------------------------------------------------
USE ProcAssumption DEF Slot, initproc

(* A process that is in no critical section of exit() or wait() holds no   *)
(* lock of the table.                                                      *)
LEMMA HoldsNone ==
  ASSUME Holders, NEW p \in Slot, NEW q \in Slot,
         pc[p] \in {"user", "ticks_test", "ticks_sleep", "exit_wakeinit", "exit_copy",
                    "exit_lockparent", "dead", "wait_enter"}
  PROVE  lock[q] # p
  BY Zenon DEF Holders

(* A step that touches neither a lock nor original_parent, and moves only  *)
(* p, between places where it holds the same locks.                        *)
LEMMA HoldersMove ==
  ASSUME IInv, Holders, NEW p \in Slot, NEW l, Goto(p, l), UNCHANGED <<lock, opar>>,
         \/ \A q \in Slot : lock[q] # p
         \/ l = "panic"
         \/ pc[p] \in {"wait_scan", "wait_lock"} /\ l \in {"wait_scan", "wait_lock"}
         \/ pc[p] \in {"reparent", "reparent_lock"} /\ l \in {"reparent", "reparent_lock"}
  PROVE  Holders'
<1>1. \A r \in Slot : pc'[r] = IF r = p THEN l ELSE pc[r]
  BY Zenon DEF Goto, IInv, TypeOK
<1> QED  BY <1>1, SMTT(30) DEF Holders

(* The end of a critical section of p->lock in sched(): p gives up its own *)
(* lock, the only one it holds, or panics.                                 *)
LEMMA HoldersSwitch ==
  ASSUME IInv, Holders, NEW p \in Slot, NEW s, NEW l, SwitchOut(p, s, l), UNCHANGED opar,
         lock[p] \in {p, None}
  PROVE  Holders'
<1>1. CASE HeldBy(p) \subseteq {p}
  <2>1. \A q \in Slot : lock'[q] = IF q = p THEN None ELSE lock[q]
    BY <1>1, Zenon DEF SwitchOut, IInv, TypeOK
  <2>2. \A q \in Slot : lock'[q] # p
    BY <1>1, <2>1, Zenon DEF HeldBy
  <2>3. \A r \in Slot : r # p => pc'[r] = pc[r]
    BY <1>1, Zenon DEF SwitchOut, Goto, IInv, TypeOK
  <2> QED  BY <2>1, <2>2, <2>3, SMTT(30) DEF Holders
<1>2. CASE ~(HeldBy(p) \subseteq {p})
  BY <1>2, HoldersMove, Zenon DEF SwitchOut
<1> QED  BY <1>1, <1>2, Zenon

(* exit() locks its parent, then itself; only then does it hold two. *)
LEMMA HoldersExit ==
  ASSUME IInv, IInv', Holders, NEW p \in Slot, Exiting(p)
  PROVE  Holders'
<1>1. CASE ExitWakeInit(p)
  BY <1>1, HoldersMove, HoldsNone, Zenon DEF ExitWakeInit, locals
<1>2. CASE ExitCopyParent(p)
  <2>1. \A q \in Slot : lock[q] # p
    BY <1>2, HoldsNone, Zenon DEF ExitCopyParent
  <2>2. \A r \in Slot : r # p => pc'[r] = pc[r] /\ opar'[r] = opar[r]
    BY <1>2, Zenon DEF ExitCopyParent, Goto, IInv, TypeOK
  <2>3. lock' = lock
    BY <1>2, Zenon DEF ExitCopyParent
  <2> QED  BY <2>1, <2>2, <2>3, SMTT(30) DEF Holders
<1>3. CASE ExitLockParent(p)
  <2>1. \A q \in Slot : lock[q] # p
    BY <1>3, HoldsNone, Zenon DEF ExitLockParent
  <2>2. \A r \in Slot : pc'[r] = IF r = p THEN "exit_lockself" ELSE pc[r]
    BY <1>3, Zenon DEF ExitLockParent, Goto, IInv, TypeOK
  <2>3. \A q \in Slot : lock'[q] = IF q = opar[p] THEN p ELSE lock[q]
    BY <1>3, Zenon DEF ExitLockParent, IInv, TypeOK
  <2>4. opar' = opar
    BY <1>3, Zenon DEF ExitLockParent, locals
  <2> QED  BY <2>1, <2>2, <2>3, <2>4, SMTT(30) DEF Holders
<1>4. CASE ExitLockSelf(p)
  <2>2. \A r \in Slot : pc'[r] = IF r = p THEN "reparent" ELSE pc[r]
    BY <1>4, Zenon DEF ExitLockSelf, Goto, IInv, TypeOK
  <2>3. \A q \in Slot : lock'[q] = IF q = p THEN p ELSE lock[q]
    BY <1>4, Zenon DEF ExitLockSelf, IInv, TypeOK
  <2>4. opar' = opar /\ pc[p] = "exit_lockself"
    BY <1>4, Zenon DEF ExitLockSelf
  <2> QED  BY <2>2, <2>3, <2>4, SMTT(30) DEF Holders
<1>5. CASE ReparentTest(p)
  <2>1. CASE parent[idx[p]] = p
    BY <1>5, <2>1, HoldersMove, Zenon DEF ReparentTest
  <2>2. CASE parent[idx[p]] # p
    BY <1>5, <2>2 DEF ReparentTest, Holders
  <2> QED  BY <2>1, <2>2, Zenon
<1>6. CASE ReparentChild(p)
  BY <1>6, HoldersMove, Zenon DEF ReparentChild
<1>7. CASE ExitFinish(p)
  <2>1. opar[p] \in Slot /\ opar[p] # p /\ pc[p] = "reparent"
    BY <1>7, Zenon DEF ExitFinish, IInv, LocksHeld
  <2>2. \A r \in Slot : pc'[r] = IF r = p THEN "exit_sched" ELSE pc[r]
    BY <1>7 DEF ExitFinish, Goto, IInv, TypeOK
  <2>3. \A q \in Slot : lock'[q] = IF q = opar[p] THEN None ELSE lock[q]
    BY <1>7, Zenon DEF ExitFinish, IInv, TypeOK
  <2>4. \A r \in Slot : r # p => opar'[r] = opar[r]
    BY <1>7 DEF ExitFinish, IInv, TypeOK
  <2> QED  BY <2>1, <2>2, <2>3, <2>4, SMTT(30) DEF Holders
<1>8. CASE ExitSched(p)
  <2>1. lock[p] = p
    BY <1>8, Zenon DEF ExitSched, IInv, LocksHeld
  <2> QED  BY <1>8, <2>1, HoldersSwitch, Zenon DEF ExitSched, locals
<1> QED  BY <1>1, <1>2, <1>3, <1>4, <1>5, <1>6, <1>7, <1>8, Zenon DEF Exiting

(* wait() holds its own lock from its entry to its return or its sleep. *)
LEMMA HoldersWait ==
  ASSUME IInv, Holders, NEW p \in Slot, Waiting(p)
  PROVE  Holders'
<1>r. ASSUME WaitReturn(p), pc[p] \in {"wait_scan", "wait_lock"}, UNCHANGED opar
      PROVE  Holders'
  <2>1. \A q \in Slot : lock'[q] = IF q = p THEN None ELSE lock[q]
    BY <1>r, Zenon DEF WaitReturn, IInv, TypeOK
  <2>2. \A r \in Slot : r # p => pc'[r] = pc[r]
    BY <1>r, Zenon DEF WaitReturn, Goto, IInv, TypeOK
  <2>3. \A q \in Slot : lock[q] = p => q = p
    BY <1>r, Zenon DEF Holders
  <2> QED  BY <1>r, <2>1, <2>2, <2>3, SMTT(30) DEF Holders
<1>1. CASE WaitEnter(p)
  <2>1. \A q \in Slot : lock[q] # p
    BY <1>1, HoldsNone, Zenon DEF WaitEnter
  <2>2. \A r \in Slot : pc'[r] = IF r = p THEN "wait_scan" ELSE pc[r]
    BY <1>1, Zenon DEF WaitEnter, Goto, IInv, TypeOK
  <2>3. \A q \in Slot : lock'[q] = IF q = p THEN p ELSE lock[q]
    BY <1>1, Zenon DEF WaitEnter, IInv, TypeOK
  <2>4. opar' = opar
    BY <1>1, Zenon DEF WaitEnter
  <2> QED  BY <2>1, <2>2, <2>3, <2>4, SMTT(30) DEF Holders
<1>2. CASE WaitTest(p)
  <2>1. CASE parent[idx[p]] = p
    BY <1>2, <2>1, HoldersMove, Zenon DEF WaitTest
  <2>2. CASE parent[idx[p]] # p
    BY <1>2, <2>2, Zenon DEF WaitTest, Holders
  <2> QED  BY <2>1, <2>2, Zenon
<1>3. CASE WaitChild(p)
  <2>1. CASE state[idx[p]] = "ZOMBIE"
    BY <1>3, <1>r, <2>1, Zenon DEF WaitChild
  <2>2. CASE state[idx[p]] # "ZOMBIE"
    BY <1>3, <2>2, HoldersMove, Zenon DEF WaitChild
  <2> QED  BY <2>1, <2>2, Zenon
<1>4. CASE WaitFinish(p)
  <2>0. lock[p] = p /\ pc[p] = "wait_scan" /\ opar' = opar
    BY <1>4, Zenon DEF WaitFinish, IInv, LocksHeld
  <2>1. CASE flags[p] = 1 \/ havekids[p] = 0 \/ killed[p] = 1
    BY <1>4, <1>r, <2>0, <2>1, Zenon DEF WaitFinish
  <2>2. CASE ~(flags[p] = 1 \/ havekids[p] = 0 \/ killed[p] = 1)
    <3>1. SwitchOut(p, "SLEEPING", "wait_enter")
      BY <1>4, <2>2, Zenon DEF WaitFinish
    <3> QED  BY <2>0, <3>1, HoldersSwitch, Zenon
  <2> QED  BY <2>1, <2>2, Zenon
<1> QED  BY <1>1, <1>2, <1>3, <1>4, Zenon DEF Waiting

(* Who holds a lock of the table is known in every state. *)
LEMMA HoldersNext == ASSUME IInv, IInv', Holders, [Next]_vars PROVE Holders'
<1>1. ASSUME NEW p \in Slot, User(p) PROVE Holders'
  <2>1. ASSUME NEW q \in Slot, Fork(p, q) PROVE Holders'
    <3>1. pc[q] = "user"
      BY <2>1, Zenon DEF Fork, IInv, UnusedSlot
    <3>2. \A r \in Slot : pc'[r] = pc[r]
      BY <2>1, <3>1, Zenon DEF Fork, IInv, TypeOK
    <3>3. UNCHANGED <<lock, opar>>
      BY <2>1, Zenon DEF Fork, locals
    <3> QED  BY <3>2, <3>3, Zenon DEF Holders
  <2>2. ASSUME NEW q \in Slot, ForkNoTrapframe(p, q) \/ ForkNoMemory(p, q) PROVE Holders'
    BY <2>2 DEF ForkNoTrapframe, ForkNoMemory, locals, Holders
  <2>3. ASSUME NEW k \in KillArgs, NEW q \in Slot, Kill(p, k, q) PROVE Holders'
    BY <2>3, Zenon DEF Kill, locals, Holders
  <2>4. CASE SysSleep(p)
    BY <2>4, HoldersMove, HoldsNone, Zenon DEF SysSleep, Syscall, InUser, locals
  <2>5. CASE SysWait(p)
    BY <2>5, HoldersMove, HoldsNone, Zenon DEF SysWait, Syscall, InUser
  <2>6. CASE Exit(p)
    BY <2>6, HoldersMove, HoldsNone, Zenon DEF Exit, Syscall, InUser, locals
  <2> QED  BY <1>1, <2>1, <2>2, <2>3, <2>4, <2>5, <2>6, Zenon DEF User
<1>2. ASSUME NEW p \in Slot, TicksTest(p) PROVE Holders'
  BY <1>2, HoldersMove, HoldsNone, Zenon DEF TicksTest, locals
<1>3. ASSUME NEW p \in Slot, TicksSleep(p) PROVE Holders'
  BY <1>3, HoldersSwitch, Zenon DEF TicksSleep, Free, locals
<1>4. ASSUME NEW p \in Slot, Timer(p) PROVE Holders'
  BY <1>4, HoldersSwitch, Zenon DEF Timer, Free, locals
<1>5. ASSUME NEW p \in Slot, Tick(p) PROVE Holders'
  BY <1>5, Zenon DEF Tick, locals, Holders
<1>6. ASSUME NEW c \in CPU, NEW p \in Slot, SchedRun(c, p) PROVE Holders'
  BY <1>6, Zenon DEF SchedRun, locals, Holders
<1>7. CASE UNCHANGED vars
  BY <1>7, Zenon DEF vars, locals, Holders
<1> QED  BY <1>1, <1>2, <1>3, <1>4, <1>5, <1>6, <1>7, HoldersExit, HoldersWait, Zenon
         DEF Next, Kernel
-----------------------------------------------------------------------------
(* A step that gives out no pid, makes no parent and frees no slot. *)
LEMMA PidFrame ==
  ASSUME IInv, PidOrder, UNCHANGED <<pid, nextpid, parent>>,
         \A r \in Slot : state'[r] = "UNUSED" <=> state[r] = "UNUSED",
         \A r \in Slot : pc'[r] \in HasOpar => pc[r] \in HasOpar /\ opar'[r] = opar[r]
  PROVE  PidOrder'
<1>1. \A r \in Slot : parent[r] # None => parent[r] \in Slot
  BY DEF IInv, TypeOK
<1>2. \A r \in Slot : pc[r] \in HasOpar => opar[r] \in Slot
  BY Zenon DEF IInv, LocksHeld, HasOpar
<1>3. pid' = pid /\ nextpid' = nextpid /\ parent' = parent
  BY Zenon
<1>4. ASSUME NEW r \in Slot, parent[r] # None
      PROVE  /\ state'[r] # "UNUSED" /\ state'[parent[r]] # "UNUSED"
             /\ pid[parent[r]] < pid[r]
  <2>1. parent[r] \in Slot
    BY <1>1, <1>4, Zenon
  <2>2. state[r] # "UNUSED" /\ state[parent[r]] # "UNUSED" /\ pid[parent[r]] < pid[r]
    BY <1>4, Zenon DEF PidOrder, Younger
  <2> QED  BY <2>1, <2>2, Zenon
<1>5. ASSUME NEW r \in Slot, pc'[r] \in HasOpar
      PROVE  state'[opar'[r]] # "UNUSED" /\ pid[opar'[r]] < pid[r]
  <2>1. opar'[r] = opar[r] /\ pc[r] \in HasOpar /\ opar[r] \in Slot
    BY <1>2, <1>5, Zenon
  <2>2. state[opar[r]] # "UNUSED" /\ pid[opar[r]] < pid[r]
    BY <2>1, Zenon DEF PidOrder, Younger
  <2> QED  BY <2>1, <2>2, Zenon
<1>6. /\ initproc \in Slot /\ state'[initproc] # "UNUSED"
      /\ \A r \in Slot : r # initproc /\ state'[r] # "UNUSED" => pid[r] > 1
  BY DEF PidOrder
<1>7. /\ nextpid' \in Nat /\ pid' \in [Slot -> Nat]
      /\ \A r \in Slot : pid'[r] < nextpid'
      /\ pid'[initproc] = 1
  BY <1>3 DEF PidOrder
<1>8. \A r \in Slot : parent'[r] # None =>
        /\ state'[r] # "UNUSED" /\ state'[parent'[r]] # "UNUSED"
        /\ pid'[parent'[r]] < pid'[r]
  BY <1>3, <1>4, Zenon
<1>9. \A r \in Slot : pc'[r] \in HasOpar =>
        state'[opar'[r]] # "UNUSED" /\ pid'[opar'[r]] < pid'[r]
  BY <1>3, <1>5, Zenon
<1>10. \A r \in Slot : r # initproc /\ state'[r] # "UNUSED" => pid'[r] > 1
  BY <1>3, <1>6, Zenon
<1> QED  BY <1>6, <1>7, <1>8, <1>9, <1>10, Zenon DEF PidOrder, Younger

(* init, the process with pid 1, has no parent and does not exit. *)
LEMMA InitIsRoot ==
  ASSUME IInv, PidOrder
  PROVE  parent[initproc] = None /\ pc[initproc] \notin HasOpar
<1>1. \A r \in Slot : ~Younger(initproc, r)
  BY DEF PidOrder, Younger
<1>2. initproc \in Slot
  OBVIOUS
<1>3. parent[initproc] # None => parent[initproc] \in Slot
  BY <1>2, Zenon DEF IInv, TypeOK
<1>4. pc[initproc] \in HasOpar => opar[initproc] \in Slot
  BY <1>2, Zenon DEF IInv, LocksHeld, HasOpar
<1> QED  BY <1>1, <1>2, <1>3, <1>4, Zenon DEF PidOrder

(* fork() gives the child a greater pid than any before, its parent's      *)
(* included.                                                               *)
LEMMA PidFork ==
  ASSUME IInv, PidOrder, NEW p \in Slot, NEW q \in Slot, Fork(p, q)
  PROVE  PidOrder'
<1>0. state[p] = "RUNNING"
  BY Running, Zenon DEF Fork, Syscall, InUser
<1>1. /\ state[q] = "UNUSED" /\ q # p /\ q # initproc /\ pc[q] = "user"
  BY <1>0, Zenon DEF Fork, PidOrder, IInv, UnusedSlot
<1>2. \A r \in Slot : /\ pid'[r] = IF r = q THEN nextpid ELSE pid[r]
                      /\ parent'[r] = IF r = q THEN p ELSE parent[r]
                      /\ state'[r] = IF r = q THEN "RUNNABLE" ELSE state[r]
                      /\ pc'[r] = pc[r] /\ opar'[r] = opar[r]
  BY <1>1, Zenon DEF Fork, locals, IInv, TypeOK, PidOrder
<1>3. nextpid' = nextpid + 1 /\ pid' \in [Slot -> Nat]
  BY Zenon DEF Fork, PidOrder
<1>4. \A r \in Slot : /\ parent[r] # None => parent[r] \in Slot /\ parent[r] # q
                      /\ pc[r] \in HasOpar => opar[r] \in Slot /\ opar[r] # q
  <2>1. \A r \in Slot : parent[r] # None => parent[r] \in Slot
    BY DEF IInv, TypeOK
  <2>2. \A r \in Slot : pc[r] \in HasOpar => opar[r] \in Slot
    BY Zenon DEF IInv, LocksHeld, HasOpar
  <2>3. \A r \in Slot : parent[r] # None => state[parent[r]] # "UNUSED"
    BY Zenon DEF PidOrder, Younger
  <2>4. \A r \in Slot : pc[r] \in HasOpar => state[opar[r]] # "UNUSED"
    BY Zenon DEF PidOrder, Younger
  <2> QED  BY <1>1, <2>1, <2>2, <2>3, <2>4, Zenon
<1>5. \A r \in Slot : r # q /\ parent[r] # None => Younger(r, parent[r])'
  <2> SUFFICES ASSUME NEW r \in Slot, r # q, parent[r] # None
               PROVE  state'[parent'[r]] # "UNUSED" /\ pid'[parent'[r]] < pid'[r]
    BY Zenon DEF Younger
  <2>1. parent'[r] = parent[r] /\ pid'[r] = pid[r] /\ parent[r] \in Slot /\ parent[r] # q
    BY <1>2, <1>4, Zenon
  <2>2. state'[parent[r]] = state[parent[r]] /\ pid'[parent[r]] = pid[parent[r]]
    BY <1>2, <2>1, Zenon
  <2>3. state[parent[r]] # "UNUSED" /\ pid[parent[r]] < pid[r]
    BY Zenon DEF PidOrder, Younger
  <2> QED  BY <2>1, <2>2, <2>3, Zenon
<1>6. ASSUME NEW r \in Slot, pc[r] \in HasOpar
      PROVE  state'[opar[r]] # "UNUSED" /\ pid'[opar[r]] < pid'[r]
  <2>1. r # q /\ opar[r] \in Slot /\ opar[r] # q
    BY <1>1, <1>4, <1>6, Zenon DEF HasOpar
  <2>2. state[opar[r]] # "UNUSED" /\ pid[opar[r]] < pid[r]
    BY <1>6, Zenon DEF PidOrder, Younger
  <2> QED  BY <1>2, <2>1, <2>2, Zenon
<1>7. Younger(q, p)'
  BY <1>0, <1>1, <1>2 DEF PidOrder, Younger
<1>8. \A r \in Slot \ {q} : parent[r] # None => state'[r] # "UNUSED" /\ parent'[r] = parent[r]
  BY <1>2, Zenon DEF PidOrder
<1>9. \A r \in Slot : parent'[r] # None =>
        state'[r] # "UNUSED" /\ state'[parent'[r]] # "UNUSED" /\ pid'[parent'[r]] < pid'[r]
  <2> SUFFICES ASSUME NEW r \in Slot, parent'[r] # None
               PROVE  /\ state'[r] # "UNUSED" /\ state'[parent'[r]] # "UNUSED"
                      /\ pid'[parent'[r]] < pid'[r]
    BY Zenon
  <2>1. CASE r = q
    BY <1>2, <1>7, <2>1, Zenon DEF Younger
  <2>2. CASE r # q
    <3>1. parent'[r] = parent[r] /\ parent[r] # None
      BY <1>2, <2>2, Zenon
    <3> QED  BY <1>5, <1>8, <2>2, <3>1, Zenon DEF Younger
  <2> QED  BY <2>1, <2>2, Zenon
<1>10. \A r \in Slot : pc'[r] \in HasOpar =>
         state'[opar'[r]] # "UNUSED" /\ pid'[opar'[r]] < pid'[r]
  BY <1>2, <1>6, Zenon
<1>11. /\ nextpid' \in Nat /\ \A r \in Slot : pid'[r] < nextpid'
       /\ state'[initproc] # "UNUSED" /\ pid'[initproc] = 1
       /\ \A r \in Slot : r # initproc /\ state'[r] # "UNUSED" => pid'[r] > 1
  BY <1>1, <1>2, <1>3, SMTT(30) DEF PidOrder
<1> QED  BY <1>3, <1>9, <1>10, <1>11, Zenon DEF PidOrder, Younger

(* A fork() that fails touches only the pid, and the fields that           *)
(* freeproc() clears, of a slot that stays UNUSED.                         *)
LEMMA PidForkFails ==
  ASSUME IInv, PidOrder, NEW p \in Slot, NEW q \in Slot,
         ForkNoTrapframe(p, q) \/ ForkNoMemory(p, q)
  PROVE  PidOrder'
<1>1. state[q] = "UNUSED" /\ q # initproc /\ pc[q] = "user" /\ parent[q] = None
  BY Zenon DEF ForkNoTrapframe, ForkNoMemory, PidOrder, IInv, UnusedSlot
<1>2. /\ nextpid' = nextpid + 1 /\ UNCHANGED <<state, pc, opar>>
      /\ \A r \in Slot : r # q => pid'[r] = pid[r]
      /\ pid'[q] \in {0, nextpid} /\ pid' \in [Slot -> Nat]
  BY DEF ForkNoTrapframe, ForkNoMemory, locals, PidOrder
<1>3. \A r \in Slot : parent'[r] = parent[r]
  BY <1>1 DEF ForkNoTrapframe, ForkNoMemory, IInv, TypeOK
<1>4. \A r \in Slot : /\ parent[r] # None => parent[r] \in Slot /\ parent[r] # q /\ r # q
                      /\ pc[r] \in HasOpar => opar[r] \in Slot /\ opar[r] # q /\ r # q
  <2>1. ASSUME NEW r \in Slot, parent[r] # None
        PROVE  parent[r] \in Slot /\ parent[r] # q /\ r # q
    <3>1. parent[r] \in Slot
      BY <2>1 DEF IInv, TypeOK
    <3>2. state[parent[r]] # "UNUSED"
      BY <2>1 DEF PidOrder, Younger
    <3> QED  BY <1>1, <2>1, <3>1, <3>2, Zenon
  <2>2. ASSUME NEW r \in Slot, pc[r] \in HasOpar
        PROVE  opar[r] \in Slot /\ opar[r] # q /\ r # q
    <3>1. r # q
      BY <1>1, <2>2 DEF HasOpar
    <3>2. opar[r] \in Slot
      BY <2>2 DEF IInv, LocksHeld, HasOpar
    <3>3. state[opar[r]] # "UNUSED"
      BY <2>2 DEF PidOrder, Younger
    <3> QED  BY <1>1, <3>1, <3>2, <3>3, Zenon
  <2> QED  BY <2>1, <2>2, Zenon
<1>5. \A r \in Slot : parent'[r] # None => state'[r] # "UNUSED" /\ Younger(r, parent[r])'
  BY <1>2, <1>3, <1>4, Zenon DEF PidOrder, Younger
<1>6. ASSUME NEW r \in Slot, pc'[r] \in HasOpar
      PROVE  Younger(r, opar[r])'
  <2>1. pc[r] \in HasOpar /\ opar'[r] = opar[r]
    BY <1>2, <1>6, Zenon
  <2>2. opar[r] \in Slot /\ opar[r] # q /\ r # q
    BY <1>4, <2>1, Zenon
  <2>3. state[opar[r]] # "UNUSED" /\ pid[opar[r]] < pid[r]
    BY <2>1, Zenon DEF PidOrder, Younger
  <2> QED  BY <1>2, <2>1, <2>2, <2>3, Zenon DEF Younger
<1>7. /\ nextpid' \in Nat /\ \A r \in Slot : pid'[r] < nextpid'
      /\ state'[initproc] # "UNUSED" /\ pid'[initproc] = 1
      /\ \A r \in Slot : r # initproc /\ state'[r] # "UNUSED" => pid'[r] > 1
  <2>1. nextpid \in Nat /\ pid \in [Slot -> Nat] /\ initproc \in Slot
    BY DEF PidOrder
  <2>2. \A r \in Slot : pid'[r] < nextpid'
    <3>1. \A r \in Slot : pid[r] < nextpid
      BY Zenon DEF PidOrder
    <3>2. pid'[q] < nextpid'
      BY <1>2, <2>1
    <3>3. ASSUME NEW r \in Slot, r # q PROVE pid'[r] < nextpid'
      <4>1. pid'[r] = pid[r] /\ pid[r] \in Nat /\ pid[r] < nextpid /\ nextpid' = nextpid + 1
        BY <1>2, <2>1, <3>1, <3>3, Zenon
      <4> QED  BY <2>1, <4>1
    <3> QED  BY <3>2, <3>3, Zenon
  <2>3. state'[initproc] # "UNUSED" /\ pid'[initproc] = 1
    BY <1>1, <1>2, <2>1, Zenon DEF PidOrder
  <2>4. \A r \in Slot : r # initproc /\ state'[r] # "UNUSED" => pid'[r] > 1
    BY <1>1, <1>2, Zenon DEF PidOrder
  <2> QED  BY <1>2, <2>1, <2>2, <2>3, <2>4
<1> QED  BY <1>2, <1>3, <1>5, <1>6, <1>7, Zenon DEF PidOrder, Younger

(* exit() copies a parent that is older. *)
LEMMA PidCopyParent ==
  ASSUME IInv, PidOrder, NEW p \in Slot, ExitCopyParent(p)
  PROVE  PidOrder'
<1>0. state[p] = "RUNNING"
  BY Running, Zenon DEF ExitCopyParent
<1>1. parent[p] \in Slot /\ parent[p] # None
  BY <1>0, Zenon DEF ExitCopyParent, IInv, HasParent
<1>2. \A r \in Slot : /\ opar'[r] = IF r = p THEN parent[p] ELSE opar[r]
                      /\ pc'[r] = IF r = p THEN "exit_lockparent" ELSE pc[r]
  BY Zenon DEF ExitCopyParent, Goto, IInv, TypeOK
<1>3. UNCHANGED <<pid, nextpid, parent, state>>
  BY Zenon DEF ExitCopyParent, table
<1>4. Younger(p, parent[p])
  BY <1>1, Zenon DEF PidOrder
<1>5. \A r \in Slot : pc'[r] \in HasOpar => Younger(r, opar'[r])
  BY <1>2, <1>4, Zenon DEF PidOrder
<1>6. \A r \in Slot : pc'[r] \in HasOpar => state'[opar'[r]] # "UNUSED" /\ pid'[opar'[r]] < pid'[r]
  BY <1>3, <1>5, Zenon DEF Younger
<1> QED  BY <1>3, <1>6, Zenon DEF PidOrder, Younger

(* reparent() gives a child to init, which is older than everybody. *)
LEMMA PidReparent ==
  ASSUME IInv, PidOrder, NEW p \in Slot, ReparentChild(p)
  PROVE  PidOrder'
<1> DEFINE c == idx[p]
<1>1. c \in Slot /\ parent[c] = p
  BY Zenon DEF ReparentChild, IInv, IdxInTable, ParentStable
<1>2. c # initproc /\ state[c] # "UNUSED" /\ pid[c] > 1
  BY <1>1, InitIsRoot, Zenon DEF PidOrder
<1>3. \A r \in Slot : parent'[r] = IF r = c THEN initproc ELSE parent[r]
  BY <1>1, Zenon DEF ReparentChild, IInv, TypeOK
<1>4. UNCHANGED <<pid, nextpid, state, opar>>
  BY Zenon DEF ReparentChild
<1>5. \A r \in Slot : pc'[r] \in HasOpar => pc[r] \in HasOpar
  BY Zenon DEF ReparentChild, Goto, IInv, TypeOK, HasOpar
<1> HIDE DEF c
<1>6. \A r \in Slot : parent'[r] # None =>
        state[r] # "UNUSED" /\ state[parent'[r]] # "UNUSED" /\ pid[parent'[r]] < pid[r]
  BY <1>2, <1>3, Zenon DEF PidOrder, Younger
<1> QED  BY <1>4, <1>5, <1>6, Zenon DEF PidOrder, Younger

(* After sched() a process has the state it asked for, or panicked. *)
LEMMA SwitchState ==
  ASSUME IInv, NEW p \in Slot, NEW s, NEW l, SwitchOut(p, s, l)
  PROVE  /\ \A r \in Slot : r # p => state'[r] = state[r] /\ pc'[r] = pc[r]
         /\ state'[p] \in {s, state[p]} /\ pc'[p] \in {l, "panic"}
  BY Zenon DEF SwitchOut, Goto, IInv, TypeOK

(* The family tree has no cycles: a child has a greater pid than the       *)
(* parent it has, and than the one its exit() has read.                    *)
LEMMA PidNext == ASSUME IInv, PidOrder, [Next]_vars PROVE PidOrder'
<1>1. ASSUME NEW p \in Slot, User(p) PROVE PidOrder'
  <2>1. ASSUME NEW k \in KillArgs, NEW q \in Slot, Kill(p, k, q) PROVE PidOrder'
    <3>1. \A r \in Slot : state'[r] = "UNUSED" <=> state[r] = "UNUSED"
      BY <2>1, Zenon DEF Kill, IInv, TypeOK
    <3>2. UNCHANGED <<pid, nextpid, parent, pc, opar>>
      BY <2>1, Zenon DEF Kill, locals
    <3> QED  BY <3>1, <3>2, PidFrame, Zenon
  <2>2. CASE SysSleep(p) \/ SysWait(p) \/ Exit(p)
    <3>1. UNCHANGED <<pid, nextpid, parent, state, opar>>
      BY <2>2, Zenon DEF SysSleep, SysWait, Exit, table, locals
    <3>2. \A r \in Slot : pc'[r] \in HasOpar => pc[r] \in HasOpar
      BY <2>2 DEF SysSleep, SysWait, Exit, Goto, IInv, TypeOK, HasOpar
    <3> QED  BY <3>1, <3>2, PidFrame, Zenon
  <2> QED  BY <1>1, <2>1, <2>2, PidFork, PidForkFails, Zenon DEF User
<1>2. ASSUME NEW p \in Slot, Exiting(p) PROVE PidOrder'
  <2>1. CASE ExitWakeInit(p)
    <3>1. \A r \in Slot : state'[r] = "UNUSED" <=> state[r] = "UNUSED"
      BY <2>1, Zenon DEF ExitWakeInit, Wakeup1, IInv, TypeOK
    <3>2. UNCHANGED <<pid, nextpid, parent, opar>>
      BY <2>1, Zenon DEF ExitWakeInit, locals
    <3>3. \A r \in Slot : pc'[r] \in HasOpar => pc[r] \in HasOpar
      BY <2>1, Zenon DEF ExitWakeInit, Goto, IInv, TypeOK, HasOpar
    <3> QED  BY <3>1, <3>2, <3>3, PidFrame, Zenon
  <2>2. CASE ExitLockParent(p) \/ ExitLockSelf(p) \/ ReparentTest(p)
    <3>1. UNCHANGED <<pid, nextpid, parent, state, opar>>
      BY <2>2, Zenon DEF ExitLockParent, ExitLockSelf, ReparentTest, table, locals
    <3>2. \A r \in Slot : pc'[r] \in HasOpar => pc[r] \in HasOpar
      BY <2>2 DEF ExitLockParent, ExitLockSelf, ReparentTest, Goto, IInv, TypeOK, HasOpar
    <3> QED  BY <3>1, <3>2, PidFrame, Zenon
  <2>3. CASE ExitFinish(p)
    <3>0. state[p] = "RUNNING"
      BY <2>3, Running, Zenon DEF ExitFinish
    <3>1. \A r \in Slot : state'[r] = "UNUSED" <=> state[r] = "UNUSED"
      BY <2>3, <3>0, Zenon DEF ExitFinish, Wakeup1, IInv, TypeOK
    <3>2. UNCHANGED <<pid, nextpid, parent>>
      BY <2>3, Zenon DEF ExitFinish
    <3>3. \A r \in Slot : pc'[r] \in HasOpar => pc[r] \in HasOpar /\ opar'[r] = opar[r]
      BY <2>3, Zenon DEF ExitFinish, Goto, IInv, TypeOK, HasOpar
    <3> QED  BY <3>1, <3>2, <3>3, PidFrame, Zenon
  <2>4. CASE ExitSched(p)
    <3>1. /\ SwitchOut(p, state[p], "dead") /\ UNCHANGED <<pid, nextpid, parent, opar>>
      BY <2>4, Zenon DEF ExitSched, locals
    <3>2. /\ \A r \in Slot : state'[r] = state[r]
          /\ \A r \in Slot : pc'[r] \in HasOpar => pc[r] \in HasOpar
      BY <3>1, SwitchState DEF HasOpar
    <3> QED  BY <3>1, <3>2, PidFrame, Zenon
  <2> QED  BY <1>2, <2>1, <2>2, <2>3, <2>4, PidCopyParent, PidReparent, Zenon DEF Exiting
<1>3. ASSUME NEW p \in Slot, WaitEnter(p) \/ WaitTest(p) \/ WaitChild(p) \/ TicksTest(p)
      PROVE  PidOrder'
  <2>1. UNCHANGED <<pid, nextpid, parent, state, opar>>
    BY <1>3, Zenon DEF WaitEnter, WaitTest, WaitChild, TicksTest, table, locals
  <2>2. \A r \in Slot : pc'[r] \in HasOpar => pc[r] \in HasOpar
    BY <1>3, SMTT(30) DEF WaitEnter, WaitTest, WaitChild, WaitReturn, TicksTest, Goto, IInv, TypeOK,
                HasOpar
  <2> QED  BY <2>1, <2>2, PidFrame, Zenon
<1>4. ASSUME NEW p \in Slot, WaitFinish(p) PROVE PidOrder'
  <2>0. state[p] = "RUNNING" /\ UNCHANGED <<pid, nextpid, parent, opar>>
    BY <1>4, Running, Zenon DEF WaitFinish
  <2>1. CASE flags[p] = 1 \/ havekids[p] = 0 \/ killed[p] = 1
    <3>1. state' = state /\ Goto(p, "user")
      BY <1>4, <2>1, Zenon DEF WaitFinish, WaitReturn
    <3>2. \A r \in Slot : pc'[r] \in HasOpar => pc[r] \in HasOpar
      BY <3>1, Zenon DEF Goto, IInv, TypeOK, HasOpar
    <3> QED  BY <2>0, <3>1, <3>2, PidFrame, Zenon
  <2>2. CASE ~(flags[p] = 1 \/ havekids[p] = 0 \/ killed[p] = 1)
    <3>1. SwitchOut(p, "SLEEPING", "wait_enter")
      BY <1>4, <2>2, Zenon DEF WaitFinish
    <3>2. /\ \A r \in Slot : state'[r] = "UNUSED" <=> state[r] = "UNUSED"
          /\ \A r \in Slot : pc'[r] \in HasOpar => pc[r] \in HasOpar
      BY <2>0, <3>1, SwitchState DEF HasOpar
    <3> QED  BY <2>0, <3>2, PidFrame, Zenon
  <2> QED  BY <2>1, <2>2, Zenon
<1>5. ASSUME NEW p \in Slot, TicksSleep(p) \/ Timer(p) PROVE PidOrder'
  <2>0. state[p] = "RUNNING" /\ UNCHANGED <<pid, nextpid, parent, opar>>
    <3>1. CASE TicksSleep(p)
      BY <3>1, Running, Zenon DEF TicksSleep, locals
    <3>2. CASE Timer(p)
      BY <3>2, Running DEF Timer, Interrupted, IntrOn, HeldBy, IInv, LocksHeld, locals
    <3> QED  BY <1>5, <3>1, <3>2, Zenon
  <2>1. PICK s \in {"SLEEPING", "RUNNABLE"}, l \in {"ticks_test", pc[p]} : SwitchOut(p, s, l)
    BY <1>5, Zenon DEF TicksSleep, Timer
  <2>2. /\ \A r \in Slot : state'[r] = "UNUSED" <=> state[r] = "UNUSED"
        /\ \A r \in Slot : pc'[r] \in HasOpar => pc[r] \in HasOpar
    BY <2>0, <2>1, SwitchState DEF HasOpar
  <2> QED  BY <2>0, <2>2, PidFrame, Zenon
<1>6. ASSUME NEW p \in Slot, Tick(p) \/ \E c \in CPU : SchedRun(c, p) PROVE PidOrder'
  <2>1. \A r \in Slot : state'[r] = "UNUSED" <=> state[r] = "UNUSED"
    BY <1>6, Zenon DEF Tick, SchedRun, IInv, TypeOK
  <2>2. UNCHANGED <<pid, nextpid, parent, pc, opar>>
    BY <1>6, Zenon DEF Tick, SchedRun, locals
  <2> QED  BY <2>1, <2>2, PidFrame, Zenon
<1>7. CASE UNCHANGED vars
  BY <1>7, PidFrame, Zenon DEF vars, table, locals
<1> QED  BY <1>1, <1>2, <1>3, <1>4, <1>5, <1>6, <1>7, Zenon DEF Next, Kernel, Waiting
-----------------------------------------------------------------------------
(* A process that holds a lock of the table and spins for another waits    *)
(* for a process with a greater pid: a child of its own, or a child of     *)
(* that child.                                                             *)
LEMMA WaitsForYounger ==
  ASSUME IInv, Holders, PidOrder, NEW t \in Slot, NEW g \in Slot, lock[g] = t,
         Wants(t) # None, NEW h \in Slot, lock[Wants(t)] = h, Wants(h) # None
  PROVE  pid[t] < pid[h]
<1>0. pid[t] \in Nat /\ pid[h] \in Nat
  BY Zenon DEF PidOrder
<1>p. pc[h] # "panic"
  BY Zenon DEF Wants
<1>1. pc[t] \in {"exit_lockself", "reparent_lock", "wait_lock"}
  BY Zenon DEF Holders, Wants
<1>2. CASE pc[t] = "exit_lockself"
  <2>1. Wants(t) = t
    BY <1>2, Zenon DEF Wants
  <2>2. lock[t] = h
    BY <2>1, Zenon
  <2>3. t = opar[h] /\ pc[h] \in HasOpar
    BY <1>2, <1>p, <2>2, Zenon DEF Holders, HasOpar
  <2> QED  BY <2>3, Zenon DEF PidOrder, Younger
<1>3. CASE pc[t] \in {"reparent_lock", "wait_lock"}
  <2>1. Wants(t) = idx[t] /\ idx[t] \in Slot /\ parent[idx[t]] = t
    BY <1>3, Zenon DEF Wants, IInv, IdxInTable, ParentStable
  <2> DEFINE c == idx[t]
  <2>2. c \in Slot /\ lock[c] = h /\ pid[c] \in Nat /\ pid[t] < pid[c]
    BY <2>1, Zenon DEF PidOrder, Younger
  <2> HIDE DEF c
  <2>3. \/ h = c
        \/ c = opar[h] /\ pc[h] \in HasOpar
    BY <1>p, <2>2, Zenon DEF Holders, HasOpar
  <2>4. CASE h = c
    BY <2>2, <2>4, Zenon
  <2>5. CASE c = opar[h] /\ pc[h] \in HasOpar
    <3>1. pid[c] < pid[h]
      BY <2>5, Zenon DEF PidOrder, Younger
    <3> QED  BY <1>0, <2>2, <3>1
  <2> QED  BY <2>3, <2>4, <2>5, Zenon
<1> QED  BY <1>1, <1>2, <1>3, Zenon

(* The parent-then-child rule makes the locks safe to spin on: among the   *)
(* processes of a cycle, the youngest that holds a lock would wait for one *)
(* that is younger still.                                                  *)
LEMMA NoCycle == NatWellOrdered /\ IInv /\ Holders /\ PidOrder => NoDeadlock
<1> SUFFICES ASSUME NatWellOrdered, IInv, Holders, PidOrder, NEW S \in (SUBSET Slot) \ {{}},
                    \A p \in S : OnCpu(p) /\ Wants(p) # None /\ lock[Wants(p)] \in S
             PROVE  FALSE
  BY Zenon DEF NoDeadlock
<1> DEFINE f(p) == lock[Wants(p)]
           T == {f(p) : p \in S}
           M == {nextpid - pid[t] : t \in T}
<1>1. \A p \in S : p \in Slot /\ f(p) \in S /\ Wants(p) # None /\ f(p) \in T
  BY Zenon
<1>2. T \subseteq S /\ T # {}
  <2>1. S # {}
    BY Zenon
  <2>2. \A t \in T : t \in S
    BY <1>1, Zenon
  <2>3. \E p \in S : f(p) \in T
    BY <1>1, <2>1, Zenon
  <2> HIDE DEF T
  <2> QED  BY <2>2, <2>3, Zenon
<1>w. \A p \in S : Wants(p) \in Slot
  <2> SUFFICES ASSUME NEW p \in S PROVE Wants(p) \in Slot
    BY Zenon
  <2>1. p \in Slot /\ Wants(p) # None
    BY <1>1, Zenon
  <2>2. idx[p] \in Slot \/ pc[p] \notin {"wait_lock", "reparent_lock"}
    BY <2>1, Zenon DEF IInv, IdxInTable
  <2>3. opar[p] \in Slot \/ pc[p] # "exit_lockparent"
    BY <2>1, Zenon DEF IInv, LocksHeld
  <2> QED  BY <2>1, <2>2, <2>3 DEF Wants
<1>3. \A t \in T : f(t) \in T /\ pid[t] < pid[f(t)]
  <2> SUFFICES ASSUME NEW p \in S PROVE f(f(p)) \in T /\ pid[f(p)] < pid[f(f(p))]
    BY Zenon
  <2>1. /\ f(p) \in S /\ f(f(p)) \in S /\ f(f(p)) \in T
    BY <1>1, Zenon
  <2>2. /\ f(p) \in Slot /\ f(f(p)) \in Slot /\ Wants(p) \in Slot
        /\ Wants(f(p)) # None /\ Wants(f(f(p))) # None
    BY <1>1, <1>w, <2>1, Zenon
  <2> QED  BY <2>1, <2>2, WaitsForYounger, Zenon
<1> HIDE DEF f, T
<1>4. M \subseteq Nat /\ M # {}
  <2>1. \A t \in T : t \in Slot
    BY <1>1, <1>2, Zenon
  <2>2. \A t \in Slot : nextpid - pid[t] \in Nat
    <3>1. nextpid \in Nat /\ pid \in [Slot -> Nat] /\ \A t \in Slot : pid[t] < nextpid
      BY Zenon DEF PidOrder
    <3> QED  BY <3>1
  <2>3. \A m \in M : m \in Nat
    BY <2>1, <2>2, Zenon
  <2>4. \E m : m \in M
    <3>1. PICK t : t \in T
      BY <1>2, Zenon
    <3>2. nextpid - pid[t] \in M
      BY <3>1, Zenon
    <3> QED  BY <3>2, Zenon
  <2> HIDE DEF M
  <2> QED  BY <2>3, <2>4, Zenon
<1>5. PICK m \in M : \A k \in M : m <= k
  <2> HIDE DEF M
  <2> QED  BY <1>4, Zenon DEF NatWellOrdered
<1>6. PICK t \in T : m = nextpid - pid[t]
  BY Zenon
<1>7. f(t) \in T /\ pid[t] < pid[f(t)]
  BY <1>3, Zenon
<1>8. nextpid - pid[f(t)] \in M
  BY <1>7, Zenon
<1>9. pid[t] \in Nat /\ pid[f(t)] \in Nat /\ nextpid \in Nat
  BY <1>1, <1>2, <1>7, Zenon DEF PidOrder
<1> HIDE DEF M
<1> QED  BY <1>5, <1>6, <1>7, <1>8, <1>9

(* Holders and PidOrder hold after userinit(), when only init is there. *)
LEMMA LockInit == Init => Holders /\ PidOrder
  BY DEF Init, Holders, PidOrder, Younger, HasOpar
-----------------------------------------------------------------------------
(* The labels of exit() once it has both locks. *)
LatePC == {"reparent", "reparent_lock", "exit_sched", "dead"}

(* At the sched() of exit() and of wait() p holds no lock but its own, so  *)
(* that sched() does not panic there.                                      *)
LEMMA OnlyOwnLock ==
  ASSUME Holders, NEW p \in Slot, pc[p] \in {"exit_sched", "wait_scan", "wait_enter"}
  PROVE  HeldBy(p) \subseteq {p}
  BY Zenon DEF Holders, HeldBy

(* exit() is never undone: who has called wakeup1(initproc) in it goes on  *)
(* to the end, and init never does.                                        *)
LEMMA ExitGoesOn ==
  ASSUME IInv, Holders, [Next]_vars
  PROVE  /\ \A r \in Slot : pc[r] \in LatePC => pc'[r] \in LatePC
         /\ \A r \in Slot : pc[r] \in ExitedPC => pc'[r] \in ExitedPC
         /\ \A r \in Slot : pc'[r] \in ExitedPC => pc[r] \in ExitedPC \cup {"exit_wakeinit"}
<1> DEFINE G == /\ \A r \in Slot : pc[r] \in LatePC => pc'[r] \in LatePC
                /\ \A r \in Slot : pc[r] \in ExitedPC => pc'[r] \in ExitedPC
                /\ \A r \in Slot : pc'[r] \in ExitedPC => pc[r] \in ExitedPC \cup {"exit_wakeinit"}
<1> SUFFICES G
  BY Zenon
<1> USE DEF LatePC, ExitedPC, HasOpar
<1>g. ASSUME NEW p \in Slot, NEW l, Goto(p, l),
             \/ pc[p] \notin ExitedPC /\ l \notin ExitedPC
             \/ pc[p] \in LatePC /\ l \in LatePC
             \/ pc[p] \in ExitedPC \ LatePC /\ l \in ExitedPC
             \/ pc[p] = "exit_wakeinit"
      PROVE  G
  <2>1. \A r \in Slot : pc'[r] = IF r = p THEN l ELSE pc[r]
    BY <1>g, Zenon DEF Goto, IInv, TypeOK
  <2> QED  BY <1>g, <2>1, Zenon
<1>s. ASSUME \A r \in Slot : pc'[r] = pc[r] PROVE G
  BY <1>s, Zenon
<1>w. ASSUME NEW p \in Slot, NEW s, NEW l, SwitchOut(p, s, l),
             pc[p] \notin ExitedPC, l \notin ExitedPC
      PROVE  G
  <2>1. Goto(p, l) \/ Goto(p, "panic")
    BY <1>w, Zenon DEF SwitchOut
  <2> QED  BY <1>w, <1>g, <2>1, Zenon
<1> HIDE DEF G
<1>1. ASSUME NEW p \in Slot, User(p) PROVE G
  <2>1. ASSUME NEW q \in Slot, Fork(p, q) PROVE G
    <3>1. pc[q] = "user"
      BY <2>1, Zenon DEF Fork, IInv, UnusedSlot
    <3>2. \A r \in Slot : pc'[r] = pc[r]
      BY <2>1, <3>1, Zenon DEF Fork, IInv, TypeOK
    <3> QED  BY <1>s, <3>2, Zenon
  <2>2. ASSUME NEW q \in Slot, ForkNoTrapframe(p, q) \/ ForkNoMemory(p, q) PROVE G
    BY <1>s, <2>2, Zenon DEF ForkNoTrapframe, ForkNoMemory
  <2>3. ASSUME NEW k \in KillArgs, NEW q \in Slot, Kill(p, k, q) PROVE G
    BY <1>s, <2>3, Zenon DEF Kill
  <2>4. CASE SysSleep(p)
    BY <1>g, <2>4, Zenon DEF SysSleep, Syscall, InUser
  <2>5. CASE SysWait(p)
    BY <1>g, <2>5, Zenon DEF SysWait, Syscall, InUser
  <2>6. CASE Exit(p)
    BY <1>g, <2>6, Zenon DEF Exit, Syscall, InUser
  <2> QED  BY <1>1, <2>1, <2>2, <2>3, <2>4, <2>5, <2>6, Zenon DEF User
<1>2. ASSUME NEW p \in Slot, Exiting(p) PROVE G
  <2>1. CASE ExitSched(p)
    <3>1. HeldBy(p) \subseteq {p} /\ pc[p] = "exit_sched"
      BY <2>1, OnlyOwnLock, Zenon DEF ExitSched
    <3>2. Goto(p, "dead")
      BY <2>1, <3>1, Zenon DEF ExitSched, SwitchOut
    <3> QED  BY <1>g, <3>1, <3>2, Zenon
  <2>2. CASE ReparentTest(p)
    <3>1. CASE parent[idx[p]] = p
      BY <1>g, <2>2, <3>1, Zenon DEF ReparentTest
    <3>2. CASE parent[idx[p]] # p
      BY <1>s, <2>2, <3>2, Zenon DEF ReparentTest
    <3> QED  BY <3>1, <3>2, Zenon
  <2>3. CASE ExitWakeInit(p)
    BY <1>g, <2>3, Zenon DEF ExitWakeInit
  <2>4. CASE ExitCopyParent(p)
    BY <1>g, <2>4, Zenon DEF ExitCopyParent
  <2>5. CASE ExitLockParent(p)
    BY <1>g, <2>5, Zenon DEF ExitLockParent
  <2>6. CASE ExitLockSelf(p)
    BY <1>g, <2>6, Zenon DEF ExitLockSelf
  <2>7. CASE ReparentChild(p)
    BY <1>g, <2>7, Zenon DEF ReparentChild
  <2>8. CASE ExitFinish(p)
    BY <1>g, <2>8, Zenon DEF ExitFinish
  <2> QED  BY <1>2, <2>1, <2>2, <2>3, <2>4, <2>5, <2>6, <2>7, <2>8, Zenon DEF Exiting
<1>3. ASSUME NEW p \in Slot, Waiting(p) PROVE G
  <2>1. CASE WaitEnter(p)
    BY <1>g, <2>1, Zenon DEF WaitEnter
  <2>2. CASE WaitTest(p)
    <3>1. CASE parent[idx[p]] = p
      BY <1>g, <2>2, <3>1, Zenon DEF WaitTest
    <3>2. CASE parent[idx[p]] # p
      BY <1>s, <2>2, <3>2, Zenon DEF WaitTest
    <3> QED  BY <3>1, <3>2, Zenon
  <2>3. CASE WaitChild(p)
    BY <1>g, <2>3, Zenon DEF WaitChild, WaitReturn
  <2>4. CASE WaitFinish(p)
    <3>0. pc[p] = "wait_scan"
      BY <2>4, Zenon DEF WaitFinish
    <3>1. Goto(p, "user") \/ SwitchOut(p, "SLEEPING", "wait_enter")
      BY <2>4, Zenon DEF WaitFinish, WaitReturn
    <3>2. CASE Goto(p, "user")
      BY <1>g, <3>0, <3>2, Zenon
    <3>3. CASE SwitchOut(p, "SLEEPING", "wait_enter")
      <4>1. "wait_enter" \notin ExitedPC /\ pc[p] \notin ExitedPC
        BY <3>0, Zenon
      <4> QED  BY <1>w, <3>3, <4>1, Zenon
    <3> QED  BY <3>1, <3>2, <3>3, Zenon
  <2> QED  BY <1>3, <2>1, <2>2, <2>3, <2>4, Zenon DEF Waiting
<1>4. ASSUME NEW p \in Slot, TicksTest(p) PROVE G
  BY <1>4, <1>g, Zenon DEF TicksTest
<1>5. ASSUME NEW p \in Slot, TicksSleep(p) PROVE G
  <2>1. SwitchOut(p, "SLEEPING", "ticks_test") /\ pc[p] = "ticks_sleep"
    BY <1>5, Zenon DEF TicksSleep
  <2>2. "ticks_test" \notin ExitedPC /\ pc[p] \notin ExitedPC
    BY <2>1, Zenon
  <2> QED  BY <1>w, <2>1, <2>2, Zenon
<1>6. ASSUME NEW p \in Slot, Timer(p) PROVE G
  <2>1. HeldBy(p) = {}
    BY <1>6, Zenon DEF Timer, Interrupted, IntrOn
  <2>2. Goto(p, pc[p])
    BY <1>6, <2>1, Zenon DEF Timer, SwitchOut
  <2>3. \A r \in Slot : pc'[r] = pc[r]
    BY <2>2, Zenon DEF Goto, IInv, TypeOK
  <2> QED  BY <1>s, <2>3, Zenon
<1>7. ASSUME NEW p \in Slot, Tick(p) \/ \E c \in CPU : SchedRun(c, p) PROVE G
  BY <1>7, <1>s, Zenon DEF Tick, SchedRun
<1>8. CASE UNCHANGED vars
  BY <1>8, <1>s, Zenon DEF vars
<1> QED  BY <1>1, <1>2, <1>3, <1>4, <1>5, <1>6, <1>7, <1>8, Zenon DEF Next, Kernel

(* Only kill() and freeproc() write p->killed. *)
LEMMA KilledInv == KilledType /\ [Next]_vars => KilledType'
<1> SUFFICES ASSUME KilledType, [Next]_vars PROVE KilledType'
  BY Zenon
<1>1. ASSUME NEW p \in Slot, NEW q \in Slot, ForkNoMemory(p, q) PROVE KilledType'
  BY <1>1, Zenon DEF ForkNoMemory, KilledType
<1>2. ASSUME NEW p \in Slot, NEW k \in KillArgs, NEW q \in Slot, Kill(p, k, q) PROVE KilledType'
  BY <1>2, Zenon DEF Kill, KilledType
<1>3. \/ \E p, q \in Slot : ForkNoMemory(p, q)
      \/ \E p, q \in Slot : \E k \in KillArgs : Kill(p, k, q)
      \/ UNCHANGED killed
  <2>1. ASSUME NEW p \in Slot, User(p)
        PROVE  \/ \E q \in Slot : ForkNoMemory(p, q)
               \/ \E q \in Slot : \E k \in KillArgs : Kill(p, k, q)
               \/ UNCHANGED killed
    BY <2>1, Zenon DEF User, Fork, ForkNoTrapframe, SysSleep, SysWait, Exit, table
  <2>2. ASSUME NEW p \in Slot, Exiting(p) PROVE UNCHANGED killed
    BY <2>2, Zenon DEF Exiting, ExitWakeInit, ExitCopyParent, ExitLockParent, ExitLockSelf,
       ReparentTest, ReparentChild, ExitFinish, ExitSched, table
  <2>3. ASSUME NEW p \in Slot, Waiting(p) \/ TicksTest(p) \/ TicksSleep(p) \/ Timer(p) \/ Tick(p)
        PROVE  UNCHANGED killed
    BY <2>3, Zenon DEF Waiting, WaitEnter, WaitTest, WaitChild, WaitFinish, TicksTest, TicksSleep,
       Timer, Tick, table
  <2>4. ASSUME NEW c \in CPU, NEW p \in Slot, SchedRun(c, p) PROVE UNCHANGED killed
    BY <2>4, Zenon DEF SchedRun
  <2>5. CASE UNCHANGED vars
    BY <2>5, Zenon DEF vars, table
  <2> QED  BY <2>1, <2>2, <2>3, <2>4, <2>5, Zenon DEF Next, Kernel
<1>4. CASE UNCHANGED killed
  BY <1>4, Zenon DEF KilledType
<1> QED  BY <1>1, <1>2, <1>3, <1>4, Zenon

(* A zombie stays one, since nobody frees it; a process that kill() marked *)
(* stays marked; and who has not yet got to reparent() keeps its children. *)
LEMMA NewsStays ==
  ASSUME IInv, KilledType, [Next]_vars
  PROVE  /\ \A r \in Slot : state[r] = "ZOMBIE" => state'[r] = "ZOMBIE"
         /\ \A r \in Slot : killed[r] = 1 /\ state[r] # "UNUSED" => killed'[r] = 1
         /\ \A r, q \in Slot : parent[r] = q /\ pc[q] # "reparent_lock" => parent'[r] = q
<1> DEFINE Z == \A r \in Slot : state[r] = "ZOMBIE" => state'[r] = "ZOMBIE"
           K == \A r \in Slot : killed[r] = 1 /\ state[r] # "UNUSED" => killed'[r] = 1
           P == \A r, q \in Slot : parent[r] = q /\ pc[q] # "reparent_lock" => parent'[r] = q
<1>s. ASSUME UNCHANGED <<state, killed, parent>> PROVE Z /\ K /\ P
  BY <1>s, Zenon
<1>w. ASSUME NEW p \in Slot, NEW s, NEW l, SwitchOut(p, s, l), UNCHANGED <<killed, parent>>,
             state[p] = "ZOMBIE" => s = "ZOMBIE"
      PROVE  Z /\ K /\ P
  <2>1. Z
    BY <1>w, SwitchState, Zenon
  <2> QED  BY <1>w, <2>1, Zenon
<1>1. ASSUME NEW p \in Slot, User(p) PROVE Z /\ K /\ P
  <2>1. ASSUME NEW q \in Slot, Fork(p, q) PROVE Z /\ K /\ P
    <3>1. state[q] = "UNUSED" /\ parent[q] = None
      BY <2>1, Zenon DEF Fork, IInv, UnusedSlot
    <3>2. /\ \A r \in Slot : r # q => state'[r] = state[r] /\ parent'[r] = parent[r]
          /\ killed' = killed
      BY <2>1, Zenon DEF Fork, IInv, TypeOK
    <3> QED  BY <3>1, <3>2
  <2>2. ASSUME NEW q \in Slot, ForkNoTrapframe(p, q) PROVE Z /\ K /\ P
    BY <1>s, <2>2, Zenon DEF ForkNoTrapframe
  <2>3. ASSUME NEW q \in Slot, ForkNoMemory(p, q) PROVE Z /\ K /\ P
    <3>1. state[q] = "UNUSED" /\ parent[q] = None
      BY <2>3, Zenon DEF ForkNoMemory, IInv, UnusedSlot
    <3>2. \A r \in Slot : r # q => parent'[r] = parent[r]
      BY <2>3, Zenon DEF ForkNoMemory, IInv, TypeOK
    <3>3. \A r \in Slot : r # q => killed'[r] = killed[r]
      BY <2>3, Zenon DEF ForkNoMemory, KilledType
    <3>4. state' = state
      BY <2>3, Zenon DEF ForkNoMemory
    <3> QED  BY <3>1, <3>2, <3>3, <3>4
  <2>4. ASSUME NEW k \in KillArgs, NEW q \in Slot, Kill(p, k, q) PROVE Z /\ K /\ P
    <3>1. Z
      BY <2>4, Zenon DEF Kill, IInv, TypeOK
    <3>2. K
      BY <2>4, Zenon DEF Kill, KilledType
    <3>3. P
      BY <2>4, Zenon DEF Kill
    <3> QED  BY <3>1, <3>2, <3>3, Zenon
  <2>5. CASE SysSleep(p) \/ SysWait(p) \/ Exit(p)
    BY <1>s, <2>5, Zenon DEF SysSleep, SysWait, Exit, table
  <2> QED  BY <1>1, <2>1, <2>2, <2>3, <2>4, <2>5, Zenon DEF User
<1>2. ASSUME NEW p \in Slot, Exiting(p) PROVE Z /\ K /\ P
  <2>1. CASE ExitWakeInit(p)
    <3>1. Z
      BY <2>1, Zenon DEF ExitWakeInit, Wakeup1, IInv, TypeOK
    <3>2. UNCHANGED <<killed, parent>>
      BY <2>1, Zenon DEF ExitWakeInit
    <3> QED  BY <3>1, <3>2, Zenon
  <2>2. CASE ExitFinish(p)
    <3>1. Z
      BY <2>2, Zenon DEF ExitFinish, Wakeup1, IInv, TypeOK
    <3>2. UNCHANGED <<killed, parent>>
      BY <2>2, Zenon DEF ExitFinish
    <3> QED  BY <3>1, <3>2, Zenon
  <2>3. CASE ReparentChild(p)
    <3>1. idx[p] \in Slot /\ parent[idx[p]] = p /\ pc[p] = "reparent_lock"
      BY <2>3, Zenon DEF ReparentChild, IInv, IdxInTable, ParentStable
    <3>2. \A r \in Slot : r # idx[p] => parent'[r] = parent[r]
      BY <2>3, Zenon DEF ReparentChild, IInv, TypeOK
    <3>3. UNCHANGED <<killed, state>>
      BY <2>3, Zenon DEF ReparentChild
    <3> QED  BY <3>1, <3>2, <3>3, Zenon
  <2>4. CASE ExitSched(p)
    BY <1>w, <2>4, Zenon DEF ExitSched
  <2>5. CASE ExitCopyParent(p) \/ ExitLockParent(p) \/ ExitLockSelf(p) \/ ReparentTest(p)
    BY <1>s, <2>5, Zenon DEF ExitCopyParent, ExitLockParent, ExitLockSelf, ReparentTest, table
  <2> QED  BY <1>2, <2>1, <2>2, <2>3, <2>4, <2>5, Zenon DEF Exiting
<1>3. ASSUME NEW p \in Slot, WaitEnter(p) \/ WaitTest(p) \/ WaitChild(p) \/ TicksTest(p)
      PROVE  Z /\ K /\ P
  BY <1>3, <1>s, Zenon DEF WaitEnter, WaitTest, WaitChild, TicksTest, table
<1>4. ASSUME NEW p \in Slot, WaitFinish(p) \/ TicksSleep(p) \/ Timer(p) PROVE Z /\ K /\ P
  <2>1. state[p] = "RUNNING"
    <3>1. CASE WaitFinish(p) \/ TicksSleep(p)
      BY <3>1, Running, Zenon DEF WaitFinish, TicksSleep
    <3>2. CASE Timer(p)
      BY <3>2, Running DEF Timer, Interrupted, IntrOn, HeldBy, IInv, LocksHeld
    <3> QED  BY <1>4, <3>1, <3>2, Zenon
  <2>2. UNCHANGED <<killed, parent>>
    BY <1>4, Zenon DEF WaitFinish, TicksSleep, Timer
  <2>3. \/ UNCHANGED state
        \/ SwitchOut(p, "SLEEPING", "wait_enter") \/ SwitchOut(p, "SLEEPING", "ticks_test")
        \/ SwitchOut(p, "RUNNABLE", pc[p])
    BY <1>4, Zenon DEF WaitFinish, TicksSleep, Timer
  <2> QED  BY <1>s, <1>w, <2>1, <2>2, <2>3, Zenon
<1>5. ASSUME NEW p \in Slot, Tick(p) PROVE Z /\ K /\ P
  <2>1. Z
    BY <1>5, Zenon DEF Tick, IInv, TypeOK
  <2> QED  BY <1>5, <2>1, Zenon DEF Tick
<1>8. ASSUME NEW c \in CPU, NEW p \in Slot, SchedRun(c, p) PROVE Z /\ K /\ P
  <2>1. Z
    BY <1>8, Zenon DEF SchedRun, IInv, TypeOK
  <2> QED  BY <1>8, <2>1, Zenon DEF SchedRun
<1>6. ASSUME UNCHANGED vars PROVE Z /\ K /\ P
  BY <1>6, <1>s, Zenon DEF vars, table
<1> SUFFICES Z /\ K /\ P
  BY Zenon
<1> HIDE DEF Z, K, P
<1>7. ASSUME NEW p \in Slot, Kernel(p) PROVE Z /\ K /\ P
  BY <1>2, <1>3, <1>4, <1>7, Zenon DEF Kernel, Waiting
<1> QED  BY <1>1, <1>4, <1>5, <1>6, <1>7, <1>8, Zenon DEF Next

(* original_parent changes only where exit() reads it, and at its end. *)
LEMMA OparSteps ==
  ASSUME IInv, [Next]_vars, NEW r \in Slot, pc'[r] \in HasOpar
  PROVE  \/ pc[r] \in HasOpar /\ opar'[r] = opar[r]
         \/ opar'[r] = parent'[r]
<1> DEFINE G == (pc[r] \in HasOpar /\ opar'[r] = opar[r]) \/ opar'[r] = parent'[r]
<1> SUFFICES G
  BY Zenon
<1> USE DEF HasOpar
<1>g. ASSUME NEW p \in Slot, NEW l, Goto(p, l), l \notin HasOpar \/ pc[p] \in HasOpar,
             UNCHANGED opar
      PROVE  G
  <2>1. pc'[r] = IF r = p THEN l ELSE pc[r]
    BY <1>g, Zenon DEF Goto, IInv, TypeOK
  <2> QED  BY <1>g, <2>1, Zenon
<1>s. ASSUME pc'[r] = pc[r], UNCHANGED opar PROVE G
  BY <1>s, Zenon
<1>w. ASSUME NEW p \in Slot, NEW s, NEW l, SwitchOut(p, s, l), l \notin HasOpar, UNCHANGED opar
      PROVE  G
  <2>1. Goto(p, l) \/ Goto(p, "panic")
    BY <1>w, Zenon DEF SwitchOut
  <2> QED  BY <1>w, <1>g, <2>1, Zenon
<1>c. ASSUME NEW p \in Slot, ExitCopyParent(p) PROVE G
  <2>1. /\ pc'[r] = IF r = p THEN "exit_lockparent" ELSE pc[r]
        /\ opar'[r] = IF r = p THEN parent[p] ELSE opar[r]
    BY <1>c, Zenon DEF ExitCopyParent, Goto, IInv, TypeOK
  <2> QED  BY <1>c, <2>1, Zenon DEF ExitCopyParent, table
<1>f. ASSUME NEW p \in Slot, ExitFinish(p) PROVE G
  <2>1. /\ pc'[r] = IF r = p THEN "exit_sched" ELSE pc[r]
        /\ r # p => opar'[r] = opar[r]
    BY <1>f, Zenon DEF ExitFinish, Goto, IInv, TypeOK
  <2> QED  BY <2>1, Zenon
<1> HIDE DEF G
<1>1. ASSUME NEW p \in Slot, User(p) PROVE G
  <2>1. ASSUME NEW q \in Slot, Fork(p, q) PROVE G
    <3>1. pc[q] = "user"
      BY <2>1, Zenon DEF Fork, IInv, UnusedSlot
    <3>2. pc'[r] = pc[r] /\ UNCHANGED opar
      BY <2>1, <3>1, Zenon DEF Fork, IInv, TypeOK, locals
    <3> QED  BY <1>s, <3>2, Zenon
  <2>2. ASSUME NEW q \in Slot, ForkNoTrapframe(p, q) \/ ForkNoMemory(p, q) PROVE G
    BY <1>s, <2>2, Zenon DEF ForkNoTrapframe, ForkNoMemory, locals
  <2>3. ASSUME NEW k \in KillArgs, NEW q \in Slot, Kill(p, k, q) PROVE G
    BY <1>s, <2>3, Zenon DEF Kill, locals
  <2>4. CASE SysSleep(p)
    BY <1>g, <2>4, Zenon DEF SysSleep, locals
  <2>5. CASE SysWait(p)
    BY <1>g, <2>5, Zenon DEF SysWait
  <2>6. CASE Exit(p)
    BY <1>g, <2>6, Zenon DEF Exit, locals
  <2> QED  BY <1>1, <2>1, <2>2, <2>3, <2>4, <2>5, <2>6, Zenon DEF User
<1>2. ASSUME NEW p \in Slot, Exiting(p) PROVE G
  <2>1. CASE ExitWakeInit(p)
    BY <1>g, <2>1, Zenon DEF ExitWakeInit, locals
  <2>2. CASE ExitLockParent(p)
    BY <1>g, <2>2, Zenon DEF ExitLockParent, locals
  <2>3. CASE ExitLockSelf(p)
    BY <1>g, <2>3, Zenon DEF ExitLockSelf
  <2>4. CASE ReparentTest(p)
    BY <1>g, <1>s, <2>4, Zenon DEF ReparentTest
  <2>5. CASE ReparentChild(p)
    BY <1>g, <2>5, Zenon DEF ReparentChild
  <2>6. CASE ExitSched(p)
    BY <1>w, <2>6, Zenon DEF ExitSched, locals
  <2> QED  BY <1>2, <1>c, <1>f, <2>1, <2>2, <2>3, <2>4, <2>5, <2>6, Zenon DEF Exiting
<1>3. ASSUME NEW p \in Slot, Waiting(p) PROVE G
  <2>1. CASE WaitEnter(p)
    BY <1>g, <2>1, Zenon DEF WaitEnter
  <2>2. CASE WaitTest(p)
    BY <1>g, <1>s, <2>2, Zenon DEF WaitTest
  <2>3. CASE WaitChild(p)
    BY <1>g, <2>3, Zenon DEF WaitChild, WaitReturn
  <2>4. CASE WaitFinish(p)
    <3>1. Goto(p, "user") \/ SwitchOut(p, "SLEEPING", "wait_enter")
      BY <2>4, Zenon DEF WaitFinish, WaitReturn
    <3>2. UNCHANGED opar
      BY <2>4, Zenon DEF WaitFinish
    <3>3. "user" \notin HasOpar /\ "wait_enter" \notin HasOpar
      BY Zenon
    <3> QED  BY <1>g, <1>w, <3>1, <3>2, <3>3, Zenon
  <2> QED  BY <1>3, <2>1, <2>2, <2>3, <2>4, Zenon DEF Waiting
<1>4. ASSUME NEW p \in Slot, TicksTest(p) PROVE G
  BY <1>4, <1>g, Zenon DEF TicksTest, locals
<1>5. ASSUME NEW p \in Slot, TicksSleep(p) PROVE G
  <2>1. SwitchOut(p, "SLEEPING", "ticks_test") /\ UNCHANGED opar
    BY <1>5, Zenon DEF TicksSleep, locals
  <2>2. "ticks_test" \notin HasOpar
    BY Zenon
  <2> QED  BY <1>w, <2>1, <2>2, Zenon
<1>6. ASSUME NEW p \in Slot, Timer(p) PROVE G
  <2>1. HeldBy(p) = {}
    BY <1>6, Zenon DEF Timer, Interrupted, IntrOn
  <2>2. Goto(p, pc[p]) /\ UNCHANGED opar
    BY <1>6, <2>1, Zenon DEF Timer, SwitchOut, locals
  <2>3. pc'[r] = pc[r]
    BY <2>2, Zenon DEF Goto, IInv, TypeOK
  <2> QED  BY <1>s, <2>2, <2>3, Zenon
<1>7. ASSUME NEW p \in Slot, Tick(p) \/ \E c \in CPU : SchedRun(c, p) PROVE G
  BY <1>7, <1>s, Zenon DEF Tick, SchedRun, locals
<1>8. CASE UNCHANGED vars
  BY <1>8, <1>s, Zenon DEF vars, locals
<1> QED  BY <1>1, <1>2, <1>3, <1>4, <1>5, <1>6, <1>7, <1>8, Zenon DEF Next, Kernel

(* A child whose parent is no longer the one that its exit() found was     *)
(* handed to init by that one, which is exiting.                           *)
LEMMA OparInv ==
  ASSUME IInv, Holders, KilledType, OparKnown, [Next]_vars
  PROVE  OparKnown'
<1> SUFFICES ASSUME NEW r \in Slot, pc'[r] \in HasOpar, parent'[r] # opar'[r]
             PROVE  pc'[opar'[r]] \in LatePC
  BY Zenon DEF OparKnown, LatePC
<1>1. pc[r] \in HasOpar /\ opar'[r] = opar[r]
  BY OparSteps, Zenon
<1>2. opar[r] \in Slot
  BY <1>1, Zenon DEF HasOpar, IInv, LocksHeld
<1>3. pc[opar[r]] \in LatePC
  <2>1. CASE parent[r] = opar[r]
    BY <1>1, <1>2, <2>1, NewsStays, Zenon DEF LatePC
  <2>2. CASE parent[r] # opar[r]
    BY <1>1, <2>2, Zenon DEF OparKnown, LatePC
  <2> QED  BY <2>1, <2>2, Zenon
<1> QED  BY <1>1, <1>2, <1>3, ExitGoesOn, Zenon
-----------------------------------------------------------------------------
(* The depth of wait(). *)

(* init never gets into exit(). *)
LEMMA InitStays ==
  ASSUME IInv, Holders, initproc \notin Exited, [Next]_vars
  PROVE  initproc \notin Exited'
<1>1. initproc \in Slot /\ pc[initproc] \notin ExitedPC
  BY DEF Exited
<1>2. pc[initproc] # "exit_wakeinit"
  BY <1>1, Zenon DEF IInv, HasParent
<1> QED  BY <1>1, <1>2, ExitGoesOn, Zenon DEF Exited

(* What makes a wait() return stays true until it returns. *)
LEMMA NewsKept ==
  ASSUME IInv, KilledType, [Next]_vars, NEW r \in Slot,
         pc[r] \in ScanPC \cup {"wait_enter"}, idx'[r] = idx[r], WillReturn(r)
  PROVE  WillReturn(r)'
<1>1. state[r] # "UNUSED" /\ pc[r] # "reparent_lock"
  BY Zenon DEF ScanPC, IInv, UnusedSlot
<1>2. CASE killed[r] = 1
  BY <1>1, <1>2, NewsStays, Zenon DEF WillReturn
<1>3. ASSUME NEW q \in Slot, idx[r] <= q, parent[q] = r, state[q] = "ZOMBIE"
      PROVE  WillReturn(r)'
  BY <1>1, <1>3, NewsStays, Zenon DEF WillReturn
<1> QED  BY <1>2, <1>3, Zenon DEF WillReturn

(* The others do not disturb the depth of a wait(). *)
LEMMA DepthFrame ==
  ASSUME IInv, KilledType, LimitStep, [Next]_vars, NEW r \in Slot, DepthOf(r),
         pc'[r] = pc[r], idx'[r] = idx[r], depth'[r] = depth[r], chan'[r] = chan[r],
         state'[r] = state[r]
  PROVE  DepthOf(r)'
<1>1. Limit(r) \in Nat /\ Limit(r)' \in Nat /\ Limit(r) <= Limit(r)'
  BY Zenon DEF LimitStep
<1>2. pc[r] \in ScanPC \cup {"wait_enter"} /\ WillReturn(r) => WillReturn(r)'
  BY NewsKept, Zenon
<1> QED  BY <1>1, <1>2 DEF DepthOf, ScanPC

(* A process outside wait() is not on any wait channel and has no depth. *)
LEMMA DepthOutside ==
  ASSUME NEW r \in Slot, pc'[r] \notin ScanPC \cup {"wait_enter"}, depth'[r] = 0, chan'[r] # r,
         pc'[r] \in {"reparent", "reparent_lock", "panic"} \/ idx'[r] = 1
  PROVE  DepthOf(r)'
  BY DEF DepthOf, ScanPC

(* Who is woken up in wait() has something to find, or counts one more.    *)
LEMMA DepthWoken ==
  ASSUME IInv, KilledType, LimitStep, [Next]_vars, NEW r \in Slot, DepthOf(r),
         pc'[r] = pc[r], idx'[r] = idx[r], depth'[r] = depth[r], chan'[r] = chan[r],
         state[r] = "SLEEPING", state'[r] = "RUNNABLE",
         pc[r] = "wait_enter" => WillReturn(r)' \/ Limit(r) < Limit(r)'
  PROVE  DepthOf(r)'
<1>1. Limit(r) \in Nat /\ Limit(r)' \in Nat /\ Limit(r) <= Limit(r)'
  BY Zenon DEF LimitStep
<1>2. pc[r] \in ScanPC /\ WillReturn(r) => WillReturn(r)'
  BY NewsKept, Zenon
<1> QED  BY <1>1, <1>2 DEF DepthOf, ScanPC

(* A step of p that moves only p, outside wait(). *)
LEMMA DepthMove ==
  ASSUME IInv, Holders, DepthInv, LimitStep, [Next]_vars, NEW p \in Slot,
         pc[p] \notin ScanPC \cup {"wait_enter"}, pc'[p] \notin ScanPC \cup {"wait_enter"},
         UNCHANGED depth, chan'[p] # p,
         pc'[p] \in {"reparent", "reparent_lock", "panic"} \/ idx'[p] = 1,
         \A r \in Slot : r # p => /\ pc'[r] = pc[r] /\ idx'[r] = idx[r]
                                  /\ chan'[r] = chan[r] /\ state'[r] = state[r]
  PROVE  \A r \in Slot : DepthOf(r)'
<1>1. depth[p] = 0
  BY Zenon DEF DepthInv, DepthOf
<1>2. DepthOf(p)'
  BY <1>1, DepthOutside, Zenon
<1>3. ASSUME NEW r \in Slot, r # p PROVE DepthOf(r)'
  BY <1>3, DepthFrame, Zenon DEF DepthInv
<1> QED  BY <1>2, <1>3, Zenon

(* kill() wakes up a process that will see p->killed. *)
LEMMA DepthKill ==
  ASSUME IInv, Holders, DepthInv, LimitStep, [Next]_vars, NEW p \in Slot, NEW k \in KillArgs,
         NEW q \in Slot, Kill(p, k, q)
  PROVE  \A r \in Slot : DepthOf(r)'
<1> SUFFICES ASSUME NEW r \in Slot PROVE DepthOf(r)'
  BY Zenon
<1>1. UNCHANGED <<pc, idx, depth, chan>>
  BY Zenon DEF Kill, locals
<1>2. /\ r # q => state'[r] = state[r]
      /\ state[q] # "SLEEPING" => state'[q] = state[q]
      /\ state[q] = "SLEEPING" => state'[q] = "RUNNABLE"
  BY Zenon DEF Kill, IInv, TypeOK
<1>3. WillReturn(q)'
  BY Zenon DEF WillReturn, Kill, DepthInv, KilledType
<1>4. CASE r = q /\ state[q] = "SLEEPING"
  BY <1>1, <1>2, <1>3, <1>4, DepthWoken, Zenon DEF DepthInv
<1>5. CASE ~(r = q /\ state[q] = "SLEEPING")
  BY <1>1, <1>2, <1>5, DepthFrame, Zenon DEF DepthInv
<1> QED  BY <1>4, <1>5, Zenon

(* System calls other than kill(), at their start. *)
LEMMA DepthUser ==
  ASSUME IInv, Holders, DepthInv, LimitStep, [Next]_vars, NEW p \in Slot, User(p)
  PROVE  \A r \in Slot : DepthOf(r)'
<1> DEFINE D == \A r \in Slot : DepthOf(r)'
<1> SUFFICES D
  BY Zenon
<1>o. ASSUME NEW q \in Slot, pc[q] = "user" PROVE depth[q] = 0 /\ idx[q] = 1 /\ chan[q] # q
  BY <1>o, Zenon DEF DepthInv, DepthOf, ScanPC
<1>1. ASSUME NEW q \in Slot, Fork(p, q) PROVE D
  <2>1. pc[q] = "user"
    BY <1>1, Zenon DEF Fork, IInv, UnusedSlot
  <2>2. UNCHANGED <<chan, idx, depth>> /\ pc'[q] = "user"
    BY <1>1, Zenon DEF Fork, locals, IInv, TypeOK
  <2>3. \A r \in Slot : r # q => pc'[r] = pc[r] /\ state'[r] = state[r]
    BY <1>1, Zenon DEF Fork, IInv, TypeOK
  <2> QED  BY <1>o, <2>1, <2>2, <2>3, DepthMove DEF ScanPC
<1>2. ASSUME NEW q \in Slot, ForkNoTrapframe(p, q) PROVE D
  <2>1. UNCHANGED <<chan, idx, depth, pc, state>>
    BY <1>2, Zenon DEF ForkNoTrapframe, locals
  <2> QED  BY <2>1, DepthFrame, Zenon DEF DepthInv
<1>3. ASSUME NEW q \in Slot, ForkNoMemory(p, q) PROVE D
  <2>1. pc[q] = "user"
    BY <1>3, Zenon DEF ForkNoMemory, IInv, UnusedSlot
  <2>2. UNCHANGED <<idx, depth, pc, state>>
    BY <1>3, Zenon DEF ForkNoMemory, locals
  <2>3. chan'[q] # q /\ \A r \in Slot : r # q => chan'[r] = chan[r]
    BY <1>3, Zenon DEF ForkNoMemory, IInv, TypeOK
  <2> QED  BY <1>o, <2>1, <2>2, <2>3, DepthMove DEF ScanPC
<1>4. ASSUME NEW k \in KillArgs, NEW q \in Slot, Kill(p, k, q) PROVE D
  BY <1>4, DepthKill, Zenon
<1>5. ASSUME NEW l, l \notin ScanPC \cup {"wait_enter"}, pc[p] = "user", Goto(p, l),
             UNCHANGED <<chan, idx, depth, state>>
      PROVE  D
  <2>1. pc'[p] = l /\ \A r \in Slot : r # p => pc'[r] = pc[r]
    BY <1>5, Zenon DEF Goto, IInv, TypeOK
  <2> QED  BY <1>o, <1>5, <2>1, DepthMove DEF ScanPC
<1>6. CASE SysSleep(p)
  BY <1>5, <1>6, Zenon DEF SysSleep, Syscall, InUser, table, locals, ScanPC
<1>7. CASE Exit(p)
  BY <1>5, <1>7, Zenon DEF Exit, Syscall, InUser, table, locals, ScanPC
<1>8. CASE SysWait(p)
  <2>1. /\ pc[p] = "user" /\ pc'[p] = "wait_enter"
        /\ UNCHANGED <<state, chan, idx, depth>>
        /\ \A r \in Slot : r # p => pc'[r] = pc[r]
    BY <1>8, Zenon DEF SysWait, Syscall, InUser, Goto, table, IInv, TypeOK
  <2>2. state[p] = "RUNNING"
    BY <1>8, <2>1, Running, Zenon DEF SysWait, Syscall, InUser
  <2>3. 0 < Limit(p)'
    <3>1. Limit(p) \in Nat /\ Limit(p)' \in Nat /\ Limit(p) <= Limit(p)'
      BY Zenon DEF LimitStep
    <3>2. 0 < Limit(p)
      BY Zenon DEF LimitStep
    <3> QED  BY <3>1, <3>2
  <2>4. DepthOf(p)'
    BY <1>o, <2>1, <2>2, <2>3 DEF DepthOf, ScanPC
  <2>5. ASSUME NEW r \in Slot, r # p PROVE DepthOf(r)'
    BY <2>1, <2>5, DepthFrame, Zenon DEF DepthInv
  <2> QED  BY <2>4, <2>5, Zenon
<1> QED  BY <1>1, <1>2, <1>3, <1>4, <1>6, <1>7, <1>8, Zenon DEF User

(* exit() and its wakeups. *)
LEMMA DepthExit ==
  ASSUME IInv, Holders, OparKnown, DepthInv, LimitStep, [Next]_vars, NEW p \in Slot, Exiting(p)
  PROVE  \A r \in Slot : DepthOf(r)'
<1> DEFINE D == \A r \in Slot : DepthOf(r)'
<1> SUFFICES D
  BY Zenon
<1> DEFINE Early == {"exit_wakeinit", "exit_copy", "exit_lockparent", "exit_lockself", "exit_sched"}
<1>p. /\ pc[p] \notin ScanPC \cup {"wait_enter"} /\ depth[p] = 0 /\ chan[p] # p
      /\ pc[p] \in Early => idx[p] = 1
  <2>1. pc[p] \in Early \cup {"reparent", "reparent_lock"}
    BY Zenon DEF Exiting, ExitWakeInit, ExitCopyParent, ExitLockParent, ExitLockSelf, ReparentTest,
       ReparentChild, ExitFinish, ExitSched
  <2> QED  BY <2>1, Zenon DEF DepthInv, DepthOf, ScanPC
<1>m. ASSUME NEW l \in Early \cup {"reparent", "reparent_lock", "dead"}, Goto(p, l),
             UNCHANGED <<chan, state, depth>>,
             l \in {"reparent", "reparent_lock"} \/ idx'[p] = 1,
             \A r \in Slot : r # p => idx'[r] = idx[r]
      PROVE  D
  <2>1. pc'[p] = l /\ \A r \in Slot : r # p => pc'[r] = pc[r]
    BY <1>m, Zenon DEF Goto, IInv, TypeOK
  <2>2. l \notin ScanPC \cup {"wait_enter"}
    BY <1>m, Zenon DEF ScanPC
  <2> HIDE DEF Early
  <2> QED  BY <1>p, <1>m, <2>1, <2>2, DepthMove
<1>1. CASE ExitWakeInit(p)
  <2>1. /\ UNCHANGED <<idx, depth, chan>> /\ pc[p] = "exit_wakeinit" /\ pc'[p] = "exit_copy"
        /\ \A r \in Slot : r # p => pc'[r] = pc[r]
        /\ \A r \in Slot : r # initproc => state'[r] = state[r]
        /\ \/ state'[initproc] = state[initproc]
           \/ state[initproc] = "SLEEPING" /\ state'[initproc] = "RUNNABLE"
    BY <1>1 DEF ExitWakeInit, Wakeup1, Goto, locals, IInv, TypeOK
  <2>2. p # initproc
    BY <2>1, Zenon DEF IInv, HasParent
  <2>3. DepthOf(p)'
    BY <1>p, <2>1, DepthOutside, Zenon DEF ScanPC
  <2>4. ASSUME NEW r \in Slot, r # p, state'[r] = state[r] PROVE DepthOf(r)'
    BY <2>1, <2>4, DepthFrame, Zenon DEF DepthInv
  <2>5. CASE state'[initproc] # state[initproc]
    <3>1. Limit(initproc) < Limit(initproc)'
      BY <2>1, Zenon DEF LimitStep
    <3>2. DepthOf(initproc)'
      BY <2>1, <2>2, <2>5, <3>1, DepthWoken DEF DepthInv
    <3> QED  BY <2>1, <2>3, <2>4, <3>2, Zenon
  <2> QED  BY <2>1, <2>3, <2>4, <2>5, Zenon
<1>2. CASE ExitCopyParent(p)
  BY <1>2, <1>m, <1>p, Zenon DEF ExitCopyParent, table
<1>3. CASE ExitLockParent(p)
  BY <1>3, <1>m, <1>p, Zenon DEF ExitLockParent, table, locals
<1>4. CASE ExitLockSelf(p)
  <2>1. \A r \in Slot : r # p => idx'[r] = idx[r]
    BY <1>4, Zenon DEF ExitLockSelf, IInv, TypeOK
  <2> QED  BY <1>4, <1>m, <2>1, Zenon DEF ExitLockSelf, table
<1>5. CASE ReparentTest(p)
  <2>1. \A r \in Slot : r # p => idx'[r] = idx[r]
    BY <1>5, Zenon DEF ReparentTest, IInv, TypeOK
  <2>2. Goto(p, "reparent_lock") \/ Goto(p, "reparent")
    BY <1>5 DEF ReparentTest, Goto, IInv, TypeOK
  <2>3. UNCHANGED <<chan, state, depth>>
    BY <1>5, Zenon DEF ReparentTest, table
  <2> QED  BY <1>m, <2>1, <2>2, <2>3, Zenon
<1>6. CASE ReparentChild(p)
  <2>1. \A r \in Slot : r # p => idx'[r] = idx[r]
    BY <1>6, Zenon DEF ReparentChild, IInv, TypeOK
  <2> QED  BY <1>6, <1>m, <2>1, Zenon DEF ReparentChild
<1>7. CASE ExitFinish(p)
  <2>0. opar[p] \in Slot
    BY <1>7, Zenon DEF ExitFinish, IInv, LocksHeld
  <2>1. PICK q \in Slot : q = opar[p] /\ q # p /\ pc[p] = "reparent"
    BY <1>7, <2>0, Zenon DEF ExitFinish, IInv, LocksHeld
  <2>2. /\ UNCHANGED <<depth, chan, parent>> /\ pc'[p] = "exit_sched" /\ idx'[p] = 1
        /\ \A r \in Slot : r # p => pc'[r] = pc[r] /\ idx'[r] = idx[r]
    BY <1>7, Zenon DEF ExitFinish, Goto, IInv, TypeOK
  <2>3. /\ state'[p] = "ZOMBIE"
        /\ \A r \in Slot : r # p /\ r # q => state'[r] = state[r]
        /\ \/ state'[q] = state[q]
           \/ state[q] = "SLEEPING" /\ state'[q] = "RUNNABLE"
    BY <1>7, <2>1, Zenon DEF ExitFinish, Wakeup1, IInv, TypeOK
  <2>4. DepthOf(p)'
    BY <1>p, <2>2, DepthOutside, Zenon DEF ScanPC
  <2>5. ASSUME NEW r \in Slot, r # p, state'[r] = state[r] PROVE DepthOf(r)'
    BY <2>2, <2>5, DepthFrame, Zenon DEF DepthInv
  <2>6. ASSUME pc[q] = "wait_enter" PROVE WillReturn(q)'
    <3>1. parent[p] = q
      BY <2>1, <2>6, Zenon DEF OparKnown, HasOpar
    <3>2. idx[q] = 1
      BY <2>1, <2>6, Zenon DEF DepthInv, DepthOf, ScanPC
    <3> QED  BY <2>1, <2>2, <2>3, <3>1, <3>2 DEF WillReturn
  <2>7. CASE state'[q] # state[q]
    <3>1. DepthOf(q)'
      BY <2>1, <2>2, <2>3, <2>6, <2>7, DepthWoken, Zenon DEF DepthInv
    <3> QED  BY <2>3, <2>4, <2>5, <3>1, Zenon
  <2> QED  BY <2>3, <2>4, <2>5, <2>7, Zenon
<1>8. CASE ExitSched(p)
  <2>1. HeldBy(p) \subseteq {p}
    BY <1>8, OnlyOwnLock, Zenon DEF ExitSched
  <2>2. Goto(p, "dead") /\ UNCHANGED <<chan, idx, depth>> /\ pc[p] = "exit_sched"
    BY <1>8, <2>1, Zenon DEF ExitSched, SwitchOut, locals
  <2>3. state' = state
    BY <1>8, <2>1 DEF ExitSched, SwitchOut, IInv, TypeOK
  <2> QED  BY <1>m, <1>p, <2>2, <2>3, Zenon
<1> QED  BY <1>1, <1>2, <1>3, <1>4, <1>5, <1>6, <1>7, <1>8, Zenon DEF Exiting

(* wait() itself: it does not pass the zombie that it is to find. *)
LEMMA DepthWait ==
  ASSUME IInv, Holders, DepthInv, LimitStep, [Next]_vars, NEW p \in Slot, Waiting(p)
  PROVE  \A r \in Slot : DepthOf(r)'
<1> DEFINE D == \A r \in Slot : DepthOf(r)'
<1> SUFFICES D
  BY Zenon
<1>l. Limit(p) \in Nat /\ Limit(p)' \in Nat /\ Limit(p) <= Limit(p)'
  BY Zenon DEF LimitStep
<1>d. depth[p] \in Nat /\ DepthOf(p) /\ idx[p] \in 1 .. NPROC + 1
  BY DEF DepthInv, DepthOf, IInv, TypeOK
<1>r. OnCpu(p) /\ pc[p] \in ScanPC \cup {"wait_enter"} /\ state[p] = "RUNNING" /\ chan[p] # p
  <2>1. OnCpu(p) /\ pc[p] \in ScanPC \cup {"wait_enter"}
    BY Zenon DEF Waiting, WaitEnter, WaitTest, WaitChild, WaitFinish, ScanPC
  <2>2. state[p] = "RUNNING"
    BY <2>1, Running, Zenon DEF ScanPC
  <2> QED  BY <1>d, <2>1, <2>2, Zenon DEF DepthOf
<1>o. ASSUME DepthOf(p)',
             \A r \in Slot : r # p => /\ pc'[r] = pc[r] /\ idx'[r] = idx[r]
                                      /\ depth'[r] = depth[r]
                                      /\ chan'[r] = chan[r] /\ state'[r] = state[r]
      PROVE  D
  <2>1. ASSUME NEW r \in Slot, r # p PROVE DepthOf(r)'
    BY <1>o, <2>1, DepthFrame, Zenon DEF DepthInv
  <2> QED  BY <1>o, <2>1, Zenon
<1>n. killed' = killed /\ parent' = parent
  BY Zenon DEF Waiting, WaitEnter, WaitTest, WaitChild, WaitFinish, table
<1>1. CASE WaitEnter(p)
  <2>1. /\ pc[p] = "wait_enter" /\ pc'[p] = "wait_scan" /\ idx[p] = 1 /\ idx'[p] = 1
        /\ UNCHANGED <<chan, state>>
    BY <1>1, <1>d, Zenon DEF WaitEnter, Goto, table, IInv, TypeOK, DepthOf, ScanPC
  <2>2. depth'[p] = depth[p] + 1 /\ \A r \in Slot : r # p => depth'[r] = depth[r]
    BY <1>1, Zenon DEF WaitEnter, DepthInv
  <2>3. \A r \in Slot : r # p => pc'[r] = pc[r] /\ idx'[r] = idx[r]
    BY <1>1, Zenon DEF WaitEnter, Goto, IInv, TypeOK
  <2>4. WillReturn(p) => WillReturn(p)'
    BY <2>1, NewsKept, Zenon DEF DepthInv
  <2>5. depth[p] < Limit(p) \/ (depth[p] = Limit(p) /\ WillReturn(p))
    BY <1>d, <1>r, <2>1, Zenon DEF DepthOf
  <2>6. DepthOf(p)'
    BY <1>d, <1>l, <1>r, <2>1, <2>2, <2>4, <2>5 DEF DepthOf, ScanPC
  <2> QED  BY <1>o, <2>1, <2>2, <2>3, <2>6, Zenon
<1>s. ASSUME pc[p] \in ScanPC, pc'[p] \in ScanPC, UNCHANGED <<chan, state, depth>>,
             \A r \in Slot : r # p => pc'[r] = pc[r] /\ idx'[r] = idx[r],
             \/ idx'[p] = idx[p]
             \/ idx'[p] = idx[p] + 1 /\ (parent[idx[p]] # p \/ state[idx[p]] # "ZOMBIE")
      PROVE  D
  <2>1. WillReturn(p) => WillReturn(p)'
    <3>1. CASE killed[p] = 1
      BY <1>n, <3>1, Zenon DEF WillReturn
    <3>2. ASSUME NEW q \in Slot, idx[p] <= q, parent[q] = p, state[q] = "ZOMBIE"
          PROVE  WillReturn(p)'
      <4>1. idx'[p] <= q
        BY <1>d, <1>s, <3>2
      <4> QED  BY <1>n, <1>s, <3>2, <4>1, Zenon DEF WillReturn
    <3> QED  BY <3>1, <3>2, Zenon DEF WillReturn
  <2>2. depth[p] <= Limit(p) \/ (depth[p] = Limit(p) + 1 /\ WillReturn(p))
    BY <1>d, <1>s, Zenon DEF DepthOf
  <2>3. DepthOf(p)'
    BY <1>d, <1>l, <1>r, <1>s, <2>1, <2>2 DEF DepthOf, ScanPC
  <2> QED  BY <1>o, <1>s, <2>3, Zenon
<1>u. ASSUME WaitReturn(p), UNCHANGED <<chan, state>> PROVE D
  <2>1. pc'[p] = "user" /\ idx'[p] = 1 /\ depth'[p] = 0
    BY <1>u, Zenon DEF WaitReturn, WaitForget, Goto, IInv, TypeOK, DepthInv
  <2>2. \A r \in Slot : r # p => pc'[r] = pc[r] /\ idx'[r] = idx[r] /\ depth'[r] = depth[r]
    BY <1>u, Zenon DEF WaitReturn, WaitForget, Goto, IInv, TypeOK, DepthInv
  <2>3. DepthOf(p)'
    BY <1>r, <1>u, <2>1, DepthOutside, Zenon DEF ScanPC
  <2> QED  BY <1>o, <1>u, <2>2, <2>3, Zenon
<1>2. CASE WaitTest(p)
  <2>1. pc[p] \in ScanPC /\ pc'[p] \in ScanPC /\ UNCHANGED <<chan, state, depth>>
    BY <1>2, Zenon DEF WaitTest, Goto, table, ScanPC, IInv, TypeOK
  <2>2. \A r \in Slot : r # p => pc'[r] = pc[r] /\ idx'[r] = idx[r]
    BY <1>2, Zenon DEF WaitTest, Goto, IInv, TypeOK
  <2>3. \/ idx'[p] = idx[p]
        \/ idx'[p] = idx[p] + 1 /\ parent[idx[p]] # p
    <3>1. CASE parent[idx[p]] = p
      BY <1>2, <3>1, Zenon DEF WaitTest, Goto
    <3>2. CASE parent[idx[p]] # p
      BY <1>2, <3>2, Zenon DEF WaitTest, IInv, TypeOK
    <3> QED  BY <3>1, <3>2, Zenon
  <2> QED  BY <1>s, <2>1, <2>2, <2>3, Zenon
<1>3. CASE WaitChild(p)
  <2>1. CASE state[idx[p]] = "ZOMBIE"
    BY <1>3, <1>u, <2>1, Zenon DEF WaitChild, table
  <2>2. CASE state[idx[p]] # "ZOMBIE"
    <3>1. pc[p] \in ScanPC /\ pc'[p] \in ScanPC /\ UNCHANGED <<chan, state, depth>>
      BY <1>3, <2>2, Zenon DEF WaitChild, Goto, table, ScanPC, IInv, TypeOK
    <3>2. \A r \in Slot : r # p => pc'[r] = pc[r] /\ idx'[r] = idx[r]
      BY <1>3, <2>2 DEF WaitChild, Goto, IInv, TypeOK
    <3>3. idx'[p] = idx[p] + 1
      BY <1>3, <2>2, Zenon DEF WaitChild, IInv, TypeOK
    <3> QED  BY <1>s, <2>2, <3>1, <3>2, <3>3, Zenon
  <2> QED  BY <2>1, <2>2, Zenon
<1>4. CASE WaitFinish(p)
  <2>1. CASE flags[p] = 1 \/ havekids[p] = 0 \/ killed[p] = 1
    BY <1>4, <1>u, <2>1, Zenon DEF WaitFinish
  <2>2. CASE ~(flags[p] = 1 \/ havekids[p] = 0 \/ killed[p] = 1)
    <3>1. HeldBy(p) \subseteq {p} /\ pc[p] = "wait_scan" /\ idx[p] \notin Slot
      BY <1>4, OnlyOwnLock, Zenon DEF WaitFinish
    <3>2. ~WillReturn(p)
      BY <1>d, <2>2, <3>1 DEF WillReturn
    <3>3. depth[p] <= Limit(p)
      BY <1>d, <3>1, <3>2, Zenon DEF DepthOf, ScanPC
    <3>4. chan' = [chan EXCEPT ![p] = p] /\ SwitchOut(p, "SLEEPING", "wait_enter")
      BY <1>4, <2>2, Zenon DEF WaitFinish
    <3>5. WaitForget(p) /\ depth' = depth
      BY <1>4, <2>2, Zenon DEF WaitFinish
    <3>6. pc'[p] = "wait_enter" /\ state'[p] = "SLEEPING"
      BY <3>1, <3>4 DEF SwitchOut, Goto, IInv, TypeOK
    <3>7. \A r \in Slot : r # p => pc'[r] = pc[r] /\ state'[r] = state[r]
      BY <3>4, SwitchState
    <3>8. /\ chan'[p] = p /\ idx'[p] = 1
          /\ \A r \in Slot : r # p => chan'[r] = chan[r] /\ idx'[r] = idx[r]
      BY <3>4, <3>5, Zenon DEF WaitForget, IInv, TypeOK
    <3>9. DepthOf(p)'
      BY <1>d, <1>l, <3>3, <3>5, <3>6, <3>8 DEF DepthOf, ScanPC
    <3> QED  BY <1>o, <3>5, <3>7, <3>8, <3>9, Zenon
  <2> QED  BY <2>1, <2>2, Zenon
<1> QED  BY <1>1, <1>2, <1>3, <1>4, Zenon DEF Waiting

(* The timer, the ticks and the scheduler. *)
LEMMA DepthSched ==
  ASSUME IInv, Holders, DepthInv, LimitStep, [Next]_vars, NEW p \in Slot,
         \/ TicksTest(p) \/ TicksSleep(p) \/ Timer(p) \/ Tick(p)
         \/ \E c \in CPU : SchedRun(c, p)
  PROVE  \A r \in Slot : DepthOf(r)'
<1> DEFINE D == \A r \in Slot : DepthOf(r)'
<1> SUFFICES D
  BY Zenon
<1>d. DepthOf(p) /\ UNCHANGED <<idx, depth>>
  BY Zenon DEF DepthInv, TicksTest, TicksSleep, Timer, Tick, SchedRun, locals
<1>o. ASSUME DepthOf(p)',
             \A r \in Slot : r # p => pc'[r] = pc[r] /\ chan'[r] = chan[r] /\ state'[r] = state[r]
      PROVE  D
  <2>1. ASSUME NEW r \in Slot, r # p PROVE DepthOf(r)'
    BY <1>d, <1>o, <2>1, DepthFrame, Zenon DEF DepthInv
  <2> QED  BY <1>o, <2>1, Zenon
<1>1. CASE TicksTest(p)
  <2>1. /\ pc[p] = "ticks_test" /\ pc'[p] \in {"user", "ticks_sleep"} /\ UNCHANGED <<chan, state>>
        /\ \A r \in Slot : r # p => pc'[r] = pc[r]
    BY <1>1, Zenon DEF TicksTest, Goto, table, IInv, TypeOK
  <2>2. depth[p] = 0 /\ idx[p] = 1 /\ chan[p] # p
    BY <1>d, <2>1, Zenon DEF DepthOf, ScanPC
  <2>3. DepthOf(p)'
    BY <1>d, <2>1, <2>2, DepthOutside, Zenon DEF ScanPC
  <2> QED  BY <1>o, <2>1, <2>3, Zenon
<1>2. CASE TicksSleep(p)
  <2>1. pc[p] = "ticks_sleep" /\ SwitchOut(p, "SLEEPING", "ticks_test")
    BY <1>2, Zenon DEF TicksSleep
  <2>2. /\ chan'[p] # p
        /\ \A r \in Slot : r # p => chan'[r] = chan[r]
    BY <1>2, Zenon DEF TicksSleep, IInv, TypeOK
  <2>3. /\ pc'[p] \in {"ticks_test", "panic"}
        /\ \A r \in Slot : r # p => pc'[r] = pc[r] /\ state'[r] = state[r]
    BY <2>1, SwitchState, Zenon
  <2>4. depth[p] = 0 /\ idx[p] = 1
    BY <1>d, <2>1, Zenon DEF DepthOf, ScanPC
  <2>5. DepthOf(p)'
    BY <1>d, <2>2, <2>3, <2>4, DepthOutside, Zenon DEF ScanPC
  <2> QED  BY <1>o, <2>2, <2>3, <2>5, Zenon
<1>l. Limit(p) \in Nat /\ Limit(p)' \in Nat /\ Limit(p) <= Limit(p)'
  BY Zenon DEF LimitStep
<1>n. pc[p] \in ScanPC \cup {"wait_enter"} /\ WillReturn(p) => WillReturn(p)'
  BY <1>d, NewsKept, Zenon DEF DepthInv
<1>3. CASE Timer(p)
  <2>1. HeldBy(p) = {} /\ OnCpu(p) /\ UNCHANGED chan
    BY <1>3, Zenon DEF Timer, Interrupted, IntrOn
  <2>2. pc[p] \notin {"panic", "exit_sched", "wait_scan", "wait_lock"}
    BY <1>3, <2>1, Zenon DEF Timer, Interrupted, IntrOn, HeldBy, IInv, LocksHeld
  <2>3. state[p] = "RUNNING"
    BY <2>1, <2>2, Running, Zenon
  <2>4. /\ pc'[p] = pc[p] /\ state'[p] = "RUNNABLE"
        /\ \A r \in Slot : r # p => pc'[r] = pc[r] /\ state'[r] = state[r]
    BY <1>3, <2>1 DEF Timer, SwitchOut, Goto, IInv, TypeOK
  <2>5. DepthOf(p)'
    BY <1>d, <1>l, <1>n, <2>1, <2>2, <2>3, <2>4 DEF DepthOf, ScanPC
  <2> QED  BY <1>o, <2>1, <2>4, <2>5, Zenon
<1>4. CASE Tick(p)
  <2>1. /\ UNCHANGED <<pc, chan>> /\ chan[p] = ticks
        /\ state[p] = "SLEEPING" /\ state'[p] = "RUNNABLE"
        /\ \A r \in Slot : r # p => state'[r] = state[r]
    BY <1>4, Zenon DEF Tick, IInv, TypeOK
  <2>2. pc[p] # "wait_enter"
    BY <1>d, <2>1, Zenon DEF DepthOf
  <2>3. DepthOf(p)'
    BY <1>d, <2>1, <2>2, DepthWoken, Zenon DEF DepthInv
  <2> QED  BY <1>o, <2>1, <2>3, Zenon
<1>5. ASSUME NEW c \in CPU, SchedRun(c, p) PROVE D
  <2>1. /\ UNCHANGED pc /\ chan'[p] # p
        /\ state[p] = "RUNNABLE" /\ state'[p] = "RUNNING"
        /\ \A r \in Slot : r # p => state'[r] = state[r] /\ chan'[r] = chan[r]
    BY <1>5, Zenon DEF SchedRun, IInv, TypeOK
  <2>2. DepthOf(p)'
    BY <1>d, <1>l, <1>n, <2>1 DEF DepthOf, ScanPC
  <2> QED  BY <1>o, <2>1, <2>2, Zenon
<1> QED  BY <1>1, <1>2, <1>3, <1>4, <1>5, Zenon

(* Only wait() counts. *)
LEMMA DepthType ==
  ASSUME depth \in [Slot -> Nat], [Next]_vars
  PROVE  depth' \in [Slot -> Nat]
<1>1. ASSUME NEW p \in Slot, Waiting(p) PROVE depth' \in [Slot -> Nat]
  <2>1. CASE WaitEnter(p)
    BY <2>1 DEF WaitEnter
  <2>2. ASSUME WaitReturn(p) PROVE depth' \in [Slot -> Nat]
    BY <2>2, Zenon DEF WaitReturn
  <2>3. CASE WaitTest(p) \/ WaitChild(p) \/ WaitFinish(p)
    BY <2>2, <2>3, Zenon DEF WaitTest, WaitChild, WaitFinish
  <2> QED  BY <1>1, <2>1, <2>3, Zenon DEF Waiting
<1>2. ASSUME NEW p \in Slot, User(p) PROVE UNCHANGED depth
  BY <1>2, Zenon DEF User, Fork, ForkNoTrapframe, ForkNoMemory, Kill, SysSleep, SysWait, Exit, locals
<1>3. ASSUME NEW p \in Slot, Exiting(p) PROVE UNCHANGED depth
  BY <1>3, Zenon DEF Exiting, ExitWakeInit, ExitCopyParent, ExitLockParent, ExitLockSelf,
     ReparentTest, ReparentChild, ExitFinish, ExitSched, locals
<1>4. ASSUME NEW p \in Slot, TicksTest(p) \/ TicksSleep(p) \/ Timer(p) \/ Tick(p)
      PROVE  UNCHANGED depth
  BY <1>4, Zenon DEF TicksTest, TicksSleep, Timer, Tick, locals
<1>5. ASSUME NEW c \in CPU, NEW p \in Slot, SchedRun(c, p) PROVE UNCHANGED depth
  BY <1>5, Zenon DEF SchedRun, locals
<1>6. CASE UNCHANGED vars
  BY <1>6, Zenon DEF vars, locals
<1> QED  BY <1>1, <1>2, <1>3, <1>4, <1>5, <1>6, Zenon DEF Next, Kernel

(* Every step keeps the bound on the depth. *)
LEMMA DepthNext ==
  ASSUME IInv, Holders, OparKnown, DepthInv, LimitStep, [Next]_vars
  PROVE  DepthInv'
<1>1. initproc \notin Exited' /\ KilledType'
  BY InitStays, KilledInv, Zenon DEF DepthInv
<1> DEFINE D == \A r \in Slot : DepthOf(r)'
<1>2. ASSUME NEW p \in Slot, User(p) \/ Kernel(p) \/ Timer(p) \/ Tick(p) PROVE D
  BY <1>2, DepthUser, DepthExit, DepthWait, DepthSched, Zenon DEF Kernel
<1>3. ASSUME NEW c \in CPU, NEW p \in Slot, SchedRun(c, p) PROVE D
  BY <1>3, DepthSched, Zenon
<1>4. ASSUME UNCHANGED vars PROVE D
  <2>1. UNCHANGED <<pc, idx, depth, chan, state>>
    BY <1>4, Zenon DEF vars, table, locals
  <2> QED  BY <2>1, DepthFrame, Zenon DEF DepthInv
<1> HIDE DEF D
<1>5. D
  BY <1>2, <1>3, <1>4, Zenon DEF Next
<1>6. depth' \in [Slot -> Nat]
  BY DepthType, Zenon DEF DepthInv
<1> QED  BY <1>1, <1>5, <1>6, Zenon DEF D, DepthInv

(* At boot nobody is in wait() or in exit(). *)
LEMMA DepthInit == Init => KilledType /\ OparKnown /\ DepthInv
<1> SUFFICES ASSUME Init PROVE KilledType /\ OparKnown /\ DepthInv
  BY Zenon
<1>1. \A p \in Slot : pc[p] = "user" /\ depth[p] = 0 /\ idx[p] = 1 /\ chan[p] # p
  BY Zenon DEF Init
<1>2. OparKnown /\ initproc \notin Exited
  BY <1>1, Zenon DEF OparKnown, HasOpar, Exited, ExitedPC
<1>3. \A p \in Slot : DepthOf(p)
  BY <1>1 DEF DepthOf, ScanPC
<1>4. KilledType /\ depth \in [Slot -> Nat]
  BY Zenon DEF Init, KilledType
<1> QED  BY <1>2, <1>3, <1>4, Zenon DEF DepthInv
-----------------------------------------------------------------------------
(* From here on with the theorems about finite sets and well-founded       *)
(* relations.  FS!Cardinality and Cardinality have the same definition.    *)
FS == INSTANCE FiniteSetTheorems

(* Finite for FS is finite. *)
LEMMA SameFinite == ASSUME NEW S PROVE FS!IsFiniteSet(S) = IsFiniteSet(S)
  BY Zenon DEF FS!IsFiniteSet, IsFiniteSet

(* FS counts as the model does. *)
LEMMA SameCardinality == ASSUME NEW S PROVE FS!Cardinality(S) = Cardinality(S)
  BY Zenon DEF FS!Cardinality, Cardinality, FS!IsFiniteSet, IsFiniteSet

(* A set of slots of the process table is counted by a number, and one     *)
(* that it is part of by a number as large.                                *)
LEMMA SlotCount ==
  ASSUME NEW S \in SUBSET Slot, NEW T \in SUBSET S
  PROVE  /\ IsFiniteSet(S) /\ Cardinality(S) \in Nat /\ Cardinality(T) \in Nat
         /\ Cardinality(T) <= Cardinality(S) /\ (T # S => Cardinality(T) # Cardinality(S))
<1>0. PICK U : U = Slot
  BY Zenon
<1>1. FS!IsFiniteSet(U) /\ S \in SUBSET U
  BY <1>0, FS!FS_Interval
<1>2. FS!IsFiniteSet(S)
  BY <1>1, FS!FS_Subset, Zenon
<1>3. /\ FS!IsFiniteSet(T) /\ FS!Cardinality(T) <= FS!Cardinality(S)
      /\ T # S => FS!Cardinality(T) # FS!Cardinality(S)
  BY <1>2, FS!FS_Subset, Zenon
<1>4. FS!Cardinality(S) \in Nat /\ FS!Cardinality(T) \in Nat
  BY <1>2, <1>3, FS!FS_CardinalityType, Zenon
<1> QED  BY <1>2, <1>3, <1>4, SameFinite, SameCardinality, Zenon

(* A set of natural numbers that is not empty has a least element. *)
LEMMA LeastNumber == NatWellOrdered
<1> SUFFICES ASSUME NEW T \in SUBSET Nat, T # {}
             PROVE  \E m \in T : \A k \in T : m <= k
  BY Zenon DEF NatWellOrdered
<1>1. PICK m \in T : \A k \in T : ~(<<k, m>> \in FS!OpToRel(<, Nat))
  BY FS!NatLessThanWellFounded, FS!WFMin, Zenon
<1>2. \A k \in T : ~(k < m)
  BY <1>1, Zenon DEF FS!OpToRel
<1> QED  BY <1>2

(* Everybody but init may be in exit() or past it. *)
LEMMA ExitedSize ==
  ASSUME initproc \notin Exited
  PROVE  Cardinality(Exited) \in Nat /\ Cardinality(Exited) + 1 <= NPROC
<1>1. PICK T : T = Slot
  BY Zenon
<1>2. FS!IsFiniteSet(T) /\ FS!Cardinality(T) = NPROC
  BY <1>1, FS!FS_Interval
<1>3. Cardinality(Slot) = NPROC
  BY <1>1, <1>2, SameCardinality, Zenon
<1>4. /\ Slot \in SUBSET Slot /\ Exited \in SUBSET Slot
      /\ initproc \in Slot /\ initproc \notin Exited
  BY DEF Exited
<1>5. Exited # Slot
  BY <1>4, Zenon
<1>6. /\ Cardinality(Exited) \in Nat /\ Cardinality(Exited) <= Cardinality(Slot)
      /\ Cardinality(Exited) # Cardinality(Slot)
  BY <1>4, <1>5, SlotCount, Zenon
<1> QED  BY <1>3, <1>6

(* The limit on the depth only grows. *)
LEMMA LimitGrows ==
  ASSUME IInv, Holders, [Next]_vars, NEW p \in Slot
  PROVE  Limit(p) \in Nat /\ 0 < Limit(p) /\ Limit(p)' \in Nat /\ Limit(p) <= Limit(p)'
<1>1. Exited \subseteq Slot /\ Exited' \subseteq Slot /\ Exited \subseteq Exited'
  BY ExitGoesOn, Zenon DEF Exited
<1>2. /\ Cardinality(Exited) \in Nat /\ Cardinality(Exited') \in Nat
      /\ Cardinality(Exited) <= Cardinality(Exited')
  BY <1>1, SlotCount, Zenon
<1> QED  BY <1>2 DEF Limit

(* An exit() that wakes init up counts for it. *)
LEMMA LimitCounts ==
  ASSUME IInv, Holders, [Next]_vars, NEW p \in Slot, pc[p] = "exit_wakeinit", pc'[p] = "exit_copy"
  PROVE  Limit(initproc) < Limit(initproc)'
<1>1. /\ Exited' \subseteq Slot /\ Exited \subseteq Exited'
      /\ p \notin Exited /\ p \in Exited'
  BY ExitGoesOn, Zenon DEF Exited, ExitedPC, HasOpar
<1>2. Exited # Exited'
  BY <1>1, Zenon
<1>3. /\ Cardinality(Exited) \in Nat /\ Cardinality(Exited') \in Nat
      /\ Cardinality(Exited) <= Cardinality(Exited')
      /\ Cardinality(Exited) # Cardinality(Exited')
  BY <1>1, <1>2, SlotCount, Zenon
<1>4. /\ Limit(initproc) = Cardinality(Exited) + 1
      /\ Limit(initproc)' = Cardinality(Exited') + 1
  BY Zenon DEF Limit
<1> QED  BY <1>3, <1>4

(* LimitStep holds of every step. *)
LEMMA LimitSteps ==
  ASSUME IInv, Holders, [Next]_vars
  PROVE  LimitStep
  BY LimitGrows, LimitCounts, Zenon DEF LimitStep

(* In proc.c no set of processes spins on locks that they hold among       *)
(* themselves, however many processes fork, exit and wait on however many  *)
(* cpus.                                                                   *)
THEOREM LocksDoNotDeadlock == Spec => []NoDeadlock
<1>1. Init => Holders /\ PidOrder
  BY LockInit, Zenon
<1>2. IInv /\ IInv' /\ (Holders /\ PidOrder) /\ [Next]_vars => (Holders /\ PidOrder)'
  BY HoldersNext, PidNext, Zenon
<1>3. IInv /\ Holders /\ PidOrder => NoDeadlock
  BY NoCycle, LeastNumber, Zenon
<1> QED  BY <1>1, <1>2, <1>3, ProcInvariance, PTL DEF Spec

(* wait() calls itself after each wakeup, on a kernel stack of one page.   *)
(* A process other than init is at most two activations deep, and init at  *)
(* most NPROC + 1.                                                         *)
THEOREM WaitRecursionIsBounded == Spec => []WaitDepth
<1> DEFINE W == Holders /\ OparKnown /\ DepthInv
<1>1. Init => W
  BY LockInit, DepthInit, Zenon
<1>2. IInv /\ W /\ [Next]_vars => W'
  BY NextInv, HoldersNext, OparInv, LimitSteps, DepthNext, Zenon DEF DepthInv
<1>3. W => WaitDepth
  <2> SUFFICES ASSUME W, NEW p \in Slot
               PROVE  depth[p] <= IF p = initproc THEN NPROC + 1 ELSE 2
    BY Zenon DEF WaitDepth
  <2>1. Limit(p) \in Nat /\ Limit(p) <= IF p = initproc THEN NPROC ELSE 1
    BY ExitedSize DEF Limit, DepthInv
  <2>2. depth[p] \in Nat /\ depth[p] <= Limit(p) + 1
    BY <2>1 DEF DepthInv, DepthOf, ScanPC
  <2> QED  BY <2>1, <2>2
<1> HIDE DEF W
<1> QED  BY <1>1, <1>2, <1>3, ProcInvariance, PTL DEF Spec
=============================================================================
