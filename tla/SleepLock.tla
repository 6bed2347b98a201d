----------------------------- MODULE SleepLock -----------------------------
(***************************************************************************)
(* Sleep locks, kernel/sleeplock.c, on top of sleep() and wakeup() of      *)
(* kernel/proc.c with the spinlocks those take: lk->lk and every p->lock.  *)
(* This is the protocol by which every driver and the file system wait;    *)
(* the other modules take sleep(chan, lk) as one step on its strength.     *)
(*                                                                         *)
(* A process has a cpu whenever it is RUNNABLE and its lock is free.       *)
(***************************************************************************)
EXTENDS Naturals

CONSTANT N       \* processes that use the lock, 1..N in table order

ASSUME SleepLockAssumption == N \in Nat \ {0}

Proc == 1..N
None == 0        \* no process

VARIABLES
  locked,        \* lk->locked
  owner,         \* lk->pid, None for 0
  lk,            \* who holds lk->lk
  plock,         \* who holds p->lock
  state,         \* p->state
  chan,          \* p->chan: 1 for lk, 0 for none
  idx,           \* the loop variable of wakeup()
  pc             \* where each process is

vars == <<locked, owner, lk, plock, state, chan, idx, pc>>

Goto(p, label) == pc' = [pc EXCEPT ![p] = label]

Init ==
  /\ locked = 0
  /\ owner = None
  /\ lk = None
  /\ plock = [p \in Proc |-> None]
  /\ state = [p \in Proc |-> "RUNNING"]
  /\ chan = [p \in Proc |-> 0]
  /\ idx = [p \in Proc |-> 1]
  /\ pc = [p \in Proc |-> "idle"]
-----------------------------------------------------------------------------
(* acquiresleep() *)

Call(p) ==
  /\ pc[p] = "idle"
  /\ Goto(p, "acquire")
  /\ UNCHANGED <<locked, owner, lk, plock, state, chan, idx>>

(* acquire(&lk->lk) and the test of lk->locked, at the call and again      *)
(* after every wakeup.                                                     *)
Acquire(p) ==
  /\ pc[p] = "acquire" /\ state[p] = "RUNNING"
  /\ lk = None
  /\ IF locked = 1
     THEN lk' = p /\ Goto(p, "sleep") /\ UNCHANGED <<locked, owner>>
     ELSE /\ locked' = 1
          /\ owner' = p
          /\ Goto(p, "holds")
          /\ UNCHANGED lk
  /\ UNCHANGED <<plock, state, chan, idx>>

SleepEarly(p) ==   \* releases lk before it has p->lock
  /\ pc[p] = "sleep"
  /\ lk' = None
  /\ Goto(p, "switch")
  /\ UNCHANGED <<locked, owner, plock, state, chan, idx>>

(* sleep(): takes p->lock and only then releases lk. *)
Sleep(p) ==
  /\ pc[p] = "sleep"
  /\ plock[p] = None
  /\ plock' = [plock EXCEPT ![p] = p]
  /\ lk' = None
  /\ Goto(p, "switch")
  /\ UNCHANGED <<locked, owner, state, chan, idx>>

(* The rest of sleep() up to sched(); scheduler() releases p->lock. *)
Switch(p) ==
  /\ pc[p] = "switch"
  /\ chan' = [chan EXCEPT ![p] = 1]
  /\ state' = [state EXCEPT ![p] = "SLEEPING"]
  /\ plock' = [plock EXCEPT ![p] = None]
  /\ Goto(p, "acquire")
  /\ UNCHANGED <<locked, owner, lk, idx>>

RunTakes(p) ==   \* takes the lock without testing lk->locked again
  /\ state[p] = "RUNNABLE"
  /\ plock[p] = None
  /\ state' = [state EXCEPT ![p] = "RUNNING"]
  /\ chan' = [chan EXCEPT ![p] = 0]
  /\ locked' = 1
  /\ owner' = p
  /\ Goto(p, "holds")
  /\ UNCHANGED <<lk, plock, idx>>

(* scheduler() runs p, which tidies up in sleep() and releases p->lock. *)
Run(p) ==
  /\ state[p] = "RUNNABLE"
  /\ plock[p] = None
  /\ state' = [state EXCEPT ![p] = "RUNNING"]
  /\ chan' = [chan EXCEPT ![p] = 0]
  /\ UNCHANGED <<locked, owner, lk, plock, idx, pc>>
-----------------------------------------------------------------------------
(* releasesleep() and its wakeup() *)

Release(p) ==
  /\ pc[p] = "holds"
  /\ lk = None
  /\ lk' = p
  /\ locked' = 0
  /\ owner' = None
  /\ idx' = [idx EXCEPT ![p] = 1]
  /\ Goto(p, "wakeup")
  /\ UNCHANGED <<plock, state, chan>>

Wake(q) == IF state[q] = "SLEEPING" /\ chan[q] = 1
           THEN [state EXCEPT ![q] = "RUNNABLE"]
           ELSE state

WakeupOne(p) ==   \* stops at the first sleeper
  /\ pc[p] = "wakeup"
  /\ idx[p] \in Proc
  /\ plock[idx[p]] = None
  /\ state' = Wake(idx[p])
  /\ idx' = [idx EXCEPT ![p] = IF Wake(@) = state THEN @ + 1 ELSE N + 1]
  /\ UNCHANGED <<locked, owner, lk, plock, chan, pc>>

(* One slot of the table, under its lock. *)
Wakeup(p) ==
  /\ pc[p] = "wakeup"
  /\ idx[p] \in Proc
  /\ plock[idx[p]] = None
  /\ state' = Wake(idx[p])
  /\ idx' = [idx EXCEPT ![p] = @ + 1]
  /\ UNCHANGED <<locked, owner, lk, plock, chan, pc>>

WakeupEnd(p) ==
  /\ pc[p] = "wakeup"
  /\ idx[p] = N + 1
  /\ lk' = None
  /\ idx' = [idx EXCEPT ![p] = 1]
  /\ Goto(p, "idle")
  /\ UNCHANGED <<locked, owner, plock, state, chan>>

(* kill() of q by anybody: wakes q out of sleep(). *)
Kill(q) ==
  /\ plock[q] = None
  /\ state[q] = "SLEEPING"
  /\ state' = [state EXCEPT ![q] = "RUNNABLE"]
  /\ UNCHANGED <<locked, owner, lk, plock, chan, idx, pc>>
-----------------------------------------------------------------------------
Step(p) == \/ Acquire(p) \/ Sleep(p) \/ Switch(p) \/ Run(p)
           \/ Wakeup(p) \/ WakeupEnd(p)

Next == \E p \in Proc : Step(p) \/ Call(p) \/ Release(p) \/ Kill(p)

Spec == Init /\ [][Next]_vars

(* A process in the kernel keeps running, and the holder of a sleep lock   *)
(* releases it, even if it has to compete for lk->lk with processes that   *)
(* kill() wakes again and again.                                           *)
FairSpec == Spec /\ \A p \in Proc : WF_vars(Step(p)) /\ SF_vars(Release(p))
-----------------------------------------------------------------------------
(* At most one process has the lock, and it is the one holdingsleep() of   *)
(* bwrite(), brelse() and iunlock() would find.                            *)
Mutex ==
  \A p \in Proc : pc[p] = "holds" => locked = 1 /\ owner = p

(* No wakeup is lost: a process that sleeps while the lock is free has a   *)
(* releaser whose wakeup() has not passed it yet.                          *)
NoLostWakeup ==
  \A p \in Proc : state[p] = "SLEEPING" /\ locked = 0 =>
    \E r \in Proc : pc[r] = "wakeup" /\ idx[r] <= p

(* Every process that sleeps for the lock is woken. *)
SleepersWake == \A p \in Proc : state[p] = "SLEEPING" ~> state[p] # "SLEEPING"
============================================================================
