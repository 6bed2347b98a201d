-------------------------- MODULE SleepLockProofs --------------------------
(***************************************************************************)
(* The safety of sleep locks, for every number of processes: mutual        *)
(* exclusion, and no wakeup lost between the test of lk->locked and the    *)
(* sleep.  The second one needs the process that has released lk->lk and   *)
(* is not yet SLEEPING, which only its own p->lock keeps from wakeup().    *)
(***************************************************************************)
EXTENDS SleepLock, TLAPS

TypeOK ==
  /\ locked \in {0, 1}
  /\ owner \in 0 .. N
  /\ lk \in 0 .. N
  /\ plock \in [Proc -> 0 .. N]
  /\ state \in [Proc -> {"RUNNING", "RUNNABLE", "SLEEPING"}]
  /\ chan \in [Proc -> {0, 1}]
  /\ idx \in [Proc -> 1 .. N + 1]
  /\ pc \in [Proc -> {"idle", "acquire", "sleep", "switch", "holds", "wakeup"}]

(* lk->lk is held exactly between its acquire() and release(). *)
SpinHeld == \A p \in Proc : lk = p <=> pc[p] \in {"sleep", "wakeup"}

(* The test of lk->locked is still true when sleep() is called. *)
Tested == \A p \in Proc : pc[p] = "sleep" => locked = 1

(* p->lock is held exactly from its acquire() in sleep() to sched(). *)
OwnLock == \A p \in Proc : pc[p] = "switch" <=> plock[p] # None

(* Whoever is off its cpu sleeps in acquiresleep(), on lk if it sleeps. *)
OffCpu ==
  \A p \in Proc : /\ state[p] # "RUNNING" => pc[p] = "acquire"
                  /\ state[p] = "SLEEPING" => chan[p] = 1

(* The releaser's wakeup() has not passed p. *)
Coming(p) == \E r \in Proc : pc[r] = "wakeup" /\ idx[r] <= p

(* NoLostWakeup, for processes on their way to sleep too. *)
NobodyPassed ==
  \A p \in Proc : (state[p] = "SLEEPING" \/ pc[p] = "switch") /\ locked = 0 => Coming(p)

IInv == TypeOK /\ Mutex /\ SpinHeld /\ Tested /\ OwnLock /\ OffCpu /\ NobodyPassed
-----------------------------------------------------------------------------
USE SleepLockAssumption DEF Proc, None

(* Before the first acquiresleep() nobody holds or waits for anything.     *)
LEMMA InitInv == Init => IInv
  BY DEF Init, IInv, TypeOK, Mutex, SpinHeld, Tested, OwnLock, OffCpu, NobodyPassed

(* A call of acquiresleep() changes nothing but where its caller is.       *)
LEMMA CallInv == ASSUME NEW p \in Proc, IInv, Call(p) PROVE IInv'
  BY DEF Call, Goto, IInv, TypeOK, Mutex, SpinHeld, Tested, OwnLock, OffCpu, NobodyPassed, Coming

(* acquire(&lk->lk) and the test: either the lock was free, and then       *)
(* nobody had it, or the caller keeps lk->lk on its way to sleep().        *)
LEMMA AcquireInv == ASSUME NEW p \in Proc, IInv, Acquire(p) PROVE IInv'
<1>0. TypeOK'
  <2>1. CASE locked = 1
    BY <2>1 DEF Acquire, Goto, IInv, TypeOK
  <2>2. CASE locked # 1
    <3>1. /\ locked' = 1 /\ owner' = p /\ UNCHANGED <<lk, plock, state, chan, idx>>
          /\ pc' = [pc EXCEPT ![p] = "holds"]
      BY <2>2 DEF Acquire, Goto
    <3>2. pc' \in [Proc -> {"idle", "acquire", "sleep", "switch", "holds", "wakeup"}]
      BY <3>1 DEF IInv, TypeOK
    <3> QED  BY <3>1, <3>2 DEF IInv, TypeOK
  <2> QED  BY <2>1, <2>2
<1>1. Mutex' /\ Tested'
  <2>1. CASE locked = 1
    BY <2>1 DEF Acquire, Goto, IInv, TypeOK, Mutex, Tested
  <2>2. CASE locked # 1
    BY <2>2 DEF Acquire, Goto, IInv, TypeOK, Mutex, Tested
  <2> QED  BY <2>1, <2>2
<1>2. SpinHeld'
  BY DEF Acquire, Goto, IInv, TypeOK, SpinHeld
<1>3. (OwnLock /\ OffCpu)'
  <2>1. UNCHANGED <<plock, state, chan>> /\ state[p] = "RUNNING" /\ pc[p] = "acquire"
    BY DEF Acquire
  <2>2. /\ pc'[p] \in {"sleep", "holds"}
        /\ \A r \in Proc \ {p} : pc'[r] = pc[r]
    BY DEF Acquire, Goto, IInv, TypeOK
  <2> QED  BY <2>1, <2>2 DEF IInv, OwnLock, OffCpu
<1>4. locked' = 1
  BY DEF Acquire
<1> QED  BY <1>0, <1>1, <1>2, <1>3, <1>4 DEF IInv, NobodyPassed

(* sleep() gives up lk->lk when it has p->lock; lk->locked is still 1.     *)
LEMMA SleepInv == ASSUME NEW p \in Proc, IInv, Sleep(p) PROVE IInv'
  BY DEF Sleep, Goto, IInv, TypeOK, Mutex, SpinHeld, Tested, OwnLock, OffCpu, NobodyPassed, Coming

(* A process that becomes SLEEPING was on its way before.                  *)
LEMMA SwitchInv == ASSUME NEW p \in Proc, IInv, Switch(p) PROVE IInv'
  BY DEF Switch, Goto, IInv, TypeOK, Mutex, SpinHeld, Tested, OwnLock, OffCpu, NobodyPassed, Coming

(* The scheduler runs a process that was woken.                            *)
LEMMA RunInv == ASSUME NEW p \in Proc, IInv, Run(p) PROVE IInv'
  BY DEF Run, IInv, TypeOK, Mutex, SpinHeld, Tested, OwnLock, OffCpu, NobodyPassed, Coming

(* releasesleep() starts its wakeup() at the first slot, before everybody. *)
LEMMA ReleaseInv == ASSUME NEW p \in Proc, IInv, Release(p) PROVE IInv'
<1>1. (TypeOK /\ Mutex /\ SpinHeld /\ Tested /\ OwnLock /\ OffCpu)'
  BY DEF Release, Goto, IInv, TypeOK, Mutex, SpinHeld, Tested, OwnLock, OffCpu
<1>2. pc'[p] = "wakeup" /\ idx'[p] = 1
  BY DEF Release, Goto, IInv, TypeOK
<1>3. NobodyPassed'
  BY <1>2 DEF NobodyPassed, Coming
<1> QED  BY <1>1, <1>3 DEF IInv

(* wakeup() passes a slot only with its p->lock: the process there is not  *)
(* on its way to sleep, and is not SLEEPING any more.                      *)
LEMMA WakeupInv == ASSUME NEW p \in Proc, IInv, Wakeup(p) PROVE IInv'
<1>0. TypeOK'
  BY SMTT(20) DEF Wakeup, Wake, IInv, TypeOK
<1>1. (Mutex /\ SpinHeld /\ Tested /\ OwnLock /\ OffCpu)'
  BY DEF Wakeup, Wake, IInv, TypeOK, Mutex, SpinHeld, Tested, OwnLock, OffCpu
<1>2. ASSUME NEW q \in Proc, (state[q] = "SLEEPING" \/ pc[q] = "switch")', (locked = 0)'
      PROVE Coming(q)'
  <2>1. q # idx[p]
    BY <1>2 DEF Wakeup, Wake, IInv, TypeOK, OwnLock, OffCpu
  <2>2. (state[q] = "SLEEPING" \/ pc[q] = "switch") /\ locked = 0
    BY <1>2, <2>1 DEF Wakeup, Wake, IInv, TypeOK
  <2>3. PICK r \in Proc : pc[r] = "wakeup" /\ idx[r] <= q
    BY <2>2 DEF IInv, NobodyPassed, Coming
  <2>4. pc'[r] = "wakeup" /\ idx'[r] <= q
    BY <2>1, <2>3 DEF Wakeup, IInv, TypeOK
  <2> QED  BY <2>4 DEF Coming
<1> QED  BY <1>0, <1>1, <1>2 DEF IInv, NobodyPassed

(* A wakeup() that ends has passed every slot, so none relied on it.       *)
LEMMA WakeupEndInv == ASSUME NEW p \in Proc, IInv, WakeupEnd(p) PROVE IInv'
<1>1. (TypeOK /\ Mutex /\ SpinHeld /\ Tested /\ OwnLock /\ OffCpu)'
  BY DEF WakeupEnd, Goto, IInv, TypeOK, Mutex, SpinHeld, Tested, OwnLock, OffCpu
<1>2. ASSUME NEW q \in Proc, (state[q] = "SLEEPING" \/ pc[q] = "switch")', (locked = 0)'
      PROVE Coming(q)'
  <2>1. PICK r \in Proc : pc[r] = "wakeup" /\ idx[r] <= q
    BY <1>2 DEF WakeupEnd, Goto, IInv, TypeOK, NobodyPassed, Coming
  <2>2. pc'[r] = "wakeup" /\ idx'[r] <= q
    BY <2>1 DEF WakeupEnd, Goto, IInv, TypeOK
  <2> QED  BY <2>2 DEF Coming
<1> QED  BY <1>1, <1>2 DEF IInv, NobodyPassed

(* kill() only takes processes out of their sleep.                         *)
LEMMA KillInv == ASSUME NEW p \in Proc, IInv, Kill(p) PROVE IInv'
  BY SMTT(20) DEF Kill, IInv, TypeOK, Mutex, SpinHeld, Tested, OwnLock, OffCpu, NobodyPassed, Coming

(* The invariant holds in every reachable state.                           *)
THEOREM SleepLockInvariance == Spec => []IInv
<1>1. IInv /\ [Next]_vars => IInv'
  <2> SUFFICES ASSUME IInv, [Next]_vars PROVE IInv'
    OBVIOUS
  <2>1. ASSUME NEW p \in Proc, Step(p) \/ Call(p) \/ Release(p) \/ Kill(p) PROVE IInv'
    BY <2>1, CallInv, AcquireInv, SleepInv, SwitchInv, RunInv, ReleaseInv, WakeupInv,
       WakeupEndInv, KillInv DEF Step
  <2>2. CASE UNCHANGED vars
    BY <2>2 DEF vars, IInv, TypeOK, Mutex, SpinHeld, Tested, OwnLock, OffCpu, NobodyPassed, Coming
  <2> QED  BY <2>1, <2>2 DEF Next
<1> QED  BY InitInv, <1>1, PTL DEF Spec

(* At most one process is between acquiresleep() and releasesleep(), and   *)
(* lk->pid is its own, as holdingsleep() expects.                          *)
THEOREM Exclusion == Spec => []Mutex
<1>1. IInv => Mutex
  BY DEF IInv
<1> QED  BY SleepLockInvariance, <1>1, PTL

(* sleep() and wakeup() lose no wakeup: whoever sleeps while the lock is   *)
(* free has a releaser that is still coming.                               *)
THEOREM WakeupsArrive == Spec => []NoLostWakeup
<1>1. IInv => NoLostWakeup
  BY DEF IInv, NobodyPassed, NoLostWakeup, Coming
<1> QED  BY SleepLockInvariance, <1>1, PTL
=============================================================================
