---------------------------- MODULE AtomicDisk ----------------------------
(***************************************************************************)
(* What the logging layer of kernel/log.c promises the file system.        *)
(*                                                                         *)
(* File-system system calls write blocks between begin_op() and end_op().  *)
(* All calls see one current view of the disk.  The view becomes durable   *)
(* in one indivisible step, and only while no call is in progress.  A      *)
(* crash forgets every call that was not made durable, as a whole.         *)
(***************************************************************************)
CONSTANTS Proc,    \* the processes that make file-system calls
          Block,   \* the home blocks of the disk
          Data     \* what a block can contain

VARIABLES stable,  \* the contents a reboot would find
          view,    \* the contents the running system sees
          active   \* the processes between begin_op() and end_op()

vars == <<stable, view, active>>

Init == /\ stable \in [Block -> Data]
        /\ view = stable
        /\ active = {}

Begin(p) == /\ p \notin active
            /\ active' = active \cup {p}
            /\ UNCHANGED <<stable, view>>

Write(p, b, d) == /\ p \in active
                  /\ view' = [view EXCEPT ![b] = d]
                  /\ UNCHANGED <<stable, active>>

End(p) == /\ p \in active
          /\ active' = active \ {p}
          /\ UNCHANGED <<stable, view>>

Commit == /\ active = {}
          /\ stable' = view
          /\ UNCHANGED <<view, active>>

Crash == /\ view' = stable
         /\ active' = {}
         /\ UNCHANGED stable

Next == \/ \E p \in Proc : \/ Begin(p)
                           \/ End(p)
                           \/ \E b \in Block, d \in Data : Write(p, b, d)
        \/ Commit
        \/ Crash

Spec == Init /\ [][Next]_vars
============================================================================
