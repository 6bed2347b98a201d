------------------------------- MODULE Blocks -------------------------------
(***************************************************************************)
(* What the buffer cache of kernel/bio.c promises: every block has one     *)
(* value, and one process at a time has the block to itself, sees its      *)
(* value and may change it.                                                *)
(***************************************************************************)
CONSTANTS Proc, Block, Data, None
VARIABLES val,      \* the value of each block
          holder    \* who has it

Init == val \in [Block -> Data] /\ holder = [k \in Block |-> None]

Get(p, k) == /\ holder[k] = None
             /\ holder' = [holder EXCEPT ![k] = p]
             /\ UNCHANGED val

Set(k, d) == /\ holder[k] # None
             /\ val' = [val EXCEPT ![k] = d]
             /\ UNCHANGED holder

Put(k) == /\ holder[k] # None
          /\ holder' = [holder EXCEPT ![k] = None]
          /\ UNCHANGED val

Next == \E k \in Block : \/ Put(k)
                         \/ \E d \in Data : Set(k, d)
                         \/ \E p \in Proc : Get(p, k)

Spec == Init /\ [][Next]_<<val, holder>>
=============================================================================
