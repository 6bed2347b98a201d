-------------------------------- MODULE Bio --------------------------------
(***************************************************************************)
(* The buffer cache, kernel/bio.c: which buffer holds which block, the     *)
(* reference counts, the list that bget() recycles from and the sleep lock *)
(* of each buffer.  bcache.lock is held over one step; acquiresleep() and  *)
(* the disk come between the steps.                                        *)
(*                                                                         *)
(* The users are the file system, which changes a block and pins it with   *)
(* log_write(), and the log, which writes it to the disk and unpins it.    *)
(***************************************************************************)
EXTENDS Integers, Sequences, FiniteSets

CONSTANTS
  Proc,     \* the processes that use blocks, one at a time each
  Block,    \* the blocks of the disk
  Data,     \* what a block can contain
  NBUF,     \* the number of buffers (param.h)
  MaxPins,  \* the blocks the log can hold (LOGSIZE - 1 in the code)
  None      \* no process, no block

ASSUME BioAssumption ==
  /\ NBUF \in Nat \ {0}
  /\ MaxPins \in Nat
  /\ 0 \in Data
  /\ None \notin Proc \cup Block

Buf == 1..NBUF
head == 0           \* bcache.head
Node == 0..NBUF

VARIABLES
  nxt, prv,  \* b->next and b->prev
  blk,       \* b->dev and b->blockno, None before the first use
  valid,     \* b->valid
  ref,       \* b->refcnt
  data,      \* b->data
  lock,      \* who holds b->lock
  disk,      \* the blocks on the disk
  pinned,    \* the blocks in the log
  pc,        \* where each process is
  want,      \* the argument blockno
  buf        \* the local b

list == <<nxt, prv>>
vars == <<list, blk, valid, ref, data, lock, disk, pinned, pc, want, buf>>

(* binit() puts each buffer in front of those before it. *)
Init ==
  /\ nxt = [x \in Node |-> (x + NBUF) % (NBUF + 1)]
  /\ prv = [x \in Node |-> (x + 1) % (NBUF + 1)]
  /\ blk = [b \in Buf |-> None]
  /\ valid = [b \in Buf |-> 0]
  /\ ref = [b \in Buf |-> 0]
  /\ disk \in [Block -> Data]
  /\ data = [b \in Buf |-> 0]
  /\ lock = [b \in Buf |-> None]
  /\ pinned = {}
  /\ pc = [p \in Proc |-> "idle"]
  /\ want = [p \in Proc |-> None]
  /\ buf = [p \in Proc |-> head]

Goto(p, label) == pc' = [pc EXCEPT ![p] = label]
-----------------------------------------------------------------------------
(* The two loops of bget() follow pointers from head to the first buffer   *)
(* they look for, or back to head: the buffer of block k from the front of *)
(* the list, and an unused one from its end.                               *)
Scan(step, found) ==
  LET F[x \in Node] == IF x \in found \cup {head} THEN x ELSE F[step[x]]
  IN F[step[head]]

Cached(k) == Scan(nxt, {b \in Buf : blk[b] = k})
Unused == Scan(prv, {b \in Buf : ref[b] = 0})

(* The block has a buffer. *)
Hit(p, k) ==
  /\ Cached(k) # head
  /\ ref' = [ref EXCEPT ![Cached(k)] = @ + 1]

(* The least recently used buffer gets the block.  A bug: it stays valid.  *)
RecycleValid(p, k) ==
  /\ Cached(k) = head /\ Unused # head
  /\ blk' = [blk EXCEPT ![Unused] = k]
  /\ ref' = [ref EXCEPT ![Unused] = 1]
  /\ UNCHANGED valid

Recycle(p, k) ==
  /\ Cached(k) = head /\ Unused # head
  /\ blk' = [blk EXCEPT ![Unused] = k]
  /\ valid' = [valid EXCEPT ![Unused] = 0]
  /\ ref' = [ref EXCEPT ![Unused] = 1]

(* bread() up to the acquiresleep() of bget() *)
Bget(p, k) ==
  /\ pc[p] = "idle"
  /\ want' = [want EXCEPT ![p] = k]
  /\ \/ /\ Hit(p, k)
        /\ buf' = [buf EXCEPT ![p] = Cached(k)]
        /\ Goto(p, "lock") /\ UNCHANGED <<blk, valid>>
     \/ /\ Recycle(p, k)
        /\ buf' = [buf EXCEPT ![p] = Unused]
        /\ Goto(p, "lock")
     \/ /\ Cached(k) = head /\ Unused = head
        /\ Goto(p, "panic") /\ UNCHANGED <<buf, blk, valid, ref>>
  /\ UNCHANGED <<list, data, lock, disk, pinned>>

(* The rest of bread(): a buffer that is not valid is read first. *)
Lock(p) ==
  /\ pc[p] = "lock" /\ lock[buf[p]] = None
  /\ lock' = [lock EXCEPT ![buf[p]] = p]
  /\ Goto(p, IF valid[buf[p]] = 1 THEN "use" ELSE "read")
  /\ UNCHANGED <<list, blk, valid, ref, data, disk, pinned, want, buf>>

Read(p) ==
  /\ pc[p] = "read"
  /\ data' = [data EXCEPT ![buf[p]] = disk[blk[buf[p]]]]
  /\ valid' = [valid EXCEPT ![buf[p]] = 1]
  /\ Goto(p, "use")
  /\ UNCHANGED <<list, blk, ref, lock, disk, pinned, want, buf>>
-----------------------------------------------------------------------------
(* A call changes the block, and log_write() pins it the first time. *)
LogWrite(p, d) ==
  /\ pc[p] = "use"
  /\ LET b == buf[p] IN
     /\ blk[b] \in pinned \/ Cardinality(pinned) < MaxPins
     /\ data' = [data EXCEPT ![b] = d]
     /\ ref' = [ref EXCEPT ![b] = IF blk[b] \in pinned THEN @ ELSE @ + 1]
     /\ pinned' = pinned \cup {blk[b]}
  /\ UNCHANGED <<list, blk, valid, lock, disk, pc, want, buf>>

(* The log writes the block to its place ... *)
Bwrite(p) ==
  /\ pc[p] = "use" /\ blk[buf[p]] \in pinned
  /\ disk' = [disk EXCEPT ![blk[buf[p]]] = data[buf[p]]]
  /\ Goto(p, "unpin")
  /\ UNCHANGED <<list, blk, valid, ref, data, lock, pinned, want, buf>>

(* ... and unpins it. *)
Bunpin(p) ==
  /\ pc[p] = "unpin"
  /\ ref' = [ref EXCEPT ![buf[p]] = @ - 1]
  /\ pinned' = pinned \ {blk[buf[p]]}
  /\ Goto(p, "use")
  /\ UNCHANGED <<list, blk, valid, data, lock, disk, want, buf>>
-----------------------------------------------------------------------------
(* brelse() first gives up the lock of the buffer ... *)
Unlock(p) ==
  /\ pc[p] = "use"
  /\ lock' = [lock EXCEPT ![buf[p]] = None]
  /\ Goto(p, "unref")
  /\ UNCHANGED <<list, blk, valid, ref, data, disk, pinned, want, buf>>

(* ... and then, with bcache.lock, the reference.  The last one puts the   *)
(* buffer at the front of the list, one pointer after the other.           *)
ToFront(b) ==
  LET p1 == [prv EXCEPT ![nxt[b]] = prv[b]]
      n1 == [nxt EXCEPT ![p1[b]] = nxt[b]]
      n2 == [n1 EXCEPT ![b] = n1[head]]
      p2 == [p1 EXCEPT ![b] = head]
  IN /\ prv' = [p2 EXCEPT ![n2[head]] = b]
     /\ nxt' = [n2 EXCEPT ![head] = b]

Unref(p) ==
  /\ pc[p] = "unref"
  /\ LET b == buf[p] IN
     /\ ref' = [ref EXCEPT ![b] = @ - 1]
     /\ IF ref[b] = 1 THEN ToFront(b) ELSE UNCHANGED list
  /\ Goto(p, "idle")
  /\ want' = [want EXCEPT ![p] = None]
  /\ buf' = [buf EXCEPT ![p] = head]
  /\ UNCHANGED <<blk, valid, data, lock, disk, pinned>>

Next == \E p \in Proc : \/ \E k \in Block : Bget(p, k)
                        \/ Lock(p) \/ Read(p)
                        \/ \E d \in Data : LogWrite(p, d)
                        \/ Bwrite(p) \/ Bunpin(p) \/ Unlock(p) \/ Unref(p)

Spec == Init /\ [][Next]_vars
-----------------------------------------------------------------------------
(* The value of a block: in its buffer, if that has been read. *)
View(k) == IF \E b \in Buf : blk[b] = k /\ valid[b] = 1
           THEN data[CHOOSE b \in Buf : blk[b] = k /\ valid[b] = 1]
           ELSE disk[k]

Holder(k) == IF \E p \in Proc : want[p] = k /\ pc[p] \in {"use", "unpin"}
             THEN CHOOSE p \in Proc : want[p] = k /\ pc[p] \in {"use", "unpin"}
             ELSE None

(* The cache is invisible: the users see blocks of which one process at a  *)
(* time has each, although buffers are recycled between them.              *)
Promise == INSTANCE Blocks WITH val <- [k \in Block |-> View(k)],
                                holder <- [k \in Block |-> Holder(k)]
Implements == Promise!Spec

=============================================================================
