------------------------------ MODULE Virtio ------------------------------
(***************************************************************************)
(* The disk driver, kernel/virtio_disk.c, against a device that completes  *)
(* requests in any order while the driver runs.                            *)
(*                                                                         *)
(* disk.vdisk_lock is held from the start of virtio_disk_rw() to its       *)
(* sleep, so each stretch between two sleeps is one step.  The interrupt   *)
(* handler holds the lock too, but the device does not: its steps fall     *)
(* between the handler's accesses to the ring and to the registers.        *)
(*                                                                         *)
(* An entry of a ring that its reader has passed, and a descriptor that is *)
(* freed, is never read again before it is written again; the model puts   *)
(* it back to what it was at first, so that states do not differ in what   *)
(* nobody reads.                                                           *)
(***************************************************************************)
EXTENDS Integers, Sequences, FiniteSets, FiniteSetsExt

CONSTANTS
  Proc,     \* the processes that read and write disk blocks
  Block,    \* the blocks, each with a buffer of its own (kernel/bio.c)
  Killable, \* the processes kill() is called on
  Data,     \* what a block can contain
  NUM,      \* the number of descriptors (virtio.h)
  IDX,      \* 2^16 in the code: avail[1] and used->id are uint16
  None      \* no process, no block, no descriptor

ASSUME VirtioAssumption ==
  /\ NUM \in Nat /\ NUM >= 3
  /\ IDX \in Nat /\ IDX > NUM /\ IDX % NUM = 0
  /\ None \notin Proc \cup Block \cup 0..NUM - 1

Desc == 0..NUM - 1

VARIABLES
  free,      \* disk.free[]
  next,      \* desc[i].next, None without VRING_DESC_F_NEXT
  infob,     \* disk.info[i].b
  req,       \* desc[i] of a first descriptor: the type of the request
  avail,     \* avail[2..], the ring the driver fills
  availidx,  \* avail[1]
  elems,     \* used->elems[], the ring the device fills
  usedid,    \* used->id
  usedidx,   \* disk.used_idx
  bdisk,     \* b->disk
  bdata,     \* b->data
  pc,        \* where each process is
  pb,        \* the argument b of virtio_disk_rw()
  pw,        \* the argument write
  id0,       \* the local idx[0]
  store,     \* device: the blocks on the disk
  seen,      \* device: how far it has looked in avail
  taken,     \* device: the requests it works on
  isr,       \* device: VIRTIO_MMIO_INTERRUPT_STATUS
  intr       \* where virtio_disk_intr() is

driver == <<free, next, infob, req, avail, availidx, usedidx>>
locals == <<pb, pw, id0>>
device == <<store, seen, taken, elems, usedid>>
vars == <<driver, bdisk, bdata, pc, locals, device, isr, intr>>

Init ==   \* after virtio_disk_init()
  /\ free = [i \in Desc |-> 1]
  /\ next = [i \in Desc |-> None]
  /\ infob = [i \in Desc |-> None]
  /\ req = [i \in Desc |-> "read"]
  /\ avail = [i \in Desc |-> 0]
  /\ availidx = 0
  /\ elems = [i \in Desc |-> 0]
  /\ usedid = 0
  /\ usedidx = 0
  /\ bdisk = [b \in Block |-> 0]
  /\ bdata \in [Block -> Data]
  /\ pc = [p \in Proc |-> "idle"]
  /\ pb = [p \in Proc |-> None]
  /\ pw = [p \in Proc |-> 0]
  /\ id0 = [p \in Proc |-> None]
  /\ store = bdata
  /\ seen = 0
  /\ taken = {}
  /\ isr = 0
  /\ intr = "idle"

Goto(p, label) == pc' = [pc EXCEPT ![p] = label]

(* wakeup(&disk.free[0]) *)
WakeFree(st) == [q \in Proc |-> IF st[q] = "no_desc" THEN "alloc" ELSE st[q]]

(* disk.vdisk_lock is free. *)
Unlocked == intr = "idle"
-----------------------------------------------------------------------------
(* bread() and bwrite() call virtio_disk_rw() on a buffer they hold the    *)
(* lock of; the caller of bwrite() has changed the data.                   *)
Call(p, b, w, d) ==
  /\ pc[p] = "idle"
  /\ \A q \in Proc : pb[q] # b
  /\ w = 0 => d = bdata[b]
  /\ bdata' = [bdata EXCEPT ![b] = d]
  /\ pb' = [pb EXCEPT ![p] = b]
  /\ pw' = [pw EXCEPT ![p] = w]
  /\ Goto(p, "alloc")
  /\ UNCHANGED <<driver, bdisk, id0, device, isr, intr>>

FreeDescs == {i \in Desc : free[i] = 1}

(* alloc3_desc(): the three lowest free descriptors. *)
Lowest(S, k) == CHOOSE T \in kSubset(k, S) : \A i \in T, j \in S \ T : i < j

(* Too few: those it took go back, which wakes everybody who waits for     *)
(* descriptors; then the caller sleeps.                                    *)
NoDesc(p) ==
  /\ pc[p] = "alloc" /\ Unlocked
  /\ Cardinality(FreeDescs) < 3
  /\ pc' = [(IF FreeDescs = {} THEN pc ELSE WakeFree(pc)) EXCEPT ![p] = "no_desc"]
  /\ UNCHANGED <<driver, bdisk, bdata, locals, device, isr, intr>>

(* alloc_desc() marks each one as taken. *)
Mark(S) == [i \in Desc |-> IF i \in S THEN 0 ELSE free[i]]

(* The type of the request.  A bug: the two exchanged. *)
BlkTypeSwapped(write) == IF write = 1 THEN "read" ELSE "write"
BlkType(write) == IF write = 1 THEN "write" ELSE "read"

(* Format the chain, publish it, notify the device and sleep on b. *)
Submit(p) ==
  /\ pc[p] = "alloc" /\ Unlocked
  /\ Cardinality(FreeDescs) >= 3
  /\ LET S == Lowest(FreeDescs, 3)
         a == Min(S)  c == Max(S)
         b == CHOOSE i \in S : i # a /\ i # c
     IN /\ free' = Mark(S)
        /\ next' = [next EXCEPT ![a] = b, ![b] = c, ![c] = None]
        /\ req' = [req EXCEPT ![a] = BlkType(pw[p])]
        /\ infob' = [infob EXCEPT ![a] = pb[p]]
        /\ avail' = [avail EXCEPT ![availidx % NUM] = a]
        /\ id0' = [id0 EXCEPT ![p] = a]
  /\ availidx' = (availidx + 1) % IDX
  /\ bdisk' = [bdisk EXCEPT ![pb[p]] = 1]
  /\ Goto(p, "wait")
  /\ UNCHANGED <<usedidx, bdata, pb, pw, device, isr, intr>>

(* free_chain(): the descriptors reached from i; free_desc() panics on one *)
(* that is free already, and wakes those who wait for descriptors.         *)
Chain(i) == LET j == next[i] IN
            {i} \cup (IF j = None THEN {}
                      ELSE {j} \cup (IF next[j] = None THEN {} ELSE {next[j]}))

(* A bug: free_desc() in the place of free_chain(). *)
FreeFirst(i) == [free EXCEPT ![i] = 1]
FreeChain(i) == [j \in Desc |-> IF j \in Chain(i) THEN 1 ELSE free[j]]

(* The test of the loop around the sleep.  A bug: an if, no loop. *)
StillOnDiskNever(b) == FALSE
StillOnDisk(b) == bdisk[b] = 1

(* Woken with b->disk == 0: give the chain back and return. *)
Finish(p) ==
  /\ pc[p] = "woken" /\ Unlocked
  /\ IF StillOnDisk(pb[p])
     THEN Goto(p, "wait") /\ UNCHANGED <<free, infob, req, pb, pw, id0>>
     ELSE /\ free' = FreeChain(id0[p])
          /\ infob' = [infob EXCEPT ![id0[p]] = None]
          /\ req' = [req EXCEPT ![id0[p]] = "read"]
          /\ pc' = [WakeFree(pc) EXCEPT
                      ![p] = IF \E i \in Chain(id0[p]) : free[i] = 1
                             THEN "panic" ELSE "idle"]
          /\ pb' = [pb EXCEPT ![p] = None]
          /\ pw' = [pw EXCEPT ![p] = 0]
          /\ id0' = [id0 EXCEPT ![p] = None]
  /\ UNCHANGED <<next, avail, availidx, usedidx, bdisk, bdata, device, isr, intr>>
-----------------------------------------------------------------------------
(* The device: takes what the driver published, moves the data, writes the *)
(* status, fills the used ring and raises its interrupt.                   *)
Take ==
  /\ seen # availidx
  /\ taken' = taken \cup {avail[seen % NUM]}
  /\ avail' = [avail EXCEPT ![seen % NUM] = 0]
  /\ seen' = (seen + 1) % IDX
  /\ UNCHANGED <<free, next, infob, req, availidx, usedidx, bdisk, bdata, pc, locals, store, elems, usedid, isr, intr>>

Complete(i) ==
  /\ i \in taken
  /\ taken' = taken \ {i}
  /\ LET b == infob[i] IN
     IF req[i] = "write"
     THEN store' = [store EXCEPT ![b] = bdata[b]] /\ UNCHANGED bdata
     ELSE bdata' = [bdata EXCEPT ![b] = store[b]] /\ UNCHANGED store
  /\ elems' = [elems EXCEPT ![usedid % NUM] = i]
  /\ usedid' = (usedid + 1) % IDX
  /\ isr' = 1
  /\ UNCHANGED <<driver, bdisk, pc, locals, seen, intr>>
-----------------------------------------------------------------------------
(* One iteration of its loop moves disk.used_idx. *)
NextUsed(i) == (i + 1) % NUM

NothingUsed == usedidx % NUM = usedid % NUM

(* virtio_disk_intr(), entered while the interrupt line is high. *)
IntrEnter ==
  /\ intr = "idle" /\ isr = 1
  /\ intr' = "loop"
  /\ UNCHANGED <<driver, bdisk, bdata, pc, locals, device, isr>>

IntrOne ==
  /\ intr = "loop"
  /\ ~NothingUsed
  /\ LET b == infob[elems[usedidx]] IN
     /\ bdisk' = [bdisk EXCEPT ![b] = 0]
     /\ pc' = [q \in Proc |-> IF pc[q] = "wait" /\ pb[q] = b THEN "woken" ELSE pc[q]]
  /\ elems' = [elems EXCEPT ![usedidx] = 0]
  /\ usedidx' = NextUsed(usedidx)
  /\ UNCHANGED <<free, next, infob, req, avail, availidx, bdata, locals,
                 store, seen, taken, usedid, isr, intr>>

IntrDrained ==
  /\ intr = "loop" /\ NothingUsed
  /\ intr' = "ack"
  /\ UNCHANGED <<driver, bdisk, bdata, pc, locals, device, isr>>

IntrAck ==
  /\ intr = "ack"
  /\ isr' = 0
  /\ intr' = "idle"
  /\ UNCHANGED <<driver, bdisk, bdata, pc, locals, device>>

-----------------------------------------------------------------------------
(* kill(): a process asleep in virtio_disk_rw() wakes up early and has to  *)
(* find out for itself that it is not yet done.                            *)
Kill(p) ==
  /\ p \in Killable
  /\ pc[p] \in {"wait", "no_desc"}
  /\ Goto(p, IF pc[p] = "wait" THEN "woken" ELSE "alloc")
  /\ UNCHANGED <<driver, bdisk, bdata, locals, device, isr, intr>>

Rw(p) == NoDesc(p) \/ Submit(p) \/ Finish(p)

Intr == IntrEnter \/ IntrOne \/ IntrDrained \/ IntrAck

Next == \/ \E p \in Proc : \/ Rw(p) \/ Kill(p)
                           \/ \E b \in Block, w \in {0, 1}, d \in Data : Call(p, b, w, d)
        \/ Take \/ \E i \in Desc : Complete(i)
        \/ Intr

Spec == Init /\ [][Next]_vars

(* Processes that can run do, the device serves every request it was told  *)
(* of, and the interrupt is taken as long as its line is high.             *)
FairSpec == /\ Spec
            /\ \A p \in Proc : WF_vars(Rw(p))
            /\ WF_vars(Take) /\ \A i \in Desc : WF_vars(Complete(i))
            /\ WF_vars(Intr)
-----------------------------------------------------------------------------
(* The requests that have a chain of descriptors. *)
Owners == {p \in Proc : id0[p] # None}

(* Descriptors are conserved: each one that is not free belongs to the     *)
(* chain of exactly one request.                                           *)
DescOwned ==
  /\ {i \in Desc : free[i] = 0} = UNION {Chain(id0[p]) : p \in Owners}
  /\ \A p, q \in Owners : p # q => Chain(id0[p]) \cap Chain(id0[q]) = {}

(* What the driver has published and the device has not finished. *)
Pending == taken \cup {avail[(seen + k) % NUM] :
                         k \in 0..((availidx - seen + IDX) % IDX) - 1}

(* While the device works on a request, the buffer is the device's: its    *)
(* process has not returned and b->disk is set.                            *)
DeviceOwns ==
  \A i \in Pending : \E p \in Owners : /\ id0[p] = i /\ pc[p] \in {"wait", "woken"}
                                       /\ infob[i] = pb[p] /\ bdisk[pb[p]] = 1

(* When virtio_disk_rw() returns, the buffer and the disk agree, and until *)
(* then a write has not changed the buffer, nor a read the disk.           *)
TransferDone ==
  [][\A p \in Proc : pb[p] # None =>
       /\ pc[p] = "woken" /\ pc'[p] = "idle" => bdata[pb[p]] = store[pb[p]]
       /\ IF pw[p] = 1 THEN bdata'[pb[p]] = bdata[pb[p]]
                       ELSE store'[pb[p]] = store[pb[p]]]_vars

(* "Wait for virtio_disk_intr() to say request has finished": it does say  *)
(* so for every request.                                                   *)
RequestsFinish == \A p \in Proc : pc[p] = "wait" ~> pc[p] = "idle"
============================================================================
