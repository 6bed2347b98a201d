---------------------------- MODULE VirtioProofs ----------------------------
(***************************************************************************)
(* Proofs about Virtio, for any number of processes, blocks and            *)
(* descriptors and any width of the ring indices.  The invariant says who  *)
(* owns each descriptor, and follows a request from avail[] to the device  *)
(* and from there to used->elems[], until the driver has taken note of it. *)
(***************************************************************************)
EXTENDS Virtio, TLAPS

TypeOK ==
  /\ free \in [Desc -> {0, 1}]
  /\ next \in [Desc -> Desc \cup {None}]
  /\ infob \in [Desc -> Block \cup {None}]
  /\ req \in [Desc -> {"read", "write"}]
  /\ avail \in [Desc -> Desc]
  /\ availidx \in 0..IDX - 1
  /\ elems \in [Desc -> Desc]
  /\ usedid \in 0..IDX - 1
  /\ usedidx \in Desc
  /\ bdisk \in [Block -> {0, 1}]
  /\ bdata \in [Block -> Data]
  /\ pc \in [Proc -> {"idle", "alloc", "no_desc", "wait", "woken"}]
  /\ pb \in [Proc -> Block \cup {None}]
  /\ pw \in [Proc -> {0, 1}]
  /\ id0 \in [Proc -> Desc \cup {None}]
  /\ store \in [Block -> Data]
  /\ seen \in 0..IDX - 1
  /\ taken \in SUBSET Desc

(* A process has a buffer while it is in virtio_disk_rw(), alone, and a    *)
(* chain from alloc3_desc() to free_chain().                               *)
Calls ==
  /\ \A p \in Proc : pc[p] = "idle" <=> pb[p] = None
  /\ \A p \in Proc : pc[p] \in {"wait", "woken"} <=> id0[p] # None
  /\ \A p, q \in Proc : pb[p] = pb[q] /\ pb[p] # None => p = q

(* A chain has three descriptors, the first of which says what to do. *)
Second(p) == next[id0[p]]
Third(p) == next[next[id0[p]]]

Chains ==
  \A p \in Owners :
    /\ Second(p) \in Desc /\ Third(p) \in Desc /\ next[Third(p)] = None
    /\ id0[p] # Second(p) /\ id0[p] # Third(p) /\ Second(p) # Third(p)
    /\ infob[id0[p]] = pb[p]
    /\ req[id0[p]] = BlkType(pw[p])

(* DescOwned, descriptor by descriptor. *)
InChain(j, p) == j = id0[p] \/ j = Second(p) \/ j = Third(p)

Owned ==
  /\ \A j \in Desc : free[j] = 0 <=> \E p \in Owners : InChain(j, p)
  /\ \A p, q \in Owners, j \in Desc : InChain(j, p) /\ InChain(j, q) => p = q

(* The slot of a ring k entries after the index x. *)
Slot(x, k) == (x + k) % NUM

(* What avail[] holds for the device, from seen on. *)
NAvail == (availidx - seen + IDX) % IDX
Avail(k) == avail[Slot(seen, k)]
Published == {Avail(k) : k \in 0..NAvail - 1}

(* What used->elems[] holds for the driver, from disk.used_idx on. *)
NUsed == ((usedid % NUM) - usedidx + NUM) % NUM
Used(k) == elems[Slot(usedidx, k)]
Completed == {Used(k) : k \in 0..NUsed - 1}

(* A request is in one place at a time, and no ring is ever full. *)
AvailOnce == \A j, k \in 0..NAvail - 1 : Avail(j) = Avail(k) => j = k
UsedOnce == \A j, k \in 0..NUsed - 1 : Used(j) = Used(k) => j = k

Rings ==
  /\ NAvail < NUM
  /\ AvailOnce /\ UsedOnce
  /\ Published \cap taken = {} /\ Published \cap Completed = {} /\ taken \cap Completed = {}

(* A request is somewhere between submission and the interrupt handler     *)
(* exactly while b->disk is set.                                           *)
InFlight == Published \cup taken \cup Completed

Tracked ==
  /\ \A j \in InFlight : \E p \in Owners : id0[p] = j
  /\ \A p \in Owners : id0[p] \in InFlight <=> bdisk[pb[p]] = 1

(* When the device is done with a request, buffer and disk agree. *)
Settled ==
  \A p \in Owners : id0[p] \notin Published \cup taken => bdata[pb[p]] = store[pb[p]]

IInv == TypeOK /\ Calls /\ Chains /\ Owned /\ Rings /\ Tracked /\ Settled
-----------------------------------------------------------------------------
(* Arithmetic of a ring: division with remainder, and what it tells about  *)
(* indices modulo NUM.                                                     *)

(* A number is its quotient times the divisor, plus the remainder. *)
LEMMA DivMod ==
  ASSUME NEW d \in Nat \ {0}, NEW a \in Int
  PROVE  /\ a \div d \in Int /\ a % d \in 0..d - 1
         /\ a = (d * (a \div d)) + (a % d)
OBVIOUS

(* The remainder is the only one there is. *)
LEMMA ModUnique ==
  ASSUME NEW d \in Nat \ {0}, NEW a \in Int, NEW q \in Int, NEW r \in 0..d - 1,
         a = (d * q) + r
  PROVE  a % d = r
OBVIOUS

(* Going round the ring comes back to the same slot. *)
LEMMA ModRound ==
  ASSUME NEW d \in Nat \ {0}, NEW a \in Int, NEW c \in Int
  PROVE  (a + (d * c)) % d = a % d
<1> DEFINE q == a \div d
           r == a % d
<1>1. q \in Int /\ r \in 0..d - 1 /\ a = (d * q) + r
  BY DivMod, Zenon
<1>2. a + (d * c) = (d * (q + c)) + r
  BY <1>1
<1> HIDE DEF q, r
<1>3. q + c \in Int /\ a + (d * c) \in Int
  BY <1>1
<1>4. (a + (d * c)) % d = r
  BY <1>1, <1>2, <1>3, ModUnique, Zenon
<1> QED  BY <1>4, Zenon DEF r

(* Less than a round apart, two indices are two slots. *)
LEMMA ModApart ==
  ASSUME NEW d \in Nat \ {0}, NEW a \in Int, NEW b \in Int, a < b, b < a + d
  PROVE  a % d # b % d
<1> SUFFICES ASSUME a % d = b % d PROVE FALSE
  BY Zenon
<1> DEFINE q == a \div d
           s == b \div d
<1>1. /\ q \in Int /\ a = (d * q) + (a % d)
      /\ s \in Int /\ b = (d * s) + (b % d)
  BY DivMod, Zenon
<1> HIDE DEF q, s
<1>2. s - q \in Int /\ 0 < d * (s - q) /\ d * (s - q) < d
  BY <1>1
<1>3. CASE s - q <= 0
  BY <1>2, <1>3
<1>4. CASE s - q >= 1
  BY <1>2, <1>4
<1> QED  BY <1>2, <1>3, <1>4

(* How far an index is ahead of another one, without the remainder. *)
LEMMA Distance ==
  ASSUME NEW d \in Nat \ {0}, NEW x \in 0..d - 1, NEW y \in 0..d - 1
  PROVE  (y - x + d) % d = IF y >= x THEN y - x ELSE y - x + d
<1>1. CASE y >= x
  <2>1. y - x + d = (d * 1) + (y - x)
    OBVIOUS
  <2> QED  BY <1>1, <2>1, ModUnique
<1>2. CASE ~(y >= x)
  <2>1. y - x + d = (d * 0) + (y - x + d)
    OBVIOUS
  <2> QED  BY <1>2, <2>1, ModUnique
<1> QED  BY <1>1, <1>2, Zenon

(* Going on by less than a round. *)
LEMMA Advance ==
  ASSUME NEW d \in Nat \ {0}, NEW x \in 0..d - 1, NEW k \in 0..d - 1
  PROVE  (x + k) % d = IF x + k < d THEN x + k ELSE x + k - d
<1>1. CASE x + k < d
  <2>1. x + k = (d * 0) + (x + k)
    OBVIOUS
  <2> QED  BY <1>1, <2>1, ModUnique
<1>2. CASE ~(x + k < d)
  <2>1. x + k = (d * 1) + (x + k - d)
    OBVIOUS
  <2> QED  BY <1>2, <2>1, ModUnique
<1> QED  BY <1>1, <1>2, Zenon

(* The remainder of a sum does not change when one term is replaced by its *)
(* remainder.                                                              *)
LEMMA ModPlus ==
  ASSUME NEW d \in Nat \ {0}, NEW a \in Int, NEW c \in Int
  PROVE  ((a % d) + c) % d = (a + c) % d
<1> DEFINE q == a \div d
           r == a % d
<1>1. q \in Int /\ r \in Int /\ a = (d * q) + r
  BY DivMod
<1> HIDE DEF q, r
<1>2. a + c = (r + c) + (d * q) /\ r + c \in Int
  BY <1>1
<1>3. ((r + c) + (d * q)) % d = (r + c) % d
  BY <1>1, <1>2, ModRound, Zenon
<1> QED  BY <1>2, <1>3, Zenon DEF r

(* The sizes of the rings and of the indices. *)
LEMMA Sizes ==
  /\ NUM \in Nat \ {0} /\ NUM >= 3
  /\ IDX \in Nat \ {0} /\ IDX > NUM
  /\ Desc = 0..NUM - 1
  /\ None \notin Proc /\ None \notin Block /\ None \notin Desc
BY VirtioAssumption DEF Desc

(* 2^16 is a whole number of rounds. *)
LEMMA WholeRounds ==
  ASSUME NEW x \in Int
  PROVE  (x % IDX) % NUM = x % NUM
<1>1. IDX \in Nat \ {0} /\ NUM \in Nat \ {0} /\ IDX % NUM = 0
  BY VirtioAssumption
<1> DEFINE c == IDX \div NUM
           q == x \div IDX
           r == x % IDX
<1>2. c \in Int /\ IDX = (NUM * c) + 0
  BY <1>1, DivMod
<1>3. q \in Int /\ r \in Int /\ x = (IDX * q) + r
  BY <1>1, DivMod
<1> HIDE DEF c, q, r
<1>4. NUM \in Nat \ {0}
  BY <1>1, Zenon
<1>5. x = r + (NUM * (c * q)) /\ c * q \in Int
  BY <1>1, <1>2, <1>3
<1>6. (r + (NUM * (c * q))) % NUM = r % NUM
  BY <1>3, <1>4, <1>5, ModRound, Zenon
<1> QED  BY <1>5, <1>6, Zenon DEF r

(* The slots of a round are different, and the slots after the next index  *)
(* are the next slots.                                                     *)
LEMMA Slots ==
  ASSUME NEW x \in Int
  PROVE  /\ \A k \in Int : Slot(x, k) \in Desc
         /\ \A j, k \in 0..NUM - 1 : Slot(x, j) = Slot(x, k) => j = k
         /\ \A k \in Int : Slot((x + 1) % NUM, k) = Slot(x, k + 1)
         /\ \A k \in Int : Slot((x + 1) % IDX, k) = Slot(x, k + 1)
         /\ Slot(x, 0) = x % NUM
<1>0. NUM \in Nat \ {0} /\ IDX \in Nat \ {0}
  BY Sizes, Zenon
<1>1. ASSUME NEW k \in Int PROVE Slot(x, k) \in Desc
  BY <1>0, DivMod, Sizes DEF Slot
<1>2. ASSUME NEW j \in 0..NUM - 1, NEW k \in 0..NUM - 1, j < k
      PROVE  (x + j) % NUM # (x + k) % NUM
  <2>1. x + j \in Int /\ x + k \in Int /\ x + j < x + k /\ x + k < x + j + NUM
    BY <1>0, <1>2
  <2> QED  BY <1>0, <2>1, ModApart, Zenon
<1>3. ASSUME NEW j \in 0..NUM - 1, NEW k \in 0..NUM - 1, j # k
      PROVE  Slot(x, j) # Slot(x, k)
  <2>1. CASE j < k
    BY <2>1, <1>2, Zenon DEF Slot
  <2>2. CASE k < j
    BY <2>2, <1>2, Zenon DEF Slot
  <2> QED  BY <1>0, <1>3, <2>1, <2>2
<1>4. ASSUME NEW k \in Int PROVE Slot((x + 1) % NUM, k) = Slot(x, k + 1)
  <2>1. x + 1 \in Int /\ x + 1 + k = x + (k + 1)
    OBVIOUS
  <2>2. (((x + 1) % NUM) + k) % NUM = (x + 1 + k) % NUM
    BY <1>0, <2>1, ModPlus, Zenon
  <2> QED  BY <2>1, <2>2, Zenon DEF Slot
<1>5. ASSUME NEW k \in Int PROVE Slot((x + 1) % IDX, k) = Slot(x, k + 1)
  <2> DEFINE y == (x + 1) % IDX
  <2>1. x + 1 \in Int /\ y \in Int
    BY <1>0, DivMod
  <2>2. y % NUM = (x + 1) % NUM
    BY <2>1, WholeRounds, Zenon
  <2> HIDE DEF y
  <2>3. ((y % NUM) + k) % NUM = (y + k) % NUM
    BY <1>0, <2>1, ModPlus, Zenon
  <2>4. Slot(y, k) = Slot((x + 1) % NUM, k)
    BY <2>2, <2>3, Zenon DEF Slot
  <2> QED  BY <1>4, <2>4, Zenon DEF y
<1>6. Slot(x, 0) = x % NUM
  BY <1>0 DEF Slot
<1> QED  BY <1>1, <1>3, <1>4, <1>5, <1>6, Zenon
-----------------------------------------------------------------------------
(* What a producer and a consumer do to a ring. *)

(* The slot after the last entry is none of the entries' slots. *)
LEMMA SlotAfter ==
  ASSUME NEW x \in Int, NEW n \in 0..NUM - 1
  PROVE  /\ Slot(x, n) \in Desc
         /\ \A k \in 0..n - 1 : Slot(x, k) \in Desc /\ Slot(x, k) # Slot(x, n)
<1>0. NUM \in Nat \ {0} /\ n \in Int
  BY Sizes
<1>1. Slot(x, n) \in Desc
  BY <1>0, Slots, Zenon
<1>2. ASSUME NEW k \in 0..n - 1
      PROVE  Slot(x, k) \in Desc /\ Slot(x, k) # Slot(x, n)
  <2>1. k \in 0..NUM - 1 /\ k \in Int /\ k # n
    BY <1>0
  <2> QED  BY <2>1, Slots, Zenon
<1> QED  BY <1>1, <1>2, Zenon

(* The slot of the first entry is none of the other entries' slots. *)
LEMMA SlotBefore ==
  ASSUME NEW x \in Int, NEW n \in 1..NUM - 1
  PROVE  /\ Slot(x, 0) \in Desc
         /\ \A k \in 0..n - 2 : Slot(x, k + 1) \in Desc /\ Slot(x, k + 1) # Slot(x, 0)
<1>0. NUM \in Nat \ {0} /\ 0 \in 0..NUM - 1 /\ 0 \in Int
  BY Sizes
<1>1. Slot(x, 0) \in Desc
  BY <1>0, Slots, Zenon
<1>2. ASSUME NEW k \in 0..n - 2
      PROVE  Slot(x, k + 1) \in Desc /\ Slot(x, k + 1) # Slot(x, 0)
  <2>1. k + 1 \in 0..NUM - 1 /\ k + 1 \in Int /\ k + 1 # 0
    BY <1>0
  <2> QED  BY <1>0, <2>1, Slots, Zenon
<1> QED  BY <1>1, <1>2, Zenon

(* avail[1] is NAvail entries ahead of the device. *)
LEMMA AvailCount ==
  ASSUME TypeOK
  PROVE  /\ NAvail = IF availidx >= seen THEN availidx - seen ELSE availidx - seen + IDX
         /\ NAvail \in 0..IDX - 1
         /\ availidx % NUM = Slot(seen, NAvail)
<1>1. availidx \in 0..IDX - 1 /\ seen \in 0..IDX - 1 /\ IDX \in Nat \ {0}
  BY Sizes, Zenon DEF TypeOK
<1>3. NAvail = IF availidx >= seen THEN availidx - seen ELSE availidx - seen + IDX
  BY <1>1, Distance, Zenon DEF NAvail
<1>4. NAvail \in 0..IDX - 1
  BY <1>1, <1>3
<1>5. seen + NAvail \in Int
  BY <1>1, <1>4
<1>6. (seen + NAvail) % IDX = availidx
  <2>1. (seen + NAvail) % IDX = IF seen + NAvail < IDX THEN seen + NAvail ELSE seen + NAvail - IDX
    BY <1>1, <1>4, Advance, Zenon
  <2> QED  BY <1>1, <1>3, <2>1
<1>7. ((seen + NAvail) % IDX) % NUM = (seen + NAvail) % NUM
  BY <1>5, WholeRounds, Zenon
<1> QED  BY <1>3, <1>4, <1>6, <1>7, Zenon DEF Slot

(* virtio_disk_rw() publishes a request. *)
LEMMA AvailPush ==
  ASSUME TypeOK, NAvail < NUM, NEW a \in Desc,
         avail' = [avail EXCEPT ![Slot(seen, NAvail)] = a],
         availidx' = (availidx + 1) % IDX, seen' = seen
  PROVE  /\ avail' \in [Desc -> Desc] /\ availidx' \in 0..IDX - 1
         /\ NAvail' = NAvail + 1
         /\ Published' = Published \cup {a}
         /\ AvailOnce /\ a \notin Published => AvailOnce'
<1>1. /\ availidx \in 0..IDX - 1 /\ seen \in 0..IDX - 1
      /\ IDX \in Nat \ {0} /\ NUM \in Nat \ {0} /\ IDX > NUM /\ seen \in Int
      /\ avail \in [Desc -> Desc]
  BY Sizes, SMTT(30) DEF TypeOK
<1>2. /\ NAvail = IF availidx >= seen THEN availidx - seen ELSE availidx - seen + IDX
      /\ NAvail \in 0..NUM - 1
      /\ availidx % NUM = Slot(seen, NAvail)
  BY <1>1, AvailCount
<1>3. availidx' = (IF availidx + 1 = IDX THEN 0 ELSE availidx + 1) /\ availidx' \in 0..IDX - 1
  <2>1. 1 \in 0..IDX - 1
    BY <1>1
  <2>2. (availidx + 1) % IDX = IF availidx + 1 < IDX THEN availidx + 1 ELSE availidx + 1 - IDX
    BY <1>1, <2>1, Advance, Zenon
  <2> QED  BY <1>1, <2>2
<1>4. NAvail' = IF availidx' >= seen THEN availidx' - seen ELSE availidx' - seen + IDX
  <2>1. IDX \in Nat \ {0} /\ availidx' \in 0..IDX - 1 /\ seen' \in 0..IDX - 1
    BY <1>1, <1>3, Zenon
  <2> QED  BY <2>1, Distance, Zenon DEF NAvail
<1>5. NAvail' = NAvail + 1
  BY <1>1, <1>2, <1>3, <1>4
<1>6. /\ avail' \in [Desc -> Desc]
      /\ \A k \in 0..NAvail - 1 : avail'[Slot(seen, k)] = avail[Slot(seen, k)]
      /\ avail'[Slot(seen, NAvail)] = a
  <2>2. /\ Slot(seen, NAvail) \in Desc
        /\ \A k \in 0..NAvail - 1 : Slot(seen, k) \in Desc /\ Slot(seen, k) # Slot(seen, NAvail)
    BY <1>1, <1>2, SlotAfter, Zenon
  <2> QED  BY <1>1, <2>2, Zenon
<1>7. (\A k \in 0..NAvail - 1 : Avail(k)' = Avail(k)) /\ avail'[Slot(seen', NAvail)] = a
  BY <1>6, Zenon DEF Avail
<1>8. \A k : k \in 0..NAvail' - 1 <=> k \in 0..NAvail - 1 \/ k = NAvail
  BY <1>2, <1>5
<1>9. Published' = Published \cup {a}
  BY <1>7, <1>8, Zenon DEF Published, Avail
<1>10. AvailOnce /\ a \notin Published => AvailOnce'
  BY <1>7, <1>8 DEF AvailOnce, Published, Avail
<1> QED  BY <1>3, <1>5, <1>6, <1>9, <1>10, Zenon

(* The device takes the oldest request from avail[]. *)
LEMMA AvailPop ==
  ASSUME TypeOK, NAvail < NUM, AvailOnce, seen # availidx,
         avail' = [avail EXCEPT ![Slot(seen, 0)] = 0],
         seen' = (seen + 1) % IDX, availidx' = availidx
  PROVE  /\ avail' \in [Desc -> Desc] /\ seen' \in 0..IDX - 1
         /\ NAvail' = NAvail - 1
         /\ avail[seen % NUM] \in Published
         /\ Published' = Published \ {avail[seen % NUM]}
         /\ AvailOnce'
<1>1. /\ availidx \in 0..IDX - 1 /\ seen \in 0..IDX - 1
      /\ IDX \in Nat \ {0} /\ NUM \in Nat \ {0} /\ IDX > NUM /\ seen \in Int
      /\ avail \in [Desc -> Desc]
  BY Sizes, SMTT(30) DEF TypeOK
<1>2. /\ NAvail = IF availidx >= seen THEN availidx - seen ELSE availidx - seen + IDX
      /\ NAvail \in 1..NUM - 1
  BY <1>1, AvailCount
<1>3. seen' = (IF seen + 1 = IDX THEN 0 ELSE seen + 1) /\ seen' \in 0..IDX - 1
  <2>1. 1 \in 0..IDX - 1
    BY <1>1
  <2>2. (seen + 1) % IDX = IF seen + 1 < IDX THEN seen + 1 ELSE seen + 1 - IDX
    BY <1>1, <2>1, Advance, Zenon
  <2> QED  BY <1>1, <2>2
<1>4. NAvail' = IF availidx >= seen' THEN availidx - seen' ELSE availidx - seen' + IDX
  <2>1. IDX \in Nat \ {0} /\ availidx' \in 0..IDX - 1 /\ seen' \in 0..IDX - 1
    BY <1>1, <1>3, Zenon
  <2> QED  BY <2>1, Distance, Zenon DEF NAvail
<1>5. NAvail' = NAvail - 1
  BY <1>1, <1>2, <1>3, <1>4
<1>6. /\ avail' \in [Desc -> Desc]
      /\ \A k \in 0..NAvail - 2 : avail'[Slot(seen, k + 1)] = avail[Slot(seen, k + 1)]
  <2>2. /\ Slot(seen, 0) \in Desc
        /\ \A k \in 0..NAvail - 2 : Slot(seen, k + 1) \in Desc /\ Slot(seen, k + 1) # Slot(seen, 0)
    BY <1>1, <1>2, SlotBefore, Zenon
  <2>3. 0 \in Desc
    BY Sizes
  <2> QED  BY <1>1, <2>2, <2>3, Zenon
<1>7. \A k \in Int : Slot(seen', k) = Slot(seen, k + 1)
  BY <1>1, Slots, Zenon
<1>8. \A k \in 0..NAvail' - 1 : Avail(k)' = Avail(k + 1)
  <2>1. \A k \in 0..NAvail' - 1 : k \in Int /\ k \in 0..NAvail - 2
    BY <1>2, <1>5
  <2> QED  BY <2>1, <1>6, <1>7, Zenon DEF Avail
<1>9. Avail(0) = avail[seen % NUM]
  BY <1>1, Slots, Zenon DEF Avail
<1>10. 0 \in 0..NAvail - 1 /\ \A k \in 0..NAvail' - 1 : k + 1 \in 0..NAvail - 1 /\ k + 1 # 0
  BY <1>2, <1>5
<1>11. \A j \in 0..NAvail - 1 : j = 0 \/ \E k \in 0..NAvail' - 1 : j = k + 1
  <2>1. \A j \in 0..NAvail - 1 : j # 0 => j - 1 \in 0..NAvail' - 1 /\ j = (j - 1) + 1
    BY <1>2, <1>5
  <2> QED  BY <2>1, Zenon
<1>12. Published' = Published \ {Avail(0)}
  <2>1. \A v \in Published' : v \in Published /\ v # Avail(0)
    BY <1>8, <1>10, Zenon DEF Published, AvailOnce
  <2>2. \A v \in Published : v # Avail(0) => v \in Published'
    BY <1>8, <1>11 DEF Published
  <2> QED  BY <2>1, <2>2, Zenon
<1>13. AvailOnce'
  <2>1. ASSUME NEW j \in 0..NAvail' - 1, NEW k \in 0..NAvail' - 1, Avail(j)' = Avail(k)'
        PROVE  j = k
    <3>1. j + 1 = k + 1
      BY <1>8, <1>10, <2>1, Zenon DEF AvailOnce
    <3> QED  BY <3>1, <1>2, <1>5
  <2> QED  BY <2>1, Zenon DEF AvailOnce
<1> QED  BY <1>3, <1>5, <1>6, <1>9, <1>10, <1>12, <1>13, Zenon DEF Published

(* used->id is NUsed entries ahead of disk.used_idx, as long as the ring   *)
(* is never full: the handler compares the two modulo NUM.                 *)
LEMMA UsedCount ==
  ASSUME TypeOK
  PROVE  /\ NUsed = IF usedid % NUM >= usedidx THEN (usedid % NUM) - usedidx
                    ELSE (usedid % NUM) - usedidx + NUM
         /\ usedid % NUM \in 0..NUM - 1
         /\ NUsed \in 0..NUM - 1
         /\ usedid % NUM = Slot(usedidx, NUsed)
         /\ NothingUsed <=> NUsed = 0
<1>1. usedid \in Int /\ usedidx \in 0..NUM - 1 /\ NUM \in Nat \ {0}
  BY Sizes DEF TypeOK
<1> DEFINE u == usedid % NUM
<1>2. u \in 0..NUM - 1
  BY <1>1, DivMod, Zenon
<1> HIDE DEF u
<1>3. (u - usedidx + NUM) % NUM = IF u >= usedidx THEN u - usedidx ELSE u - usedidx + NUM
  BY <1>1, <1>2, Distance, Zenon
<1>4. NUsed = (u - usedidx + NUM) % NUM
  BY Zenon DEF NUsed, u
<1>5. NUsed \in 0..NUM - 1
  BY <1>1, <1>2, <1>3, <1>4
<1>6. (usedidx + NUsed) % NUM = IF usedidx + NUsed < NUM THEN usedidx + NUsed
                                ELSE usedidx + NUsed - NUM
  BY <1>1, <1>5, Advance, Zenon
<1>7. u = Slot(usedidx, NUsed)
  BY <1>1, <1>2, <1>3, <1>4, <1>5, <1>6 DEF Slot
<1>8. usedidx % NUM = usedidx
  <2>1. usedidx = (NUM * 0) + usedidx /\ usedidx \in Int /\ 0 \in Int
    BY <1>1
  <2> QED  BY <1>1, <2>1, ModUnique, Zenon
<1>9. NothingUsed <=> NUsed = 0
  <2>1. NothingUsed <=> usedidx = u
    BY <1>8, Zenon DEF NothingUsed, u
  <2> QED  BY <2>1, <1>1, <1>2, <1>3, <1>4
<1> QED  BY <1>2, <1>3, <1>4, <1>5, <1>7, <1>9, Zenon DEF u

(* The device reports a finished request. *)
LEMMA UsedPush ==
  ASSUME TypeOK, NUsed < NUM - 1, NEW a \in Desc,
         elems' = [elems EXCEPT ![Slot(usedidx, NUsed)] = a],
         usedid' = (usedid + 1) % IDX, usedidx' = usedidx
  PROVE  /\ elems' \in [Desc -> Desc] /\ usedid' \in 0..IDX - 1
         /\ NUsed' = NUsed + 1
         /\ Completed' = Completed \cup {a}
         /\ UsedOnce /\ a \notin Completed => UsedOnce'
<1>1. /\ usedid \in Int /\ usedid + 1 \in Int /\ usedidx \in 0..NUM - 1 /\ usedidx \in Int
      /\ NUM \in Nat \ {0} /\ NUM >= 3 /\ IDX \in Nat \ {0}
      /\ elems \in [Desc -> Desc]
  BY Sizes, SMTT(30) DEF TypeOK
<1> DEFINE u == usedid % NUM
           v == usedid' % NUM
<1>2. /\ NUsed = IF u >= usedidx THEN u - usedidx ELSE u - usedidx + NUM
      /\ u \in 0..NUM - 1
      /\ NUsed \in 0..NUM - 1
  BY UsedCount, Zenon
<1>3. usedid' \in 0..IDX - 1
  BY <1>1, DivMod, Zenon
<1>4. v = IF u + 1 = NUM THEN 0 ELSE u + 1
  <2>1. v = (usedid + 1) % NUM
    BY <1>1, WholeRounds, Zenon
  <2>2. ((usedid % NUM) + 1) % NUM = (usedid + 1) % NUM
    <3>1. 1 \in Int
      OBVIOUS
    <3> QED  BY <1>1, <3>1, ModPlus, Zenon
  <2> HIDE DEF u, v
  <2>3. v = (u + 1) % NUM
    BY <2>1, <2>2, Zenon DEF u
  <2>4. 1 \in 0..NUM - 1
    BY <1>1
  <2>5. (u + 1) % NUM = IF u + 1 < NUM THEN u + 1 ELSE u + 1 - NUM
    BY <1>1, <1>2, <2>4, Advance, Zenon
  <2> QED  BY <1>1, <1>2, <2>3, <2>5
<1> HIDE DEF u, v
<1>5. NUsed' = NUsed + 1
  <2>1. v \in 0..NUM - 1
    BY <1>1, <1>2, <1>4
  <2>2. (v - usedidx + NUM) % NUM = IF v >= usedidx THEN v - usedidx ELSE v - usedidx + NUM
    BY <1>1, <2>1, Distance, Zenon
  <2>3. NUsed' = (v - usedidx + NUM) % NUM
    BY Zenon DEF NUsed, v
  <2> QED  BY <1>1, <1>2, <1>4, <2>2, <2>3
<1>6. /\ elems' \in [Desc -> Desc]
      /\ \A k \in 0..NUsed - 1 : elems'[Slot(usedidx, k)] = elems[Slot(usedidx, k)]
      /\ elems'[Slot(usedidx, NUsed)] = a
  <2>1. /\ Slot(usedidx, NUsed) \in Desc
        /\ \A k \in 0..NUsed - 1 : /\ Slot(usedidx, k) \in Desc
                                   /\ Slot(usedidx, k) # Slot(usedidx, NUsed)
    BY <1>1, <1>2, SlotAfter, Zenon
  <2> QED  BY <1>1, <2>1, Zenon
<1>7. (\A k \in 0..NUsed - 1 : Used(k)' = Used(k)) /\ elems'[Slot(usedidx', NUsed)] = a
  BY <1>6, Zenon DEF Used
<1>8. \A k : k \in 0..NUsed' - 1 <=> k \in 0..NUsed - 1 \/ k = NUsed
  BY <1>2, <1>5
<1>9. Completed' = Completed \cup {a}
  BY <1>7, <1>8, Zenon DEF Completed, Used
<1>10. UsedOnce /\ a \notin Completed => UsedOnce'
  BY <1>7, <1>8 DEF UsedOnce, Completed, Used
<1> QED  BY <1>3, <1>5, <1>6, <1>9, <1>10, Zenon

(* virtio_disk_intr() takes note of the oldest finished request. *)
LEMMA UsedPop ==
  ASSUME TypeOK, UsedOnce, ~NothingUsed,
         elems' = [elems EXCEPT ![usedidx] = 0],
         usedidx' = (usedidx + 1) % NUM, usedid' = usedid
  PROVE  /\ elems' \in [Desc -> Desc] /\ usedidx' \in Desc
         /\ NUsed' = NUsed - 1
         /\ elems[usedidx] \in Completed
         /\ Completed' = Completed \ {elems[usedidx]}
         /\ UsedOnce'
<1>1. /\ usedidx \in 0..NUM - 1 /\ usedidx \in Int
      /\ NUM \in Nat \ {0} /\ NUM >= 3 /\ Desc = 0..NUM - 1
      /\ elems \in [Desc -> Desc]
  <2>1. usedidx \in Desc /\ elems \in [Desc -> Desc]
    BY Zenon DEF TypeOK
  <2> QED  BY <2>1, Sizes
<1> DEFINE u == usedid % NUM
<1>2. /\ NUsed = IF u >= usedidx THEN u - usedidx ELSE u - usedidx + NUM
      /\ u \in 0..NUM - 1
      /\ NUsed \in 1..NUM - 1
  BY <1>1, UsedCount
<1> HIDE DEF u
<1>3. usedidx' = (IF usedidx + 1 = NUM THEN 0 ELSE usedidx + 1) /\ usedidx' \in 0..NUM - 1
  <2>1. 1 \in 0..NUM - 1
    BY <1>1
  <2>2. (usedidx + 1) % NUM = IF usedidx + 1 < NUM THEN usedidx + 1 ELSE usedidx + 1 - NUM
    BY <1>1, <2>1, Advance, Zenon
  <2> QED  BY <1>1, <2>2
<1>5. NUsed' = NUsed - 1
  <2> DEFINE y == usedidx'
  <2>0. y = (IF usedidx + 1 = NUM THEN 0 ELSE usedidx + 1) /\ y \in 0..NUM - 1
    BY <1>3, Zenon
  <2>2. NUsed' = (u - y + NUM) % NUM
    BY Zenon DEF NUsed, u
  <2> HIDE DEF y
  <2>1. (u - y + NUM) % NUM = IF u >= y THEN u - y ELSE u - y + NUM
    BY <1>1, <1>2, <2>0, Distance, Zenon
  <2>3. NUsed' = IF u >= y THEN u - y ELSE u - y + NUM
    BY <2>1, <2>2, Zenon
  <2>4. CASE usedidx + 1 = NUM
    BY <1>1, <1>2, <2>0, <2>3, <2>4
  <2>5. CASE usedidx + 1 # NUM
    BY <1>1, <1>2, <2>0, <2>3, <2>5
  <2> QED  BY <2>4, <2>5, Zenon
<1>6. Slot(usedidx, 0) = usedidx
  <2>1. usedidx + 0 = (NUM * 0) + usedidx /\ usedidx + 0 \in Int /\ 0 \in Int
    BY <1>1
  <2> QED  BY <1>1, <2>1, ModUnique, Zenon DEF Slot
<1>7. /\ elems' \in [Desc -> Desc]
      /\ \A k \in 0..NUsed - 2 : elems'[Slot(usedidx, k + 1)] = elems[Slot(usedidx, k + 1)]
  <2>1. \A k \in 0..NUsed - 2 : Slot(usedidx, k + 1) \in Desc /\ Slot(usedidx, k + 1) # usedidx
    BY <1>1, <1>2, <1>6, SlotBefore, Zenon
  <2>2. 0 \in Desc
    BY <1>1
  <2> QED  BY <1>1, <2>1, <2>2, Zenon
<1>8. \A k \in Int : Slot(usedidx', k) = Slot(usedidx, k + 1)
  BY <1>1, Slots, Zenon
<1>9. \A k \in 0..NUsed' - 1 : Used(k)' = Used(k + 1)
  <2>1. \A k \in 0..NUsed' - 1 : k \in Int /\ k \in 0..NUsed - 2
    BY <1>2, <1>5
  <2> QED  BY <2>1, <1>7, <1>8, Zenon DEF Used
<1>10. Used(0) = elems[usedidx]
  BY <1>6, Zenon DEF Used
<1>11. 0 \in 0..NUsed - 1 /\ \A k \in 0..NUsed' - 1 : k + 1 \in 0..NUsed - 1 /\ k + 1 # 0
  BY <1>2, <1>5
<1>12. \A j \in 0..NUsed - 1 : j = 0 \/ \E k \in 0..NUsed' - 1 : j = k + 1
  <2>1. \A j \in 0..NUsed - 1 : j # 0 => j - 1 \in 0..NUsed' - 1 /\ j = (j - 1) + 1
    BY <1>2, <1>5
  <2> QED  BY <2>1, Zenon
<1>13. Completed' = Completed \ {Used(0)}
  <2>1. \A v \in Completed' : v \in Completed /\ v # Used(0)
    BY <1>9, <1>11, Zenon DEF Completed, UsedOnce
  <2>2. \A v \in Completed : v # Used(0) => v \in Completed'
    BY <1>9, <1>12 DEF Completed
  <2> QED  BY <2>1, <2>2, Zenon
<1>14. UsedOnce'
  <2>1. ASSUME NEW j \in 0..NUsed' - 1, NEW k \in 0..NUsed' - 1, Used(j)' = Used(k)'
        PROVE  j = k
    <3>1. j + 1 = k + 1
      BY <1>9, <1>11, <2>1, Zenon DEF UsedOnce
    <3> QED  BY <3>1, <1>2, <1>5
  <2> QED  BY <2>1, Zenon DEF UsedOnce
<1> QED  BY <1>1, <1>3, <1>5, <1>7, <1>10, <1>11, <1>13, <1>14, Zenon DEF Completed
-----------------------------------------------------------------------------
(* Which descriptors alloc3_desc() takes.  Two facts about sets of         *)
(* descriptors are named here and proved at the end, with the library: the *)
(* lowest three of a set that has three are three in order, and NUM        *)
(* different descriptors are all of them.                                  *)
LowestAreThree ==
  \A S \in SUBSET Desc :
    Cardinality(S) >= 3 => \E x, y, z \in S : x < y /\ y < z /\ Lowest(S, 3) = {x, y, z}

NoMoreThanNUM ==
  \A f \in [Desc -> Desc] :
    (\A j, k \in Desc : f[j] = f[k] => j = k) => \A x \in Desc : \E k \in Desc : f[k] = x

(* What Submit does, with the three descriptors named. *)
Takes(p, a, b, c) ==
  /\ a \in Desc /\ b \in Desc /\ c \in Desc
  /\ a # b /\ a # c /\ b # c
  /\ free[a] = 1 /\ free[b] = 1 /\ free[c] = 1
  /\ free' = Mark({a, b, c})
  /\ next' = [next EXCEPT ![a] = b, ![b] = c, ![c] = None]
  /\ req' = [req EXCEPT ![a] = BlkType(pw[p])]
  /\ infob' = [infob EXCEPT ![a] = pb[p]]
  /\ avail' = [avail EXCEPT ![availidx % NUM] = a]
  /\ id0' = [id0 EXCEPT ![p] = a]

(* The part of virtio_disk_rw() up to the notify takes three free          *)
(* descriptors and links them into one chain.                              *)
LEMMA SubmitTakes ==
  ASSUME LowestAreThree, TypeOK, NEW p \in Proc, Submit(p)
  PROVE  \E a, b, c \in Desc : Takes(p, a, b, c)
<1> DEFINE S == Lowest(FreeDescs, 3)
           a == Min(S)
           c == Max(S)
           b == CHOOSE i \in S : i # a /\ i # c
<1>1. FreeDescs \in SUBSET Desc /\ Desc \in SUBSET Nat
  BY Sizes DEF FreeDescs
<1>2. PICK x, y, z \in FreeDescs : x < y /\ y < z /\ S = {x, y, z}
  BY <1>1, Zenon DEF Submit, LowestAreThree
<1>3. /\ free' = Mark(S)
      /\ next' = [next EXCEPT ![a] = b, ![b] = c, ![c] = None]
      /\ req' = [req EXCEPT ![a] = BlkType(pw[p])]
      /\ infob' = [infob EXCEPT ![a] = pb[p]]
      /\ avail' = [avail EXCEPT ![availidx % NUM] = a]
      /\ id0' = [id0 EXCEPT ![p] = a]
  BY Zenon DEF Submit
<1> HIDE DEF S
<1>4. x \in Nat /\ y \in Nat /\ z \in Nat
  BY <1>1, Zenon
<1>5. a = x /\ c = z
  <2>1. \A m \in S : (\A k \in S : m <= k) <=> m = x
    BY <1>2, <1>4
  <2>2. \A m \in S : (\A k \in S : m >= k) <=> m = z
    BY <1>2, <1>4
  <2> QED  BY <1>2, <2>1, <2>2, Zenon DEF Min, Max
<1> HIDE DEF a, c
<1>6. b = y
  <2>1. \A i \in S : (i # a /\ i # c) <=> i = y
    BY <1>2, <1>4, <1>5
  <2> QED  BY <1>2, <2>1, Zenon
<1> HIDE DEF b
<1>7. /\ x \in Desc /\ y \in Desc /\ z \in Desc
      /\ free[x] = 1 /\ free[y] = 1 /\ free[z] = 1
      /\ x # y /\ x # z /\ y # z
  BY <1>1, <1>2, <1>4 DEF FreeDescs
<1>8. Takes(p, x, y, z)
  BY <1>2, <1>3, <1>5, <1>6, <1>7, Zenon DEF Takes
<1> QED  BY <1>7, <1>8, Zenon

(* The chain of a request is its three descriptors. *)
LEMMA ChainIs ==
  ASSUME Chains, NEW p \in Owners
  PROVE  Chain(id0[p]) = {id0[p], Second(p), Third(p)}
<1>1. Second(p) # None /\ Third(p) # None
  BY Sizes, Zenon DEF Chains
<1> QED  BY <1>1, Zenon DEF Chain, Second, Third
-----------------------------------------------------------------------------
(* Invariance.  What the steps leave alone. *)

(* A step of the driver or the device that writes neither ring leaves what *)
(* is published and what is completed as it was.                           *)
LEMMA RingsFrame ==
  ASSUME UNCHANGED <<avail, availidx, seen, elems, usedid, usedidx>>
  PROVE  /\ NAvail' = NAvail /\ Published' = Published /\ (AvailOnce' <=> AvailOnce)
         /\ NUsed' = NUsed /\ Completed' = Completed /\ (UsedOnce' <=> UsedOnce)
BY DEF NAvail, Published, AvailOnce, Avail, NUsed, Completed, UsedOnce, Used, Slot

(* A step that writes no descriptor and no idx[0] leaves every chain and   *)
(* its owner as they were.                                                 *)
LEMMA ChainsFrame ==
  ASSUME UNCHANGED <<next, id0>>
  PROVE  /\ Owners' = Owners
         /\ \A p : Second(p)' = Second(p) /\ Third(p)' = Third(p)
         /\ \A p, j : InChain(j, p)' <=> InChain(j, p)
BY Zenon DEF Owners, Second, Third, InChain

(* The owner of a chain waits for the device; it has a buffer of its own   *)
(* and descriptors that are not free.                                      *)
LEMMA OwnerFacts ==
  ASSUME IInv, NEW p \in Owners
  PROVE  /\ p \in Proc /\ pc[p] \in {"wait", "woken"}
         /\ pb[p] \in Block
         /\ id0[p] \in Desc /\ Second(p) \in Desc /\ Third(p) \in Desc
         /\ free[id0[p]] = 0 /\ free[Second(p)] = 0 /\ free[Third(p)] = 0
<1>1. p \in Proc /\ id0[p] # None
  BY Zenon DEF Owners
<1>2. pc[p] \in {"wait", "woken"} /\ pb[p] # None
  BY <1>1, Zenon DEF IInv, Calls
<1>3. pb[p] \in Block /\ id0[p] \in Desc
  BY <1>1, <1>2, Zenon DEF IInv, TypeOK
<1>4. Second(p) \in Desc /\ Third(p) \in Desc
  BY Zenon DEF IInv, Chains
<1>5. free[id0[p]] = 0 /\ free[Second(p)] = 0 /\ free[Third(p)] = 0
  BY <1>3, <1>4, Zenon DEF IInv, Owned, InChain
<1> QED  BY <1>1, <1>2, <1>3, <1>4, <1>5, Zenon

(* Two requests have nothing in common. *)
LEMMA OwnersApart ==
  ASSUME IInv, NEW p \in Owners, NEW q \in Owners, p # q
  PROVE  /\ pb[p] # pb[q]
         /\ id0[p] # id0[q] /\ id0[p] # Second(q) /\ id0[p] # Third(q)
         /\ Second(p) # Second(q) /\ Second(p) # Third(q) /\ Third(p) # Third(q)
<1>1. pb[p] # pb[q]
  <2>1. pb[p] \in Block /\ p \in Proc /\ q \in Proc
    BY OwnerFacts, Zenon
  <2> QED  BY <2>1, Sizes, Zenon DEF IInv, Calls
<1>2. id0[p] \in Desc /\ Second(p) \in Desc /\ Third(p) \in Desc
  BY OwnerFacts, Zenon
<1> QED  BY <1>1, <1>2, Zenon DEF IInv, Owned, InChain

(* Where the processes are changes: sleep and wakeup. *)
LEMMA PcStep ==
  ASSUME IInv, UNCHANGED <<driver, bdisk, bdata, locals, device>>,
         pc' \in [Proc -> {"idle", "alloc", "no_desc", "wait", "woken"}],
         \A p \in Proc : /\ pc'[p] = "idle" <=> pc[p] = "idle"
                         /\ pc'[p] \in {"wait", "woken"} <=> pc[p] \in {"wait", "woken"}
  PROVE  IInv'
<1> USE DEF IInv, driver, locals, device
<1>0. /\ NAvail' = NAvail /\ Published' = Published /\ (AvailOnce' <=> AvailOnce)
      /\ NUsed' = NUsed /\ Completed' = Completed /\ (UsedOnce' <=> UsedOnce)
  BY RingsFrame, Zenon
<1>c. /\ Owners' = Owners
      /\ \A p : Second(p)' = Second(p) /\ Third(p)' = Third(p)
      /\ \A p, j : InChain(j, p)' <=> InChain(j, p)
  BY ChainsFrame, Zenon
<1>1. TypeOK'
  BY Zenon DEF TypeOK
<1>2. Calls'
  BY Zenon DEF Calls
<1>3. Chains'
  BY <1>c, Zenon DEF Chains, BlkType
<1>4. Owned'
  BY <1>c, Zenon DEF Owned
<1>5. Rings'
  BY <1>0, Zenon DEF Rings
<1>6. Tracked'
  BY <1>0, <1>c, Zenon DEF Tracked, InFlight
<1>7. Settled'
  BY <1>0, <1>c, Zenon DEF Settled
<1> QED  BY <1>1, <1>2, <1>3, <1>4, <1>5, <1>6, <1>7, Zenon

(* virtio_disk_rw() finds too few free descriptors, gives back those it    *)
(* took, which wakes the others who wait for some, and sleeps.             *)
LEMMA NoDescInv ==
  ASSUME IInv, NEW p \in Proc, NoDesc(p)
  PROVE  IInv'
<1>1. pc \in [Proc -> {"idle", "alloc", "no_desc", "wait", "woken"}]
  BY Zenon DEF IInv, TypeOK
<1>2. UNCHANGED <<driver, bdisk, bdata, locals, device>>
  BY Zenon DEF NoDesc
<1>3. CASE FreeDescs = {}
  <2>1. pc' = [pc EXCEPT ![p] = "no_desc"] /\ pc[p] = "alloc"
    BY <1>3, Zenon DEF NoDesc
  <2> QED  BY <1>1, <1>2, <2>1, PcStep, Zenon
<1>4. CASE FreeDescs # {}
  <2>1. pc' = [WakeFree(pc) EXCEPT ![p] = "no_desc"] /\ pc[p] = "alloc"
    BY <1>4, Zenon DEF NoDesc
  <2>2. \A q \in Proc : pc'[q] = IF q = p THEN "no_desc"
                                 ELSE IF pc[q] = "no_desc" THEN "alloc" ELSE pc[q]
    BY <1>1, <2>1, Zenon DEF WakeFree
  <2>3. pc' \in [Proc -> {"idle", "alloc", "no_desc", "wait", "woken"}]
    BY <1>1, <2>1, Zenon DEF WakeFree
  <2> QED  BY <1>1, <1>2, <2>1, <2>2, <2>3, PcStep, Zenon
<1> QED  BY <1>3, <1>4, Zenon

(* kill() of a process that sleeps in virtio_disk_rw(): only pc moves.     *)
LEMMA KillInv ==
  ASSUME IInv, NEW p \in Proc, Kill(p)
  PROVE  IInv'
<1>1. pc \in [Proc -> {"idle", "alloc", "no_desc", "wait", "woken"}]
  BY Zenon DEF IInv, TypeOK
<1>2. UNCHANGED <<driver, bdisk, bdata, locals, device>>
  BY Zenon DEF Kill
<1>3. /\ pc[p] \in {"wait", "no_desc"}
      /\ pc' = [pc EXCEPT ![p] = IF pc[p] = "wait" THEN "woken" ELSE "alloc"]
  BY Zenon DEF Kill, Goto
<1> QED  BY <1>1, <1>2, <1>3, PcStep, Zenon

(* The steps of virtio_disk_intr() that only move it on. *)
LEMMA IntrMoveInv ==
  ASSUME IInv, IntrEnter \/ IntrDrained \/ IntrAck
  PROVE  IInv'
<1>1. UNCHANGED <<driver, bdisk, bdata, locals, device>> /\ pc' = pc
  BY Zenon DEF IntrEnter, IntrDrained, IntrAck
<1>2. pc \in [Proc -> {"idle", "alloc", "no_desc", "wait", "woken"}]
  BY Zenon DEF IInv, TypeOK
<1> QED  BY <1>1, <1>2, PcStep, Zenon

(* virtio_disk_rw() is called: its buffer is in nobody else's hands. *)
LEMMA CallInv ==
  ASSUME IInv, NEW p \in Proc, NEW b \in Block, NEW w \in {0, 1}, NEW d \in Data,
         Call(p, b, w, d)
  PROVE  IInv'
<1> USE DEF IInv, driver, device
<1>0. /\ NAvail' = NAvail /\ Published' = Published /\ (AvailOnce' <=> AvailOnce)
      /\ NUsed' = NUsed /\ Completed' = Completed /\ (UsedOnce' <=> UsedOnce)
  BY RingsFrame, Zenon DEF Call
<1>c. /\ Owners' = Owners
      /\ \A q : Second(q)' = Second(q) /\ Third(q)' = Third(q)
      /\ \A q, j : InChain(j, q)' <=> InChain(j, q)
  BY ChainsFrame, Zenon DEF Call
<1>1. TypeOK'
  BY Zenon DEF TypeOK, Call, Goto
<1>o. ASSUME NEW q \in Owners
      PROVE  /\ q # p /\ q \in Proc /\ pb[q] # b /\ pb[q] \in Block
             /\ pb'[q] = pb[q] /\ pw'[q] = pw[q] /\ bdata'[pb[q]] = bdata[pb[q]]
  <2>1. q \in Proc /\ pc[q] \in {"wait", "woken"} /\ pb[q] \in Block
    BY OwnerFacts, Zenon
  <2> QED  BY <2>1, Zenon DEF Call, TypeOK
<1>2. Calls'
  <2>1. \A q \in Proc : pb[q] # b
    BY Zenon DEF Call
  <2>2. \A q \in Proc : /\ pb'[q] = IF q = p THEN b ELSE pb[q]
                        /\ pc'[q] = IF q = p THEN "alloc" ELSE pc[q]
    BY Zenon DEF Call, Goto, TypeOK
  <2>3. id0' = id0 /\ pc[p] = "idle" /\ b # None
    BY Sizes, Zenon DEF Call
  <2> QED  BY <2>1, <2>2, <2>3 DEF Calls
<1>3. Chains'
  <2>1. UNCHANGED <<next, infob, req, id0>>
    BY Zenon DEF Call
  <2> QED  BY <1>c, <1>o, <2>1, SMTT(30) DEF Chains, BlkType
<1>4. Owned'
  BY <1>c, Zenon DEF Owned, Call
<1>5. Rings'
  BY <1>0, Zenon DEF Rings, Call
<1>6. Tracked'
  <2>1. UNCHANGED <<taken, bdisk, id0>>
    BY Zenon DEF Call
  <2> QED  BY <1>0, <1>c, <1>o, <2>1, SMTT(30) DEF Tracked, InFlight
<1>7. Settled'
  <2>1. UNCHANGED <<taken, store, id0>>
    BY Zenon DEF Call
  <2> QED  BY <1>0, <1>c, <1>o, <2>1 DEF Settled
<1> QED  BY <1>1, <1>2, <1>3, <1>4, <1>5, <1>6, <1>7, Zenon

(* Everything in flight is the first descriptor of somebody's chain. *)
LEMMA InFlightFacts ==
  ASSUME IInv, NEW j \in InFlight
  PROVE  /\ j \in Desc /\ free[j] = 0
         /\ \E p \in Owners : id0[p] = j /\ infob[j] = pb[p] /\ bdisk[pb[p]] = 1
<1>1. PICK p \in Owners : id0[p] = j
  BY Zenon DEF IInv, Tracked
<1>2. j \in Desc /\ free[j] = 0
  BY <1>1, OwnerFacts, Zenon
<1>3. infob[j] = pb[p] /\ bdisk[pb[p]] = 1
  BY <1>1, Zenon DEF IInv, Chains, Tracked
<1> QED  BY <1>1, <1>2, <1>3, Zenon

(* The device takes a request from avail[]. *)
LEMMA TakeInv ==
  ASSUME IInv, Take
  PROVE  IInv'
<1> DEFINE j == avail[seen % NUM]
<1> USE DEF IInv
<1>0. /\ NUsed' = NUsed /\ Completed' = Completed /\ (UsedOnce' <=> UsedOnce)
  BY DEF Take, NUsed, Completed, UsedOnce, Used, Slot
<1>a. /\ avail' \in [Desc -> Desc] /\ seen' \in 0..IDX - 1
      /\ NAvail' = NAvail - 1
      /\ j \in Published
      /\ Published' = Published \ {j}
      /\ AvailOnce'
  <2>1. seen \in Int
    BY Sizes DEF TypeOK
  <2>2. seen % NUM = Slot(seen, 0)
    BY <2>1, Slots, Zenon
  <2>3. avail' = [avail EXCEPT ![Slot(seen, 0)] = 0]
    BY <2>2, Zenon DEF Take
  <2> QED  BY <2>3, AvailPop, Zenon DEF Take, Rings
<1>c. /\ Owners' = Owners
      /\ \A q : Second(q)' = Second(q) /\ Third(q)' = Third(q)
      /\ \A q, k : InChain(k, q)' <=> InChain(k, q)
  BY ChainsFrame, Zenon DEF Take, locals
<1>t. taken' = taken \cup {j}
  BY Zenon DEF Take
<1> HIDE DEF j
<1>d. j \in Desc
  BY <1>a, InFlightFacts, Zenon DEF InFlight
<1>u. UNCHANGED <<free, next, infob, req, availidx, usedidx, bdisk, bdata, pc, pb, pw, id0, store, elems, usedid>>
  BY Zenon DEF Take, locals
<1>1. TypeOK'
  BY <1>a, <1>d, <1>t, <1>u, Zenon DEF TypeOK
<1>2. Calls'
  BY <1>u, Zenon DEF Calls
<1>3. Chains'
  BY <1>c, <1>u, Zenon DEF Chains, BlkType
<1>4. Owned'
  BY <1>c, <1>u, Zenon DEF Owned
<1>5. Rings'
  <2>1. NAvail' < NUM
    BY <1>a, AvailCount, Sizes DEF Rings
  <2> QED  BY <2>1, <1>0, <1>a, <1>t, Zenon DEF Rings
<1>i. InFlight' = InFlight
  BY <1>0, <1>a, <1>t, Zenon DEF InFlight
<1>6. Tracked'
  BY <1>c, <1>i, <1>u, Zenon DEF Tracked
<1>7. Settled'
  BY <1>a, <1>c, <1>t, <1>u, Zenon DEF Settled
<1> QED  BY <1>1, <1>2, <1>3, <1>4, <1>5, <1>6, <1>7, Zenon

(* The used ring has room for one more: a full ring would hold every       *)
(* descriptor, and only the first of each chain goes there.                *)
LEMMA UsedRoom ==
  ASSUME NoMoreThanNUM, IInv, NEW i \in taken
  PROVE  NUsed < NUM - 1
<1>1. NUsed \in 0..NUM - 1 /\ NUM \in Nat \ {0} /\ NUM >= 3 /\ Desc = 0..NUM - 1
  BY UsedCount, Sizes, Zenon DEF IInv
<1> SUFFICES ASSUME NUsed = NUM - 1 PROVE FALSE
  BY <1>1
<1>2. PICK p \in Owners : id0[p] = i
  BY Zenon DEF IInv, Tracked, InFlight
<1> DEFINE f == [k \in Desc |-> IF k = NUM - 1 THEN i ELSE Used(k)]
<1>3. \A k \in Desc : k # NUM - 1 => k \in 0..NUsed - 1
  BY <1>1
<1>4. i \in InFlight /\ \A k \in 0..NUsed - 1 : Used(k) \in Completed /\ Used(k) \in InFlight
  BY Zenon DEF InFlight, Completed
<1>5. i \notin Completed /\ UsedOnce
  BY Zenon DEF IInv, Rings
<1>6. f \in [Desc -> Desc]
  BY <1>3, <1>4, InFlightFacts, Zenon
<1>7. \A j, k \in Desc : f[j] = f[k] => j = k
  BY <1>3, <1>4, <1>5 DEF UsedOnce
<1>8. \A k \in Desc : f[k] \in InFlight
  BY <1>3, <1>4, Zenon
<1> HIDE DEF f
<1>9. Second(p) \in Desc
  BY OwnerFacts, Zenon
<1>10. PICK k \in Desc : f[k] = Second(p)
  BY <1>6, <1>7, <1>9, Zenon DEF NoMoreThanNUM
<1>11. PICK q \in Owners : id0[q] = Second(p)
  BY <1>8, <1>10, InFlightFacts, Zenon
<1>12. CASE q = p
  BY <1>11, <1>12, Zenon DEF IInv, Chains
<1>13. CASE q # p
  BY <1>11, <1>13, OwnersApart, Zenon
<1> QED  BY <1>12, <1>13, Zenon

(* The device finishes a request. *)
LEMMA CompleteInv ==
  ASSUME NoMoreThanNUM, IInv, NEW i \in Desc, Complete(i)
  PROVE  IInv'
<1> USE DEF IInv
<1>0. /\ NAvail' = NAvail /\ Published' = Published /\ (AvailOnce' <=> AvailOnce)
  BY DEF Complete, driver, NAvail, Published, AvailOnce, Avail, Slot
<1>e. i \in taken /\ taken' = taken \ {i}
  BY Zenon DEF Complete
<1>a. /\ elems' \in [Desc -> Desc] /\ usedid' \in 0..IDX - 1
      /\ NUsed' = NUsed + 1
      /\ Completed' = Completed \cup {i}
      /\ UsedOnce'
  <2>1. NUsed < NUM - 1 /\ i \notin Completed /\ UsedOnce
    BY <1>e, UsedRoom, Zenon DEF Rings
  <2>2. elems' = [elems EXCEPT ![Slot(usedidx, NUsed)] = i]
    BY UsedCount, Zenon DEF Complete
  <2>3. usedid' = (usedid + 1) % IDX /\ usedidx' = usedidx
    BY Zenon DEF Complete, driver
  <2> QED  BY <2>1, <2>2, <2>3, UsedPush, Zenon
<1>c. /\ Owners' = Owners
      /\ \A q : Second(q)' = Second(q) /\ Third(q)' = Third(q)
      /\ \A q, k : InChain(k, q)' <=> InChain(k, q)
  BY ChainsFrame, Zenon DEF Complete, driver, locals
<1>u. UNCHANGED <<free, next, infob, req, avail, availidx, usedidx, bdisk, pc, pb, pw, id0, seen>>
  BY Zenon DEF Complete, driver, locals
<1>p. PICK p \in Owners : id0[p] = i /\ infob[i] = pb[p]
  BY <1>e, InFlightFacts, Zenon DEF InFlight
<1>b. /\ bdata' \in [Block -> Data] /\ store' \in [Block -> Data]
      /\ bdata'[pb[p]] = store'[pb[p]]
      /\ \A b \in Block : b # pb[p] => bdata'[b] = bdata[b] /\ store'[b] = store[b]
  <2>1. pb[p] \in Block
    BY OwnerFacts, Zenon
  <2> QED  BY <1>p, <2>1 DEF Complete, TypeOK
<1>1. TypeOK'
  BY <1>a, <1>b, <1>e, <1>u, Zenon DEF TypeOK
<1>2. Calls'
  BY <1>u, Zenon DEF Calls
<1>3. Chains'
  BY <1>c, <1>u, Zenon DEF Chains, BlkType
<1>4. Owned'
  BY <1>c, <1>u, Zenon DEF Owned
<1>5. Rings'
  BY <1>0, <1>a, <1>e, Zenon DEF Rings
<1>i. InFlight' = InFlight
  BY <1>0, <1>a, <1>e, Zenon DEF InFlight
<1>6. Tracked'
  BY <1>c, <1>i, <1>u, Zenon DEF Tracked
<1>7. Settled'
  <2>1. ASSUME NEW q \in Owners, id0[q] \notin Published \cup taken'
        PROVE  bdata'[pb[q]] = store'[pb[q]]
    <3>1. CASE q = p
      BY <1>b, <3>1, Zenon
    <3>2. CASE q # p
      <4>1. pb[q] # pb[p] /\ id0[q] # i /\ pb[q] \in Block
        BY <1>p, <3>2, OwnersApart, OwnerFacts, Zenon
      <4>2. bdata[pb[q]] = store[pb[q]]
        BY <1>e, <2>1, <4>1, Zenon DEF Settled
      <4> QED  BY <1>b, <4>1, <4>2, Zenon
    <3> QED  BY <3>1, <3>2, Zenon
  <2> QED  BY <2>1, <1>0, <1>c, <1>u, Zenon DEF Settled
<1> QED  BY <1>1, <1>2, <1>3, <1>4, <1>5, <1>6, <1>7, Zenon

(* virtio_disk_intr() takes note of a finished request and wakes its       *)
(* process.                                                                *)
LEMMA IntrOneInv ==
  ASSUME IInv, IntrOne
  PROVE  IInv'
<1> USE DEF IInv
<1> DEFINE i == elems[usedidx]
<1>0. /\ NAvail' = NAvail /\ Published' = Published /\ (AvailOnce' <=> AvailOnce)
  BY DEF IntrOne, NAvail, Published, AvailOnce, Avail, Slot
<1>a. /\ elems' \in [Desc -> Desc] /\ usedidx' \in Desc
      /\ NUsed' = NUsed - 1
      /\ i \in Completed
      /\ Completed' = Completed \ {i}
      /\ UsedOnce'
  <2>1. usedidx' = (usedidx + 1) % NUM
    BY Zenon DEF IntrOne, NextUsed
  <2> QED  BY <2>1, UsedPop, Zenon DEF IntrOne, Rings
<1>b. /\ bdisk' = [bdisk EXCEPT ![infob[i]] = 0]
      /\ pc' = [q \in Proc |-> IF pc[q] = "wait" /\ pb[q] = infob[i] THEN "woken" ELSE pc[q]]
  BY Zenon DEF IntrOne
<1> HIDE DEF i
<1>c. /\ Owners' = Owners
      /\ \A q : Second(q)' = Second(q) /\ Third(q)' = Third(q)
      /\ \A q, k : InChain(k, q)' <=> InChain(k, q)
  BY ChainsFrame, Zenon DEF IntrOne, locals
<1>u. UNCHANGED <<free, next, infob, req, avail, availidx, bdata, pb, pw, id0, store, seen, taken, usedid>>
  BY Zenon DEF IntrOne, locals
<1>p. PICK p \in Owners : id0[p] = i /\ infob[i] = pb[p]
  BY <1>a, InFlightFacts, Zenon DEF InFlight
<1>1. TypeOK'
  BY <1>a, <1>b, <1>u, Zenon DEF TypeOK
<1>2. Calls'
  BY <1>b, <1>u, Zenon DEF Calls, TypeOK
<1>3. Chains'
  BY <1>c, <1>u, Zenon DEF Chains, BlkType
<1>4. Owned'
  BY <1>c, <1>u, Zenon DEF Owned
<1>5. Rings'
  BY <1>0, <1>a, <1>u, Zenon DEF Rings
<1>i. InFlight' = InFlight \ {i}
  BY <1>0, <1>a, <1>u, Zenon DEF InFlight, Rings
<1>6. Tracked'
  <2>1. \A q \in Owners : /\ pb[q] \in Block
                          /\ q # p => pb[q] # pb[p] /\ id0[q] # i
    BY <1>p, OwnersApart, OwnerFacts, Zenon
  <2>2. \A q \in Owners : bdisk'[pb[q]] = IF q = p THEN 0 ELSE bdisk[pb[q]]
    BY <1>b, <1>p, <2>1, Zenon DEF TypeOK
  <2>3. \A q \in Owners : id0[q] \in InFlight' <=> bdisk'[pb[q]] = 1
    BY <1>i, <1>p, <2>1, <2>2, SMTT(30) DEF Tracked
  <2> QED  BY <1>c, <1>i, <1>u, <2>3, Zenon DEF Tracked
<1>7. Settled'
  BY <1>0, <1>c, <1>u, Zenon DEF Settled
<1> QED  BY <1>1, <1>2, <1>3, <1>4, <1>5, <1>6, <1>7, Zenon

(* avail[] has room for one more, for the same reason. *)
LEMMA AvailRoom ==
  ASSUME NoMoreThanNUM, IInv, NEW a \in Desc, NEW b \in Desc, a # b, free[a] = 1, free[b] = 1
  PROVE  NAvail < NUM - 1
<1>1. NAvail \in 0..NUM - 1 /\ NUM \in Nat \ {0} /\ NUM >= 3 /\ Desc = 0..NUM - 1
  BY AvailCount, Sizes DEF IInv, Rings
<1> SUFFICES ASSUME NAvail = NUM - 1 PROVE FALSE
  BY <1>1
<1> DEFINE f == [k \in Desc |-> IF k = NUM - 1 THEN a ELSE Avail(k)]
<1>2. \A k \in Desc : k # NUM - 1 => k \in 0..NAvail - 1
  BY <1>1
<1>3. \A k \in 0..NAvail - 1 : Avail(k) \in InFlight
  BY Zenon DEF InFlight, Published
<1>4. \A k \in 0..NAvail - 1 : Avail(k) \in Desc /\ free[Avail(k)] = 0
  BY <1>3, InFlightFacts, Zenon
<1>5. AvailOnce
  BY Zenon DEF IInv, Rings
<1>6. f \in [Desc -> Desc]
  BY <1>2, <1>4, Zenon
<1>7. \A j, k \in Desc : f[j] = f[k] => j = k
  BY <1>2, <1>4, <1>5 DEF AvailOnce
<1>8. \A k \in Desc : f[k] # b
  BY <1>2, <1>4
<1> HIDE DEF f
<1> QED  BY <1>6, <1>7, <1>8 DEF NoMoreThanNUM

(* virtio_disk_rw() takes three descriptors and publishes its request. *)
LEMMA SubmitInv ==
  ASSUME LowestAreThree, NoMoreThanNUM, IInv, NEW p \in Proc, Submit(p)
  PROVE  IInv'
<1> USE DEF IInv
<1>0. PICK a, b, c \in Desc : Takes(p, a, b, c)
  BY SubmitTakes, Zenon
<1>1. /\ a # b /\ a # c /\ b # c
      /\ free[a] = 1 /\ free[b] = 1 /\ free[c] = 1
  BY <1>0, Zenon DEF Takes
<1>u. /\ pc[p] = "alloc" /\ pc' = [pc EXCEPT ![p] = "wait"]
      /\ availidx' = (availidx + 1) % IDX
      /\ bdisk' = [bdisk EXCEPT ![pb[p]] = 1]
      /\ UNCHANGED <<usedidx, bdata, pb, pw, store, seen, taken, elems, usedid>>
  BY Zenon DEF Submit, Goto, device
<1>p. p \notin Owners /\ pb[p] \in Block
  <2>1. id0[p] = None /\ pb[p] # None
    BY <1>u, Zenon DEF Calls
  <2> QED  BY <2>1, Zenon DEF Owners, TypeOK
<1>o. /\ Owners' = Owners \cup {p}
      /\ id0'[p] = a
      /\ \A q \in Owners : q # p /\ id0'[q] = id0[q]
  <2>1. id0' = [id0 EXCEPT ![p] = a] /\ a # None
    BY <1>0, Sizes, Zenon DEF Takes
  <2>2. id0 \in [Proc -> Desc \cup {None}]
    BY Zenon DEF TypeOK
  <2> QED  BY <1>p, <2>1, <2>2, Zenon DEF Owners
<1>n. /\ next' = [next EXCEPT ![a] = b, ![b] = c, ![c] = None]
      /\ next \in [Desc -> Desc \cup {None}]
  BY <1>0, Zenon DEF Takes, TypeOK
<1>s. Second(p)' = b /\ Third(p)' = c /\ next'[c] = None
  BY <1>1, <1>n, <1>o, Zenon DEF Second, Third
<1>q. ASSUME NEW q \in Owners
      PROVE  /\ Second(q)' = Second(q) /\ Third(q)' = Third(q)
             /\ next'[Third(q)] = next[Third(q)]
             /\ id0[q] \notin {a, b, c} /\ Second(q) \notin {a, b, c} /\ Third(q) \notin {a, b, c}
             /\ id0[q] \in Desc /\ pb[q] \in Block /\ pb[q] # pb[p]
  <2>1. /\ id0[q] \in Desc /\ Second(q) \in Desc /\ Third(q) \in Desc
        /\ free[id0[q]] = 0 /\ free[Second(q)] = 0 /\ free[Third(q)] = 0
        /\ pb[q] \in Block /\ q \in Proc
    BY OwnerFacts, Zenon
  <2>2. /\ id0[q] \notin {a, b, c} /\ Second(q) \notin {a, b, c} /\ Third(q) \notin {a, b, c}
    BY <1>1, <2>1
  <2>3. /\ next'[id0[q]] = next[id0[q]] /\ next'[Second(q)] = next[Second(q)]
        /\ next'[Third(q)] = next[Third(q)]
    BY <1>n, <2>1, <2>2, Zenon
  <2>4. Second(q)' = Second(q) /\ Third(q)' = Third(q)
    BY <1>o, <2>3, Zenon DEF Second, Third
  <2>5. pb[q] # pb[p]
    BY <1>p, <2>1, Sizes, Zenon DEF Calls
  <2> QED  BY <2>1, <2>2, <2>3, <2>4, <2>5, Zenon
<1>f. \A j \in InFlight : free[j] = 0 /\ j \in Desc
  BY InFlightFacts, Zenon
<1>a. /\ avail' \in [Desc -> Desc] /\ availidx' \in 0..IDX - 1
      /\ NAvail' = NAvail + 1
      /\ Published' = Published \cup {a}
      /\ AvailOnce'
  <2>1. NAvail < NUM /\ AvailOnce /\ a \notin Published
    BY <1>1, <1>f DEF Rings, InFlight
  <2>2. avail' = [avail EXCEPT ![Slot(seen, NAvail)] = a]
    BY <1>0, AvailCount, Zenon DEF Takes
  <2> QED  BY <1>u, <2>1, <2>2, AvailPush, Zenon
<1>c. /\ NUsed' = NUsed /\ Completed' = Completed /\ (UsedOnce' <=> UsedOnce)
  BY <1>u DEF NUsed, Completed, UsedOnce, Used, Slot
<1>2. TypeOK'
  <2>1. /\ free' = Mark({a, b, c})
        /\ req' = [req EXCEPT ![a] = BlkType(pw[p])]
        /\ infob' = [infob EXCEPT ![a] = pb[p]]
        /\ id0' = [id0 EXCEPT ![p] = a]
    BY <1>0, Zenon DEF Takes
  <2>2. free' \in [Desc -> {0, 1}]
    BY <2>1, Zenon DEF Mark, TypeOK
  <2>3. next' \in [Desc -> Desc \cup {None}]
    BY <1>n, Zenon
  <2>4. req' \in [Desc -> {"read", "write"}] /\ infob' \in [Desc -> Block \cup {None}]
    BY <1>p, <2>1, Zenon DEF TypeOK, BlkType
  <2> QED  BY <1>a, <1>p, <1>u, <2>1, <2>2, <2>3, <2>4, Zenon DEF TypeOK
<1>3. Calls'
  <2>1. id0' = [id0 EXCEPT ![p] = a] /\ a # None
    BY <1>0, Sizes, Zenon DEF Takes
  <2> QED  BY <1>u, <2>1, Zenon DEF Calls, TypeOK
<1>4. Chains'
  <2>1. /\ req' = [req EXCEPT ![a] = BlkType(pw[p])]
        /\ infob' = [infob EXCEPT ![a] = pb[p]]
    BY <1>0, Zenon DEF Takes
  <2>2. req'[a] = BlkType(pw[p])' /\ infob'[a] = pb[p]
    BY <1>u, <2>1, Zenon DEF TypeOK, BlkType
  <2>3. \A q \in Owners : req'[id0[q]] = req[id0[q]] /\ infob'[id0[q]] = infob[id0[q]]
    BY <1>q, <2>1, Zenon DEF TypeOK
  <2>4. ASSUME NEW q \in Owners
        PROVE  /\ Second(q)' \in Desc /\ Third(q)' \in Desc /\ next'[Third(q)'] = None
               /\ id0'[q] # Second(q)' /\ id0'[q] # Third(q)' /\ Second(q)' # Third(q)'
               /\ infob'[id0'[q]] = pb'[q]
               /\ req'[id0'[q]] = BlkType(pw[q])'
    BY <1>o, <1>q, <1>u, <2>3, SMTT(30) DEF Chains, BlkType
  <2> QED  BY <1>1, <1>o, <1>s, <1>u, <2>2, <2>4, Zenon DEF Chains
<1>5. Owned'
  <2>1. \A j \in Desc : free'[j] = 0 <=> free[j] = 0 \/ j \in {a, b, c}
    BY <1>0, Zenon DEF Takes, Mark, TypeOK
  <2>2. \A j : InChain(j, p)' <=> j \in {a, b, c}
    BY <1>o, <1>s, Zenon DEF InChain
  <2>3. \A q \in Owners : \A j : (InChain(j, q)' <=> InChain(j, q)) /\ (InChain(j, q) => j \notin {a, b, c})
    BY <1>o, <1>q, Zenon DEF InChain
  <2> QED  BY <1>o, <1>p, <2>1, <2>2, <2>3, SMTT(30) DEF Owned
<1>6. Rings'
  <2>1. NAvail' < NUM
    <3>1. NAvail < NUM - 1
      BY <1>1, AvailRoom, Zenon
    <3>2. NAvail \in 0..IDX - 1 /\ NUM \in Nat
      BY AvailCount, Sizes, Zenon
    <3> QED  BY <1>a, <3>1, <3>2
  <2>2. a \notin taken /\ a \notin Completed
    BY <1>1, <1>f DEF InFlight
  <2> QED  BY <1>a, <1>c, <1>u, <2>1, <2>2, Zenon DEF Rings
<1>i. InFlight' = InFlight \cup {a}
  BY <1>a, <1>c, <1>u, Zenon DEF InFlight
<1>7. Tracked'
  <2>1. \A q \in Owners : bdisk'[pb[q]] = bdisk[pb[q]]
    BY <1>q, <1>u, Zenon DEF TypeOK
  <2>2. bdisk'[pb[p]] = 1
    BY <1>p, <1>u, Zenon DEF TypeOK
  <2> QED  BY <1>i, <1>o, <1>q, <1>u, <2>1, <2>2, SMTT(30) DEF Tracked
<1>8. Settled'
  BY <1>a, <1>o, <1>q, <1>u, Zenon DEF Settled
<1> QED  BY <1>2, <1>3, <1>4, <1>5, <1>6, <1>7, <1>8, Zenon

(* A woken process whose request is finished gives its descriptors back;   *)
(* none of them is free, so free_desc() does not panic.                    *)
LEMMA FinishInv ==
  ASSUME IInv, NEW p \in Proc, Finish(p)
  PROVE  IInv'
<1> USE DEF IInv
<1>1. CASE StillOnDisk(pb[p])
  <2>1. /\ UNCHANGED <<driver, bdisk, bdata, locals, device>>
        /\ pc[p] = "woken" /\ pc' = [pc EXCEPT ![p] = "wait"]
    BY <1>1, Zenon DEF Finish, Goto, driver, locals
  <2>2. pc \in [Proc -> {"idle", "alloc", "no_desc", "wait", "woken"}]
    BY Zenon DEF TypeOK
  <2> QED  BY <2>1, <2>2, PcStep, Zenon
<1>2. CASE ~StillOnDisk(pb[p])
  <2>u. /\ pc[p] = "woken"
        /\ free' = FreeChain(id0[p])
        /\ infob' = [infob EXCEPT ![id0[p]] = None]
        /\ req' = [req EXCEPT ![id0[p]] = "read"]
        /\ pb' = [pb EXCEPT ![p] = None]
        /\ pw' = [pw EXCEPT ![p] = 0]
        /\ id0' = [id0 EXCEPT ![p] = None]
        /\ UNCHANGED <<next, avail, availidx, usedidx, bdisk, bdata, store, seen, taken, elems, usedid>>
    BY <1>2, Zenon DEF Finish, device
  <2>p. p \in Owners /\ bdisk[pb[p]] # 1
    BY <1>2, <2>u, Zenon DEF Calls, Owners, StillOnDisk
  <2>w. /\ id0[p] \in Desc /\ Second(p) \in Desc /\ Third(p) \in Desc
        /\ free[id0[p]] = 0 /\ free[Second(p)] = 0 /\ free[Third(p)] = 0
    BY <2>p, OwnerFacts, Zenon
  <2>c. \A j : j \in Chain(id0[p]) <=> InChain(j, p)
    BY <2>p, ChainIs, Zenon DEF InChain
  <2>k. pc' = [WakeFree(pc) EXCEPT ![p] = "idle"]
    <3>1. ~(\E i \in Chain(id0[p]) : free[i] = 1)
      BY <2>c, <2>w, SMTT(30) DEF InChain
    <3> QED  BY <1>2, <3>1, Zenon DEF Finish
  <2>o. /\ Owners' = Owners \ {p}
        /\ \A q \in Owners' : q # p /\ q \in Owners /\ id0'[q] = id0[q]
    BY <2>p, <2>u, Zenon DEF Owners, TypeOK
  <2>q. ASSUME NEW q \in Owners'
        PROVE  /\ q \in Owners /\ q # p /\ q \in Proc
               /\ Second(q)' = Second(q) /\ Third(q)' = Third(q)
               /\ id0'[q] = id0[q] /\ id0[q] # id0[p] /\ id0[q] \in Desc
               /\ pb'[q] = pb[q] /\ pw'[q] = pw[q]
               /\ infob'[id0[q]] = infob[id0[q]] /\ req'[id0[q]] = req[id0[q]]
    <3>1. q \in Owners /\ q # p /\ id0'[q] = id0[q]
      BY <2>o, Zenon
    <3>2. q \in Proc /\ id0[q] \in Desc /\ id0[q] # id0[p]
      BY <2>p, <3>1, OwnersApart, OwnerFacts, Zenon
    <3>3. Second(q)' = Second(q) /\ Third(q)' = Third(q)
      BY <2>u, <3>1, Zenon DEF Second, Third
    <3> QED  BY <2>u, <3>1, <3>2, <3>3, Zenon DEF TypeOK
  <2>r. /\ NAvail' = NAvail /\ Published' = Published /\ (AvailOnce' <=> AvailOnce)
        /\ NUsed' = NUsed /\ Completed' = Completed /\ (UsedOnce' <=> UsedOnce)
    BY <2>u, RingsFrame, Zenon
  <2>1. TypeOK'
    <3>1. free' \in [Desc -> {0, 1}]
      BY <2>u, Zenon DEF FreeChain, TypeOK
    <3>2. pc' \in [Proc -> {"idle", "alloc", "no_desc", "wait", "woken"}]
      BY <2>k, Zenon DEF WakeFree, TypeOK
    <3> QED  BY <2>u, <3>1, <3>2, Zenon DEF TypeOK
  <2>2. Calls'
    <3>1. \A q \in Proc : pc'[q] = IF q = p THEN "idle"
                                   ELSE IF pc[q] = "no_desc" THEN "alloc" ELSE pc[q]
      BY <2>k, Zenon DEF WakeFree, TypeOK
    <3>2. \A q \in Proc : /\ pb'[q] = IF q = p THEN None ELSE pb[q]
                          /\ id0'[q] = IF q = p THEN None ELSE id0[q]
      BY <2>u, Zenon DEF TypeOK
    <3> QED  BY <3>1, <3>2 DEF Calls
  <2>3. Chains'
    BY <2>q, <2>u, SMTT(30) DEF Chains, BlkType
  <2>4. Owned'
    <3>1. \A j \in Desc : free'[j] = 0 <=> free[j] = 0 /\ ~InChain(j, p)
      BY <2>c, <2>u, SMTT(30) DEF FreeChain, TypeOK
    <3>2. \A q \in Owners' : \A j : InChain(j, q)' <=> InChain(j, q)
      BY <2>q, Zenon DEF InChain
    <3> QED  BY <2>o, <2>p, <3>1, <3>2, SMTT(30) DEF Owned
  <2>5. Rings'
    BY <2>r, <2>u, Zenon DEF Rings
  <2>i. InFlight' = InFlight /\ id0[p] \notin InFlight
    BY <2>p, <2>r, <2>u, Zenon DEF InFlight, Tracked
  <2>6. Tracked'
    BY <2>i, <2>o, <2>q, <2>u, SMTT(30) DEF Tracked
  <2>7. Settled'
    BY <2>q, <2>r, <2>u, SMTT(30) DEF Settled
  <2> QED  BY <2>1, <2>2, <2>3, <2>4, <2>5, <2>6, <2>7, Zenon
<1> QED  BY <1>1, <1>2, Zenon
-----------------------------------------------------------------------------
(* The rings start empty, every descriptor is free. *)
LEMMA InitInv ==
  ASSUME Init
  PROVE  IInv
<1>1. NUM \in Nat \ {0} /\ IDX \in Nat \ {0} /\ Desc = 0..NUM - 1 /\ 0 \in Desc
  BY Sizes
<1>2. Owners = {}
  BY Zenon DEF Init, Owners
<1>3. TypeOK
  BY <1>1 DEF Init, TypeOK
<1>4. NAvail = 0 /\ NUsed = 0
  <2>1. NothingUsed
    BY Zenon DEF Init, NothingUsed
  <2> QED  BY <1>3, <2>1, AvailCount, UsedCount DEF Init
<1>5. Published = {} /\ Completed = {} /\ AvailOnce /\ UsedOnce
  BY <1>4 DEF Published, Completed, AvailOnce, UsedOnce
<1>6. Calls
  BY Zenon DEF Init, Calls
<1>7. Chains /\ Owned /\ Settled
  BY <1>2 DEF Chains, Owned, Settled, Init
<1>8. Rings /\ Tracked
  BY <1>1, <1>2, <1>4, <1>5 DEF Rings, Tracked, InFlight, Init
<1> QED  BY <1>3, <1>6, <1>7, <1>8, Zenon DEF IInv

(* A step of something else than the disk driver and the device.          *)
LEMMA StutterInv ==
  ASSUME IInv, UNCHANGED vars
  PROVE  IInv'
<1>1. UNCHANGED <<driver, bdisk, bdata, locals, device>> /\ pc' = pc
  BY Zenon DEF vars
<1>2. pc \in [Proc -> {"idle", "alloc", "no_desc", "wait", "woken"}]
  BY Zenon DEF IInv, TypeOK
<1> QED  BY <1>1, <1>2, PcStep, Zenon

(* Every step of virtio_disk_rw(), of virtio_disk_intr() and of the device *)
(* keeps the invariant.                                                    *)
LEMMA NextInv ==
  ASSUME LowestAreThree, NoMoreThanNUM, IInv, [Next]_vars
  PROVE  IInv'
<1>1. ASSUME NEW p \in Proc, Rw(p) PROVE IInv'
  BY <1>1, NoDescInv, SubmitInv, FinishInv, Zenon DEF Rw
<1>2. ASSUME NEW p \in Proc, Kill(p) PROVE IInv'
  BY <1>2, KillInv, Zenon
<1>3. ASSUME NEW p \in Proc, NEW b \in Block, NEW w \in {0, 1}, NEW d \in Data, Call(p, b, w, d)
      PROVE  IInv'
  BY <1>3, CallInv, Zenon
<1>4. ASSUME Take PROVE IInv'
  BY <1>4, TakeInv, Zenon
<1>5. ASSUME NEW i \in Desc, Complete(i) PROVE IInv'
  BY <1>5, CompleteInv, Zenon
<1>6. ASSUME Intr PROVE IInv'
  BY <1>6, IntrOneInv, IntrMoveInv, Zenon DEF Intr
<1>7. ASSUME UNCHANGED vars PROVE IInv'
  BY <1>7, StutterInv, Zenon
<1> QED  BY <1>1, <1>2, <1>3, <1>4, <1>5, <1>6, <1>7, Zenon DEF Next

(* What a step does to a buffer that a request is for.  Only the device    *)
(* moves data to or from it.                                               *)
LEMMA DataStep ==
  ASSUME IInv, [Next]_vars, NEW p \in Proc, pb[p] # None
  PROVE  IF pw[p] = 1 THEN bdata'[pb[p]] = bdata[pb[p]] ELSE store'[pb[p]] = store[pb[p]]
<1>0. pb[p] \in Block /\ bdata \in [Block -> Data] /\ store \in [Block -> Data]
  BY Zenon DEF IInv, TypeOK
<1>1. CASE UNCHANGED <<bdata, store>>
  BY <1>1, Zenon
<1>2. ASSUME NEW q \in Proc, NEW b \in Block, NEW w \in {0, 1}, NEW d \in Data, Call(q, b, w, d)
      PROVE  bdata'[pb[p]] = bdata[pb[p]] /\ store' = store
  BY <1>0, <1>2, Zenon DEF Call, device
<1>3. ASSUME NEW i \in Desc, Complete(i)
      PROVE  IF pw[p] = 1 THEN bdata'[pb[p]] = bdata[pb[p]] ELSE store'[pb[p]] = store[pb[p]]
  <2>1. i \in InFlight
    BY <1>3, Zenon DEF Complete, InFlight
  <2>2. PICK q \in Owners : id0[q] = i /\ infob[i] = pb[q]
    BY <2>1, InFlightFacts, Zenon
  <2>3. req[i] = (IF pw[q] = 1 THEN "write" ELSE "read") /\ q \in Proc
    BY <2>2, OwnerFacts, Zenon DEF IInv, Chains, BlkType
  <2>4. pb[p] = pb[q] => p = q
    BY <2>3, Zenon DEF IInv, Calls
  <2>5. IF req[i] = "write"
        THEN store' = [store EXCEPT ![pb[q]] = bdata[pb[q]]] /\ bdata' = bdata
        ELSE bdata' = [bdata EXCEPT ![pb[q]] = store[pb[q]]] /\ store' = store
    BY <1>3, <2>2, Zenon DEF Complete
  <2> QED  BY <1>0, <2>3, <2>4, <2>5, Zenon
<1>4. ASSUME NEW q \in Proc, Rw(q) \/ Kill(q) PROVE UNCHANGED <<bdata, store>>
  BY <1>4, Zenon DEF Rw, NoDesc, Submit, Finish, Kill, device
<1>5. ASSUME Take \/ Intr PROVE UNCHANGED <<bdata, store>>
  BY <1>5, Zenon DEF Take, Intr, IntrEnter, IntrOne, IntrDrained, IntrAck, device
<1>6. ASSUME UNCHANGED vars PROVE UNCHANGED <<bdata, store>>
  BY <1>6, Zenon DEF vars, device
<1> QED  BY <1>1, <1>2, <1>3, <1>4, <1>5, <1>6, Zenon DEF Next

(* virtio_disk_rw() returns only when the device is done. *)
LEMMA ReturnStep ==
  ASSUME IInv, [Next]_vars, NEW p \in Proc, pc[p] = "woken", pc'[p] = "idle"
  PROVE  bdata[pb[p]] = store[pb[p]]
<1>0. pc \in [Proc -> {"idle", "alloc", "no_desc", "wait", "woken"}]
  BY Zenon DEF IInv, TypeOK
<1>1. CASE Finish(p)
  <2>1. ~StillOnDisk(pb[p])
    BY <1>0, <1>1, Zenon DEF Finish, Goto
  <2>2. p \in Owners /\ id0[p] \notin InFlight
    BY <2>1, Zenon DEF StillOnDisk, IInv, Calls, Owners, Tracked
  <2> QED  BY <2>2, Zenon DEF IInv, Settled, InFlight
<1>2. ASSUME NEW q \in Proc, NoDesc(q) \/ Submit(q) \/ Kill(q), pc'[q] = "idle" PROVE FALSE
  BY <1>0, <1>2, Zenon DEF NoDesc, Submit, Kill, Goto, WakeFree
<1>3. ASSUME NEW q \in Proc, q # p, NoDesc(q) \/ Submit(q) \/ Kill(q) PROVE FALSE
  BY <1>0, <1>3, Zenon DEF NoDesc, Submit, Kill, Goto, WakeFree
<1>4. ASSUME NEW q \in Proc, q # p, Finish(q) PROVE FALSE
  BY <1>0, <1>4, Zenon DEF Finish, Goto, WakeFree
<1>5. ASSUME NEW q \in Proc, NEW b \in Block, NEW w \in {0, 1}, NEW d \in Data, Call(q, b, w, d)
      PROVE  FALSE
  BY <1>0, <1>5, Zenon DEF Call, Goto
<1>6. ASSUME Take \/ Intr \/ UNCHANGED vars PROVE FALSE
  BY <1>0, <1>6, Zenon DEF Take, Intr, IntrEnter, IntrOne, IntrDrained, IntrAck, vars
<1>7. ASSUME NEW i \in Desc, Complete(i) PROVE FALSE
  BY <1>7, Zenon DEF Complete
<1> QED  BY <1>1, <1>2, <1>3, <1>4, <1>5, <1>6, <1>7, Zenon DEF Next, Rw

-----------------------------------------------------------------------------
(* The two facts about sets of descriptors, with the theorems about finite *)
(* sets; FS!Cardinality and Cardinality have the same definition.          *)
FS == INSTANCE FiniteSetTheorems

(* FS counts as the model does. *)
LEMMA SameCardinality == ASSUME NEW S PROVE FS!Cardinality(S) = Cardinality(S)
  BY Zenon DEF FS!Cardinality, Cardinality, FS!IsFiniteSet, IsFiniteSet

(* A set of numbers that is not empty has a least element. *)
LEMMA Least ==
  ASSUME NEW S \in SUBSET Nat, S # {}
  PROVE  \E x \in S : \A y \in S : x <= y
<1>1. PICK x \in S : \A y \in S : ~(<<y, x>> \in FS!OpToRel(<, Nat))
  BY FS!NatLessThanWellFounded, FS!WFMin, Zenon
<1>2. \A y \in S : ~(y < x)
  BY <1>1, Zenon DEF FS!OpToRel
<1> QED  BY <1>2

(* A set of three elements, element by element. *)
LEMMA Three ==
  ASSUME NEW S, FS!IsFiniteSet(S), FS!Cardinality(S) >= 3
  PROVE  \A x, y : S # {} /\ S \ {x} # {} /\ (S \ {x}) \ {y} # {}
<1>1. SUFFICES ASSUME NEW x, NEW y PROVE S # {} /\ S \ {x} # {} /\ (S \ {x}) \ {y} # {}
  BY Zenon
<1>2. FS!Cardinality(S) \in Nat
  BY FS!FS_CardinalityType, Zenon
<1>3. FS!IsFiniteSet(S \ {x}) /\ FS!Cardinality(S \ {x}) \in Nat /\ FS!Cardinality(S \ {x}) >= 2
  <2>1. /\ FS!IsFiniteSet(S \ {x})
        /\ FS!Cardinality(S \ {x}) = IF x \in S THEN FS!Cardinality(S) - 1 ELSE FS!Cardinality(S)
    BY FS!FS_RemoveElement, Zenon
  <2> QED  BY <1>2, <2>1
<1>4. FS!Cardinality((S \ {x}) \ {y}) >= 1
  <2>1. FS!Cardinality((S \ {x}) \ {y}) =
          IF y \in S \ {x} THEN FS!Cardinality(S \ {x}) - 1 ELSE FS!Cardinality(S \ {x})
    BY <1>3, FS!FS_RemoveElement, Zenon
  <2> QED  BY <1>3, <2>1
<1> QED  BY <1>2, <1>3, <1>4, FS!FS_EmptySet

(* Three different descriptors are three: what alloc3_desc() counts on.     *)
LEMMA ThreeIs ==
  ASSUME NEW a, NEW b, NEW c, a # b, a # c, b # c
  PROVE  FS!IsFiniteSet({a, b, c}) /\ FS!Cardinality({a, b, c}) = 3
<1>1. FS!IsFiniteSet({}) /\ FS!Cardinality({}) = 0
  BY FS!FS_EmptySet, Zenon
<1>2. FS!IsFiniteSet({} \cup {a}) /\ FS!Cardinality({} \cup {a}) = 1
  BY <1>1, FS!FS_AddElement
<1>3. {} \cup {a} = {a}
  BY Zenon
<1>4. FS!IsFiniteSet({a} \cup {b}) /\ FS!Cardinality({a} \cup {b}) = 2
  BY <1>2, <1>3, FS!FS_AddElement
<1>5. c \notin {a} \cup {b} /\ ({a} \cup {b}) \cup {c} = {a, b, c}
  BY Zenon
<1>6. /\ FS!IsFiniteSet(({a} \cup {b}) \cup {c})
      /\ FS!Cardinality(({a} \cup {b}) \cup {c}) = FS!Cardinality({a} \cup {b}) + 1
  BY <1>4, <1>5, FS!FS_AddElement, Zenon
<1> QED  BY <1>4, <1>5, <1>6

(* A set of three has three different elements and no other, such as the  *)
(* descriptors that alloc3_desc() returns.                                *)
LEMMA ThreeElements ==
  ASSUME NEW T, FS!IsFiniteSet(T), FS!Cardinality(T) = 3
  PROVE  \E x, y, z \in T : x # y /\ x # z /\ y # z /\ T = {x, y, z}
<1>0. FS!Cardinality(T) >= 3
  OBVIOUS
<1>1. PICK x \in T : TRUE
  BY <1>0, Three, Zenon
<1>2. PICK y \in T \ {x} : TRUE
  BY <1>0, Three, Zenon
<1>3. PICK z \in (T \ {x}) \ {y} : TRUE
  BY <1>0, Three
<1>4. x # y /\ x # z /\ y # z /\ {x, y, z} \in SUBSET T
  BY <1>1, <1>2, <1>3, Zenon
<1>5. FS!Cardinality({x, y, z}) = 3
  BY <1>4, ThreeIs, Zenon
<1>6. T = {x, y, z}
  BY <1>4, <1>5, FS!FS_Subset, Zenon
<1> QED  BY <1>4, <1>6, Zenon

(* With three free descriptors, alloc3_desc() gets three different ones. *)
LEMMA LowestThree == LowestAreThree
<1> SUFFICES ASSUME NEW S \in SUBSET Desc, Cardinality(S) >= 3
             PROVE  \E x, y, z \in S : x < y /\ y < z /\ Lowest(S, 3) = {x, y, z}
  BY Zenon DEF LowestAreThree
<1>0. /\ S \in SUBSET Nat /\ FS!IsFiniteSet(S) /\ FS!Cardinality(S) >= 3
  <2>1. FS!IsFiniteSet(Desc) /\ Desc \in SUBSET Nat
    BY Sizes, FS!FS_Interval
  <2>2. FS!IsFiniteSet(S)
    BY <2>1, FS!FS_Subset, Zenon
  <2>3. FS!Cardinality(S) = Cardinality(S)
    BY SameCardinality, Zenon
  <2> QED  BY <2>1, <2>2, <2>3, Zenon
<1>1. PICK a \in S : \A y \in S : a <= y
  BY <1>0, Three, Least, Zenon
<1>2. PICK b \in S \ {a} : \A y \in S \ {a} : b <= y
  <2>1. S \ {a} \in SUBSET Nat /\ S \ {a} # {}
    BY <1>0, Three, Zenon
  <2> QED  BY <2>1, Least, Zenon
<1>3. PICK c \in (S \ {a}) \ {b} : \A y \in (S \ {a}) \ {b} : c <= y
  <2>1. (S \ {a}) \ {b} \in SUBSET Nat /\ (S \ {a}) \ {b} # {}
    BY <1>0, Three, Zenon
  <2> QED  BY <2>1, Least, Zenon
<1>4. a # b /\ a # c /\ b # c /\ {a, b, c} \in SUBSET S
  BY <1>1, <1>2, <1>3, Zenon
<1>5. {a, b, c} \in kSubset(3, S)
  <2>1. Cardinality({a, b, c}) = 3
    BY <1>4, ThreeIs, SameCardinality, Zenon
  <2> QED  BY <1>4, <2>1, Zenon DEF kSubset
<1>6. \A i \in {a, b, c}, j \in S \ {a, b, c} : i < j
  BY <1>0, <1>1, <1>2, <1>3
<1>7. /\ Lowest(S, 3) \in kSubset(3, S)
      /\ \A i \in Lowest(S, 3), j \in S \ Lowest(S, 3) : i < j
  BY <1>5, <1>6, Zenon DEF Lowest
<1>8. PICK T : T = Lowest(S, 3)
  BY Zenon
<1>9. T \in SUBSET S /\ Cardinality(T) = 3
  BY <1>7, <1>8, Zenon DEF kSubset
<1>10. FS!IsFiniteSet(T) /\ FS!Cardinality(T) = 3
  BY <1>0, <1>9, FS!FS_Subset, SameCardinality, Zenon
<1>11. PICK x, y, z \in T : x # y /\ x # z /\ y # z /\ T = {x, y, z}
  BY <1>10, ThreeElements, Zenon
<1>12. x \in Nat /\ y \in Nat /\ z \in Nat
  BY <1>0, <1>9, Zenon
<1>13. \E u, v, w \in {x, y, z} : u < v /\ v < w /\ {u, v, w} = {x, y, z}
  <2>1. ASSUME NEW u \in {x, y, z}, NEW v \in {x, y, z}, NEW w \in {x, y, z}, u < v, v < w
        PROVE  {u, v, w} = {x, y, z}
    BY <1>12, <2>1
  <2>2. \E u, v, w \in {x, y, z} : u < v /\ v < w
    BY <1>11, <1>12
  <2> QED  BY <2>1, <2>2, Zenon
<1> QED  BY <1>8, <1>9, <1>11, <1>13, Zenon

(* NUM different descriptors are all of them. *)
LEMMA AllDescs == NoMoreThanNUM
<1> SUFFICES ASSUME NEW f \in [Desc -> Desc], \A j, k \in Desc : f[j] = f[k] => j = k,
                    NEW x \in Desc
             PROVE  \E k \in Desc : f[k] = x
  BY Zenon DEF NoMoreThanNUM
<1>1. FS!IsFiniteSet(Desc)
  BY Sizes, FS!FS_Interval
<1>2. f \in FS!Injection(Desc, Desc)
  BY Zenon DEF FS!Injection, FS!IsInjective
<1>3. f \in FS!Surjection(Desc, Desc)
  BY <1>1, <1>2, FS!FS_Injection, Zenon
<1> QED  BY <1>3, Zenon DEF FS!Surjection

-----------------------------------------------------------------------------
(* The invariant holds in every reachable state of the driver and its      *)
(* device; in particular free_desc() never panics, and a finished request  *)
(* is in the used ring until virtio_disk_intr() has seen it.               *)
THEOREM VirtioInvariant == Spec => []IInv
<1>1. Init => IInv
  BY InitInv, Zenon
<1>2. IInv /\ [Next]_vars => IInv'
  BY NextInv, LowestThree, AllDescs, Zenon
<1> QED  BY <1>1, <1>2, PTL DEF Spec

(* Descriptors are conserved: alloc3_desc() and free_chain() never lose    *)
(* one, nor give one to two requests.                                      *)
THEOREM DescriptorsConserved == Spec => []DescOwned
<1>1. IInv => DescOwned
  <2> SUFFICES ASSUME IInv PROVE DescOwned
    BY Zenon
  <2>1. \A p \in Owners : \A j : j \in Chain(id0[p]) <=> InChain(j, p)
    BY ChainIs, Zenon DEF IInv, InChain
  <2>2. \A p \in Owners : \A j : InChain(j, p) => j \in Desc
    BY OwnerFacts, Zenon DEF InChain
  <2>3. \A j \in Desc : free[j] = 0 <=> \E p \in Owners : j \in Chain(id0[p])
    BY <2>1, Zenon DEF IInv, Owned
  <2>4. {j \in Desc : free[j] = 0} = UNION {Chain(id0[p]) : p \in Owners}
    BY <2>1, <2>2, <2>3, Zenon
  <2>5. \A p, q \in Owners : p # q => Chain(id0[p]) \cap Chain(id0[q]) = {}
    BY <2>1, <2>2, Zenon DEF IInv, Owned
  <2> QED  BY <2>4, <2>5, Zenon DEF DescOwned
<1> QED  BY <1>1, VirtioInvariant, PTL

(* While the device works on a request, its process is in virtio_disk_rw() *)
(* and b->disk is set: nobody else uses the buffer.                        *)
THEOREM BufferIsTheDevices == Spec => []DeviceOwns
<1>1. IInv => DeviceOwns
  <2> SUFFICES ASSUME IInv, NEW i \in Pending
      PROVE  \E p \in Owners : /\ id0[p] = i /\ pc[p] \in {"wait", "woken"}
                               /\ infob[i] = pb[p] /\ bdisk[pb[p]] = 1
    BY Zenon DEF DeviceOwns
  <2>1. Pending = taken \cup Published
    BY Zenon DEF Pending, Published, Avail, NAvail, Slot
  <2>2. PICK p \in Owners : id0[p] = i /\ infob[i] = pb[p] /\ bdisk[pb[p]] = 1
    BY <2>1, InFlightFacts, Zenon DEF InFlight
  <2>3. pc[p] \in {"wait", "woken"}
    BY OwnerFacts, Zenon
  <2> QED  BY <2>2, <2>3, Zenon
<1> QED  BY <1>1, VirtioInvariant, PTL

(* When virtio_disk_rw() returns, the buffer and the disk agree, and until *)
(* then a write has not changed the buffer, nor a read the disk.           *)
THEOREM TransfersAreDone == Spec => TransferDone
<1> DEFINE A == \A p \in Proc : pb[p] # None =>
             /\ pc[p] = "woken" /\ pc'[p] = "idle" => bdata[pb[p]] = store[pb[p]]
             /\ IF pw[p] = 1 THEN bdata'[pb[p]] = bdata[pb[p]]
                             ELSE store'[pb[p]] = store[pb[p]]
<1>1. IInv /\ [Next]_vars => [A]_vars
  BY DataStep, ReturnStep, Zenon
<1> QED  BY <1>1, VirtioInvariant, PTL DEF Spec, TransferDone
=============================================================================
