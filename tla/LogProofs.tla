----------------------------- MODULE LogProofs ------------------------------
(***************************************************************************)
(* Proofs about Log for every number of processes, blocks, log sizes and   *)
(* crashes.  The argument has two parts.                                   *)
(*                                                                         *)
(* Space: each call holds MAXOPBLOCKS tickets when begin_op() admits it    *)
(* and gives one up for each distinct block it logs, so the entries of lh  *)
(* and the tickets still held never exceed LOGSIZE.                        *)
(*                                                                         *)
(* Contents: which of the cache, the log area and the home location agree  *)
(* is known in each phase of commit() and of recovery; that is DiskInv.    *)
(*                                                                         *)
(* The steps of calls, of commit() and of recovery preserve the invariant. *)
(* From it: the log fits its area on disk, and it implements AtomicDisk.   *)
(* What Recovered says of the disk changes only at write_head(), in one    *)
(* step and to what the calls wrote.                                       *)
(***************************************************************************)
EXTENDS Log, FiniteSetTheorems, TLAPS

CommitPC == {"write_log", "write_head", "install", "erase", "done"}

(* Who may be where: calls and a commit exclude each other. *)
CallInv ==
  /\ outstanding = Cardinality(InCall)
  /\ committing = 1 => InCall = {}
  /\ \A p \in Proc : pc[p] \in CommitPC => committing = 1
  /\ \A p, q \in Proc : pc[p] \in CommitPC /\ pc[q] \in CommitPC => p = q
  /\ \A p \in Proc : wb[p] # NoBlock => pc[p] \in {"log_write", "panic"}
  /\ \A p \in Proc : pc[p] = "log_write" => wb[p] # NoBlock
  /\ \A p, q \in Proc : wb[p] = wb[q] /\ wb[p] # NoBlock => p = q

(* The log entries a call in progress may still add. *)
Tickets == {t \in Proc \X (1..MAXOPBLOCKS) :
              t[1] \in InCall /\ t[2] > Len(opw[t[1]])}

SpaceInv ==
  /\ \A p \in Proc : p \notin InCall => opw[p] = << >>
  /\ \A p \in Proc : Logged(opw[p]) \subseteq Logged(lh)
  /\ \A p \in Proc : Len(opw[p]) <= OpBlocks
  /\ \A p \in Proc : pc[p] = "log_write" =>
       wb[p] \in Logged(opw[p]) \/ Len(opw[p]) < OpBlocks
  /\ Len(lh) + Cardinality(Tickets) <= LOGSIZE
  /\ Len(head) <= LOGSIZE

Distinct(h) == \A i, j \in DOMAIN h : h[i] = h[j] => i = j

(* Blocks that are neither logged nor being written are clean. *)
CleanInv ==
  \A b \in Block : \/ cache[b] = NotCached
                   \/ cache[b] = home[b]
                   \/ b \in Logged(lh)
                   \/ \E p \in Proc : wb[p] = b

(* Blocks that are being written, or logged and not yet installed, have    *)
(* their buffer.                                                           *)
KeptInv ==
  /\ \A p \in Proc : wb[p] # NoBlock => cache[wb[p]] # NotCached
  /\ \A i \in DOMAIN lh : ~Installed(i) => cache[lh[i]] # NotCached

(* The header on disk names a transaction only while it is installed. *)
HeadInv ==
  /\ (\A p \in Proc : pc[p] \notin {"install", "erase"}) => head = << >>
  /\ \A p \in Proc : pc[p] \in {"install", "erase"} => head = lh
  /\ \A p \in Proc : pc[p] \in {"write_log", "install"} => tail \in 1..Len(lh)
  /\ \A p \in Proc : pc[p] = "write_head" => lh # << >>
  /\ \A p \in Proc : pc[p] = "done" => lh = << >>
  /\ outstanding = 0 /\ committing = 0 => lh = << >>

(* How far the copies to the log area and to the home locations are. *)
CopyInv ==
  /\ \A p \in Proc : pc[p] = "write_log" =>
       \A i \in 1..tail - 1 : logblk[i] = Bread(lh[i])
  /\ \A p \in Proc : pc[p] \in {"write_head", "install", "erase"} =>
       \A i \in 1..Len(lh) : logblk[i] = Bread(lh[i])
  /\ \A p \in Proc : pc[p] = "install" =>
       \A i \in 1..tail - 1 : home[lh[i]] = logblk[i]
  /\ \A p \in Proc : pc[p] = "erase" =>
       \A i \in 1..Len(lh) : home[lh[i]] = logblk[i]

UpInv == CleanInv /\ KeptInv /\ HeadInv /\ CopyInv

RecoveryInv ==
  /\ \A p \in Proc : pc[p] = "idle" /\ wb[p] = NoBlock
  /\ outstanding = 0 /\ committing = 0
  /\ \A b \in Block : cache[b] = NotCached \/ cache[b] = home[b]
  /\ mode = "read_head" => lh = << >>
  /\ mode = "install" =>
       /\ lh = head
       /\ tail \in 1..Len(lh)
       /\ \A i \in 1..tail - 1 : home[lh[i]] = logblk[i]
  /\ mode = "erase" =>
       /\ lh = head
       /\ \A i \in 1..Len(lh) : home[lh[i]] = logblk[i]

DiskInv ==
  /\ Distinct(lh)
  /\ Distinct(head)
  /\ mode = "up" => UpInv
  /\ mode # "up" => RecoveryInv

Held(b) == IF \E p \in Proc : wb[p] = b THEN 1 ELSE 0
Pins(b) == IF \E i \in DOMAIN lh : lh[i] = b /\ ~Installed(i) THEN 1 ELSE 0

(* Without a replayed log, reference counts count references. *)
PinInv ==
  MaxCrash = 0 => /\ mode = "up"
                  /\ \A b \in Block : refcnt[b] = Held(b) + Pins(b)

IInv == TypeOK /\ CallInv /\ SpaceInv /\ DiskInv /\ PinInv

(* Either no buffer is recycled or no log is ever replayed: recovery calls *)
(* bunpin() for buffers that nobody pinned, so their counts would wrap.    *)
RecoverySafe == Recycle = {} \/ MaxCrash = 0
-----------------------------------------------------------------------------
(* A reference count that is not zero goes down by one. *)
LEMMA ModDown ==
  /\ (1 + REFMOD - 1) % REFMOD = 0
  /\ (2 + REFMOD - 1) % REFMOD = 1
  BY LogAssumption DEF LogAssumption

(* The loops of write_log() and install_trans() stay inside the list. *)
LEMMA NextIndex ==
  ASSUME NEW n \in Nat, NEW i \in 1..n, i # n
  PROVE  i + 1 \in 1..n
  OBVIOUS

(* The loop of log_write() keeps a list of blocks free of repetitions,     *)
(* keeps what it holds in place, and adds at most the one block.           *)
LEMMA AddBlockFacts ==
  ASSUME NEW h \in Seq(Block), NEW b \in Block
  PROVE  /\ AddBlock(h, b) \in Seq(Block)
         /\ Logged(AddBlock(h, b)) = Logged(h) \cup {b}
         /\ Len(AddBlock(h, b)) \in Len(h)..Len(h) + 1
         /\ \A i \in 1..Len(h) : AddBlock(h, b)[i] = h[i]
         /\ \A i \in DOMAIN AddBlock(h, b) :
              i \in 1..Len(h) \/ AddBlock(h, b)[i] = b
         /\ Distinct(h) => Distinct(AddBlock(h, b))
  <1>1. CASE b \in Logged(h)
    BY <1>1 DEF AddBlock, Logged
  <1>2. CASE b \notin Logged(h)
    <2>1. AddBlock(h, b) = Append(h, b)
      BY <1>2, Zenon DEF AddBlock
    <2>2. /\ Append(h, b) \in Seq(Block)
          /\ Len(Append(h, b)) = Len(h) + 1
          /\ \A i \in 1..Len(h) : Append(h, b)[i] = h[i]
          /\ Append(h, b)[Len(h) + 1] = b
          /\ DOMAIN Append(h, b) = 1..Len(h) + 1
          /\ DOMAIN h = 1..Len(h)
          /\ Len(h) \in Nat
      OBVIOUS
    <2>3. Logged(Append(h, b)) = Logged(h) \cup {b}
      BY <2>2 DEF Logged
    <2>4. Distinct(h) => Distinct(Append(h, b))
      BY <1>2, <2>2 DEF Distinct, Logged
    <2>5. QED
      BY <2>1, <2>2, <2>3, <2>4
  <1>3. QED
    BY <1>1, <1>2, Zenon

(* Sets of processes and of tickets are finite. *)
LEMMA FiniteProcs ==
  ASSUME NEW S \in SUBSET Proc
  PROVE  IsFiniteSet(S) /\ Cardinality(S) \in Nat
  BY LogAssumption, FS_Subset, FS_CardinalityType, Zenon DEF LogAssumption

(* Each process of S holds at most MAXOPBLOCKS tickets. *)
LEMMA TicketCount ==
  ASSUME NEW S \in SUBSET Proc, NEW T \in SUBSET (S \X (1..MAXOPBLOCKS))
  PROVE  /\ IsFiniteSet(T)
         /\ Cardinality(T) \in Nat
         /\ Cardinality(T) <= Cardinality(S) * MAXOPBLOCKS
  <1>1. /\ IsFiniteSet(1..MAXOPBLOCKS)
        /\ Cardinality(1..MAXOPBLOCKS) = MAXOPBLOCKS
    BY LogAssumption, FS_Interval DEF LogAssumption
  <1>2. /\ IsFiniteSet(S \X (1..MAXOPBLOCKS))
        /\ Cardinality(S \X (1..MAXOPBLOCKS)) = Cardinality(S) * MAXOPBLOCKS
    BY Zenon, <1>1, FiniteProcs, FS_Product
  <1>3. QED
    BY <1>2, FS_Subset, FS_CardinalityType, Zenon

(* An empty log over any disk, before any process runs. *)
LEMMA InitInv == Init => IInv
  <1> SUFFICES ASSUME Init PROVE IInv
    BY Zenon
  <1> USE LogAssumption DEF LogAssumption
  <1>1. InCall = {}
    BY Zenon DEF Init, InCall
  <1>2. TypeOK
    <2>1. << >> \in Seq(Block)
      OBVIOUS
    <2>2. /\ home \in [Block -> Data]
          /\ logblk \in [1..LOGSIZE -> Data]
          /\ head \in Seq(Block)
          /\ mode \in Mode
          /\ lh \in Seq(Block)
          /\ outstanding \in Nat
          /\ tail \in Nat \ {0}
      BY <2>1 DEF Init, Mode
    <2>3. /\ cache \in [Block -> Data \cup {NotCached}]
          /\ refcnt \in [Block -> 0..REFMOD - 1]
          /\ pc \in [Proc -> PC]
      BY DEF Init, PC
    <2>4. /\ committing \in {0, 1}
          /\ wb \in [Proc -> Block \cup {NoBlock}]
          /\ opw \in [Proc -> Seq(Block)]
          /\ crashes \in 0..MaxCrash
      BY <2>1 DEF Init
    <2>5. QED
      BY <2>2, <2>3, <2>4, Zenon DEF TypeOK
  <1>3. CallInv
    BY <1>1, FS_EmptySet, Zenon DEF Init, CallInv, CommitPC
  <1>4. SpaceInv
    <2>1. Tickets = {}
      BY <1>1, Zenon DEF Tickets
    <2>2. QED
      BY <1>1, <2>1, FS_EmptySet DEF Init, SpaceInv, Logged
  <1>5. DiskInv
    BY DEF Init, DiskInv, Distinct, UpInv, CleanInv, KeptInv, HeadInv, CopyInv
  <1>6. PinInv
    BY DEF Init, PinInv, Held, Pins
  <1>7. QED
    BY <1>2, <1>3, <1>4, <1>5, <1>6, Zenon DEF IInv

(* begin_op() admits a call only if its MAXOPBLOCKS tickets fit. *)
LEMMA BeginOpInv ==
  ASSUME IInv, mode = "up", UNCHANGED <<mode, crashes>>,
         NEW p \in Proc, BeginOp(p)
  PROVE  IInv'
  <1> USE LogAssumption DEF LogAssumption
  <1>1. /\ TypeOK /\ CallInv /\ SpaceInv /\ UpInv /\ PinInv
        /\ Distinct(lh) /\ Distinct(head)
    BY Zenon DEF IInv, DiskInv
  <1>2. /\ pc' = [pc EXCEPT ![p] = "op"]
        /\ pc[p] \in {"idle", "awake"}
        /\ outstanding' = outstanding + 1
        /\ committing = 0
        /\ UNCHANGED <<home, logblk, head, lh, committing, tail, cache,
                       refcnt, wb, opw, mode, crashes>>
    BY <1>1, Zenon DEF BeginOp, Goto, MustWait, disk, bufs, calls, TypeOK
  <1>3. Len(lh) + (outstanding + 1) * MAXOPBLOCKS <= LOGSIZE
    BY <1>1 DEF BeginOp, MustWait, TypeOK
  <1>4. InCall' = InCall \cup {p} /\ p \notin InCall
    BY <1>1, <1>2 DEF InCall, TypeOK
  <1>5. TypeOK'
    BY <1>1, <1>2 DEF TypeOK, PC
  <1>6. CallInv'
    <2>1. outstanding' = Cardinality(InCall')
      BY Zenon, <1>1, <1>2, <1>4, FiniteProcs, FS_AddElement DEF CallInv, InCall
    <2>2. QED
      BY <1>1, <1>2, <1>4, <2>1 DEF CallInv, CommitPC, TypeOK
  <1>7. SpaceInv'
    <2>1. Cardinality(Tickets') <= (outstanding + 1) * MAXOPBLOCKS
          /\ Cardinality(Tickets') \in Nat
      <3>1. Tickets' \in SUBSET (InCall' \X (1..MAXOPBLOCKS))
        BY Zenon DEF Tickets
      <3>2. InCall' \in SUBSET Proc
        BY Zenon DEF InCall
      <3>3. Cardinality(InCall') = outstanding + 1
        BY <1>2, <1>6, Zenon DEF CallInv
      <3>4. QED
        BY <3>1, <3>2, <3>3, TicketCount, Zenon
    <2>2. Len(lh') + Cardinality(Tickets') <= LOGSIZE
      BY <1>1, <1>2, <1>3, <2>1 DEF TypeOK
    <2>3. QED
      BY <1>1, <1>2, <1>4, <2>2, Zenon DEF SpaceInv, TypeOK
  <1>8. DiskInv'
    <2>1. CleanInv' /\ KeptInv'
      BY Zenon, <1>1, <1>2 DEF UpInv, CleanInv, KeptInv, Installed, TypeOK
    <2>2. HeadInv'
      BY <1>1, <1>2 DEF UpInv, HeadInv, TypeOK
    <2>3. CopyInv'
      BY <1>1, <1>2 DEF UpInv, CopyInv, Bread, TypeOK
    <2>4. QED
      BY <1>1, <1>2, <2>1, <2>2, <2>3, Zenon DEF DiskInv, UpInv, Distinct
  <1>9. PinInv'
    <2>1. \A i \in DOMAIN lh : Installed(i)' <=> Installed(i)
      BY <1>1, <1>2, Zenon DEF Installed, TypeOK
    <2>2. \A b \in Block : Held(b)' = Held(b) /\ Pins(b)' = Pins(b)
      BY <1>2, <2>1, Zenon DEF Held, Pins
    <2>3. QED
      BY <1>1, <1>2, <2>2, Zenon DEF PinInv
  <1>10. QED
    BY <1>5, <1>6, <1>7, <1>8, <1>9, Zenon DEF IInv

(* Steps that only move processes between idle, asleep and awake. *)
Quiet == {"idle", "asleep", "awake"}

(* Falling asleep in begin_op() and waking disturb nothing. *)
LEMMA QuietInv ==
  ASSUME IInv,
         UNCHANGED <<home, logblk, head, lh, outstanding, committing, tail,
                     cache, refcnt, wb, opw, mode, crashes>>,
         pc' \in [Proc -> PC],
         mode = "up" \/ UNCHANGED pc,
         \A q \in Proc : pc'[q] = pc[q] \/ (pc[q] \in Quiet /\ pc'[q] \in Quiet)
  PROVE  IInv'
  <1> USE LogAssumption DEF LogAssumption
  <1>1. TypeOK /\ CallInv /\ SpaceInv /\ DiskInv /\ PinInv
    BY Zenon DEF IInv
  <1>2. \A q \in Proc, l \in PC \ Quiet : pc'[q] = l <=> pc[q] = l
    BY Zenon DEF Quiet
  <1>3. InCall' = InCall
    BY <1>2, Zenon DEF InCall, PC, Quiet
  <1>4. TypeOK'
    BY <1>1, Zenon DEF TypeOK
  <1>5. CallInv'
    BY <1>1, <1>2, <1>3, Zenon DEF CallInv, CommitPC, PC, Quiet
  <1>6. SpaceInv'
    <2>1. Tickets' = Tickets
      BY <1>3, Zenon DEF Tickets
    <2>2. QED
      BY <1>1, <1>2, <1>3, <2>1, Zenon DEF SpaceInv, PC, Quiet
  <1>7. \A i \in DOMAIN lh : Installed(i)' <=> Installed(i)
    BY <1>2, Zenon DEF Installed, PC, Quiet
  <1>8. DiskInv'
    <2>1. mode' = "up" => UpInv'
      <3> SUFFICES ASSUME mode = "up" PROVE UpInv'
        BY Zenon
      <3>1. UpInv
        BY <1>1, Zenon DEF DiskInv
      <3>2. CleanInv' /\ KeptInv'
        BY <3>1, <1>7, Zenon DEF UpInv, CleanInv, KeptInv
      <3>3. HeadInv'
        BY <3>1, <1>2, Zenon DEF UpInv, HeadInv, PC, Quiet
      <3>4. CopyInv'
        BY <3>1, <1>2 DEF UpInv, CopyInv, Bread, PC, Quiet
      <3>5. QED
        BY <3>2, <3>3, <3>4, Zenon DEF UpInv
    <2>2. mode' # "up" => RecoveryInv'
      <3> SUFFICES ASSUME mode # "up" PROVE RecoveryInv'
        BY Zenon
      <3>1. RecoveryInv
        BY <1>1, Zenon DEF DiskInv
      <3>2. QED
        BY <3>1, Zenon DEF RecoveryInv
    <2>3. QED
      BY <1>1, <2>1, <2>2, Zenon DEF DiskInv, Distinct
  <1>9. PinInv'
    <2>1. \A b \in Block : Held(b)' = Held(b) /\ Pins(b)' = Pins(b)
      BY <1>7, Zenon DEF Held, Pins
    <2>2. QED
      BY <1>1, <2>1, Zenon DEF PinInv
  <1>10. QED
    BY <1>4, <1>5, <1>6, <1>8, <1>9, Zenon DEF IInv

-----------------------------------------------------------------------------
(* While commit() runs no call is active, no buffer is held, and nobody    *)
(* else commits.                                                           *)
LEMMA CommitAlone ==
  ASSUME IInv, NEW p \in Proc, pc[p] \in CommitPC
  PROVE  /\ committing = 1
         /\ InCall = {}
         /\ Tickets = {}
         /\ \A q \in Proc : wb[q] = NoBlock
         /\ \A q \in Proc : pc[q] \in CommitPC => q = p
         /\ \A b \in Block : Held(b) = 0
  <1>1. TypeOK /\ CallInv
    BY Zenon DEF IInv
  <1>2. committing = 1 /\ InCall = {}
    BY <1>1, Zenon DEF CallInv
  <1>3. \A q \in Proc : wb[q] = NoBlock
    BY <1>1, <1>2, Zenon DEF CallInv, InCall
  <1>4. \A b \in Block : Held(b) = 0
    BY <1>3, LogAssumption, Zenon DEF Held, LogAssumption
  <1>5. QED
    BY <1>1, <1>2, <1>3, <1>4, Zenon DEF CallInv, Tickets

(* What a step inside commit() leaves alone. *)
LEMMA CommitStep ==
  ASSUME IInv, mode = "up", NEW p \in Proc, pc[p] \in CommitPC,
         NEW l \in CommitPC, pc' = [pc EXCEPT ![p] = l],
         UNCHANGED <<mode, crashes, outstanding, committing, wb, opw>>,
         lh' \in {lh, << >>}, Len(head') <= LOGSIZE
  PROVE  /\ CallInv' /\ SpaceInv'
         /\ pc'[p] = l
         /\ \A q \in Proc : pc'[q] \in CommitPC => q = p
         /\ \A b \in Block : Held(b)' = 0
         /\ ~(outstanding' = 0 /\ committing' = 0)
  <1> USE LogAssumption DEF LogAssumption
  <1>1. TypeOK /\ CallInv /\ SpaceInv
    BY Zenon DEF IInv
  <1>2. /\ committing = 1 /\ InCall = {} /\ Tickets = {}
        /\ \A q \in Proc : wb[q] = NoBlock
        /\ \A q \in Proc : pc[q] \in CommitPC => q = p
    BY CommitAlone, Zenon
  <1>3. pc'[p] = l /\ \A q \in Proc \ {p} : pc'[q] = pc[q]
    BY <1>1, Zenon DEF TypeOK
  <1>4. InCall' = {}
    BY <1>2, <1>3, Zenon DEF InCall, CommitPC
  <1>5. \A q \in Proc : pc'[q] \in CommitPC => q = p
    BY <1>2, <1>3, Zenon
  <1>6. CallInv'
    BY <1>1, <1>2, <1>3, <1>4, <1>5, Zenon DEF CallInv, CommitPC
  <1>7. SpaceInv'
    <2>1. Tickets' = {}
      BY <1>4, Zenon DEF Tickets
    <2>2. \A q \in Proc : opw[q] = << >>
      BY <1>1, <1>2, Zenon DEF SpaceInv
    <2>3. Logged(<< >>) = {} /\ Len(<< >>) = 0
      BY DEF Logged
    <2>4. Cardinality({}) = 0
      BY FS_EmptySet, Zenon
    <2>5. Len(lh) \in Nat /\ Len(lh) <= LOGSIZE
      BY <1>1, <1>2, <2>4 DEF TypeOK, SpaceInv
    <2>6. \A q \in Proc : pc'[q] # "log_write"
      BY <1>4, Zenon DEF InCall
    <2>7. Len(lh') + Cardinality(Tickets') <= LOGSIZE
      BY <2>1, <2>3, <2>4, <2>5
    <2>8. QED
      BY <2>2, <2>3, <2>6, <2>7 DEF SpaceInv
  <1>8. \A b \in Block : Held(b)' = 0
    BY <1>2, Zenon DEF Held
  <1>9. QED
    BY <1>2, <1>3, <1>5, <1>6, <1>7, <1>8

(* What one iteration of install_trans() does to each block. *)
LEMMA InstallFacts ==
  ASSUME TypeOK, Distinct(lh), InstallBlock,
         tail \in 1..Len(lh), Len(lh) <= LOGSIZE
  PROVE  /\ lh[tail] \in Block
         /\ logblk[tail] \in Data
         /\ home'[lh[tail]] = logblk[tail]
         /\ cache'[lh[tail]] = logblk[tail]
         /\ refcnt'[lh[tail]] = (refcnt[lh[tail]] + REFMOD - 1) % REFMOD
         /\ \A c \in Block : c # lh[tail] => /\ home'[c] = home[c]
                                             /\ cache'[c] = cache[c]
                                             /\ refcnt'[c] = refcnt[c]
         /\ \A i \in 1..Len(lh) : lh[i] \in Block /\ (lh[i] = lh[tail] => i = tail)
         /\ home' \in [Block -> Data]
         /\ cache' \in [Block -> Data \cup {NotCached}]
         /\ refcnt' \in [Block -> 0..REFMOD - 1]
         /\ tail' = tail + 1 /\ tail' \in Nat \ {0}
         /\ UNCHANGED <<logblk, head, lh, outstanding, committing>>
         /\ DOMAIN lh = 1..Len(lh) /\ Len(lh) \in Nat
  <1> USE LogAssumption DEF LogAssumption
  <1>1. /\ DOMAIN lh = 1..Len(lh) /\ Len(lh) \in Nat
        /\ \A i \in 1..Len(lh) : lh[i] \in Block
    BY SMTT(30) DEF TypeOK
  <1>2. \A i \in 1..Len(lh) : lh[i] = lh[tail] => i = tail
    BY <1>1, Zenon DEF Distinct
  <1>3. lh[tail] \in Block /\ logblk[tail] \in Data
    <2>1. tail \in 1..LOGSIZE
      BY <1>1
    <2>2. QED
      BY <1>1, <2>1, Zenon DEF TypeOK
  <1>4. /\ home' = [home EXCEPT ![lh[tail]] = logblk[tail]]
        /\ cache' = [cache EXCEPT ![lh[tail]] = logblk[tail]]
        /\ refcnt' = [refcnt EXCEPT ![lh[tail]] = (@ + REFMOD - 1) % REFMOD]
        /\ tail' = tail + 1
        /\ UNCHANGED <<logblk, head, lh, outstanding, committing>>
    BY Zenon DEF InstallBlock, logvars
  <1>5. tail' \in Nat \ {0}
    BY <1>4 DEF TypeOK
  <1>6. /\ home' \in [Block -> Data] /\ cache' \in [Block -> Data \cup {NotCached}]
        /\ home'[lh[tail]] = logblk[tail]
        /\ cache'[lh[tail]] = logblk[tail]
        /\ \A c \in Block : c # lh[tail] => home'[c] = home[c] /\ cache'[c] = cache[c]
    BY <1>3, <1>4, Zenon DEF TypeOK
  <1>7. /\ refcnt'[lh[tail]] = (refcnt[lh[tail]] + REFMOD - 1) % REFMOD
        /\ \A c \in Block : c # lh[tail] => refcnt'[c] = refcnt[c]
        /\ refcnt' \in [Block -> 0..REFMOD - 1]
    BY <1>3, <1>4, SMTT(30) DEF TypeOK
  <1>8. QED
    BY <1>1, <1>2, <1>3, <1>4, <1>5, <1>6, <1>7, Zenon
-----------------------------------------------------------------------------
(* The steps of file system calls, begin_op() to end_op().                 *)

(* bread() and a change of the buffer, before log_write(). *)
LEMMA FsWriteInv ==
  ASSUME IInv, mode = "up", UNCHANGED <<mode, crashes>>,
         NEW p \in Proc, NEW b \in Block, NEW d \in Data, FsWrite(p, b, d)
  PROVE  IInv'
  <1> USE LogAssumption DEF LogAssumption
  <1>1. /\ TypeOK /\ CallInv /\ SpaceInv /\ UpInv /\ PinInv
        /\ Distinct(lh) /\ Distinct(head)
    BY Zenon DEF IInv, DiskInv
  <1> DEFINE label == IF TooBig \/ outstanding < 1 THEN "panic" ELSE "log_write"
  <1>2. /\ pc' = [pc EXCEPT ![p] = label]
        /\ pc[p] = "op"
        /\ \A q \in Proc : wb[q] # b
        /\ b \in Logged(opw[p]) \/ Len(opw[p]) < OpBlocks
        /\ cache' = [cache EXCEPT ![b] = d]
        /\ refcnt' = [refcnt EXCEPT ![b] = (@ + 1) % REFMOD]
        /\ wb' = [wb EXCEPT ![p] = b]
        /\ UNCHANGED <<home, logblk, head, lh, outstanding, committing, tail,
                       opw, mode, crashes>>
    BY Zenon DEF FsWrite, Goto, disk, logvars
  <1>3. label \in {"panic", "log_write"}
    BY Zenon
  <1> HIDE DEF label
  <1>4. InCall' = InCall /\ p \in InCall
    BY <1>1, <1>2, <1>3, Zenon DEF InCall, TypeOK
  <1>5. committing = 0 /\ \A q \in Proc : pc[q] \notin CommitPC
    BY <1>1, <1>4, Zenon DEF CallInv, TypeOK
  <1>6. wb[p] = NoBlock
    BY <1>1, <1>2, Zenon DEF CallInv
  <1>7. TypeOK'
    BY <1>1, <1>2, <1>3 DEF TypeOK, PC
  <1>8. CallInv'
    BY <1>1, <1>2, <1>3, <1>4, <1>5 DEF CallInv, CommitPC, TypeOK
  <1>9. SpaceInv'
    <2>1. Tickets' = Tickets
      BY <1>2, <1>4, Zenon DEF Tickets
    <2>2. QED
      BY <1>1, <1>2, <1>3, <1>4, <2>1, Zenon DEF SpaceInv, TypeOK
  <1>10. \A i \in DOMAIN lh : ~Installed(i) /\ ~Installed(i)'
    BY <1>1, <1>2, <1>3, <1>5, Zenon DEF Installed, CommitPC, TypeOK
  <1>11. DiskInv'
    <2>1. CleanInv'
      BY <1>1, <1>2, <1>6 DEF UpInv, CleanInv, TypeOK
    <2>2. KeptInv'
      BY <1>1, <1>2, <1>6, <1>10 DEF UpInv, KeptInv, TypeOK
    <2>3. HeadInv'
      BY <1>1, <1>2, <1>3, Zenon DEF UpInv, HeadInv, TypeOK
    <2>4. CopyInv'
      BY <1>1, <1>2, <1>3, <1>5, Zenon DEF CopyInv, CommitPC, TypeOK
    <2>5. QED
      BY <1>1, <1>2, <2>1, <2>2, <2>3, <2>4, Zenon DEF DiskInv, UpInv, Distinct
  <1>12. PinInv'
    <2> SUFFICES ASSUME MaxCrash = 0, NEW c \in Block
                 PROVE  mode' = "up" /\ refcnt'[c] = Held(c)' + Pins(c)'
      BY Zenon DEF PinInv
    <2>1. refcnt[c] = Held(c) + Pins(c)
      BY <1>1, Zenon DEF PinInv
    <2>2. Pins(c)' = Pins(c) /\ Pins(c) \in {0, 1}
      BY <1>2, <1>10, Zenon DEF Pins
    <2>3. CASE c = b
      <3>1. Held(c) = 0 /\ Held(c)' = 1
        BY <1>1, <1>2, <2>3, Zenon DEF Held, TypeOK
      <3>2. refcnt'[c] = (refcnt[c] + 1) % REFMOD
        BY <1>1, <1>2, <2>3, Zenon DEF TypeOK
      <3>3. QED
        BY <1>2, <2>1, <2>2, <3>1, <3>2
    <2>4. CASE c # b
      <3>1. Held(c)' = Held(c) /\ refcnt'[c] = refcnt[c]
        BY <1>1, <1>2, <1>6, <2>4, Zenon DEF Held, TypeOK
      <3>2. QED
        BY <1>2, <2>1, <2>2, <3>1, Zenon
    <2>5. QED
      BY <2>3, <2>4, Zenon
  <1>13. QED
    BY <1>7, <1>8, <1>9, <1>11, <1>12, Zenon DEF IInv

(* log_write() turns one ticket into at most one entry, and pins it. *)
LEMMA LogWriteInv ==
  ASSUME IInv, mode = "up", UNCHANGED <<mode, crashes>>,
         NEW p \in Proc, LogWrite(p)
  PROVE  IInv'
  <1> USE LogAssumption DEF LogAssumption
  <1>1. /\ TypeOK /\ CallInv /\ SpaceInv /\ UpInv /\ PinInv
        /\ Distinct(lh) /\ Distinct(head)
    BY Zenon DEF IInv, DiskInv
  <1> DEFINE b == wb[p]
  <1>2. /\ pc[p] = "log_write"
        /\ pc' = [pc EXCEPT ![p] = "op"]
        /\ lh' = AddBlock(lh, b)
        /\ opw' = [opw EXCEPT ![p] = AddBlock(opw[p], b)]
        /\ wb' = [wb EXCEPT ![p] = NoBlock]
        /\ refcnt' = IF b \in Logged(lh)
                     THEN [refcnt EXCEPT ![b] = (@ + REFMOD - 1) % REFMOD]
                     ELSE refcnt
        /\ UNCHANGED <<home, logblk, head, outstanding, committing, tail,
                       cache, mode, crashes>>
    BY Zenon DEF LogWrite, Goto, disk
  <1>3. b \in Block
    BY <1>1, <1>2, Zenon DEF CallInv, TypeOK
  <1>4. InCall' = InCall /\ p \in InCall
    BY <1>1, <1>2, Zenon DEF InCall, TypeOK
  <1>5. /\ committing = 0
        /\ \A q \in Proc : pc[q] \notin CommitPC /\ pc'[q] \notin CommitPC
    BY <1>1, <1>2, <1>4, Zenon DEF CallInv, CommitPC, TypeOK
  <1>6. outstanding # 0
    <2>1. IsFiniteSet(InCall)
      BY FiniteProcs, Zenon DEF InCall
    <2>2. QED
      BY <1>1, <1>4, <2>1, FS_EmptySet, Zenon DEF CallInv
  <1>7. /\ lh \in Seq(Block) /\ lh' \in Seq(Block)
        /\ Logged(lh') = Logged(lh) \cup {b}
        /\ Len(lh') \in Len(lh)..Len(lh) + 1
        /\ \A i \in 1..Len(lh) : lh'[i] = lh[i]
        /\ \A i \in DOMAIN lh' : i \in 1..Len(lh) \/ lh'[i] = b
        /\ Distinct(lh')
        /\ b \in Logged(lh) => lh' = lh
    <2>1. lh \in Seq(Block)
      BY <1>1, Zenon DEF TypeOK
    <2>2. b \in Logged(lh) => AddBlock(lh, b) = lh
      BY Zenon DEF AddBlock
    <2> HIDE DEF b
    <2>3. QED
      BY Zenon, <1>1, <1>2, <1>3, <2>1, <2>2, AddBlockFacts
  <1>8. /\ opw[p] \in Seq(Block) /\ opw'[p] \in Seq(Block)
        /\ Logged(opw'[p]) = Logged(opw[p]) \cup {b}
        /\ Len(opw'[p]) \in Len(opw[p])..Len(opw[p]) + 1
        /\ b \in Logged(opw[p]) => opw'[p] = opw[p]
        /\ b \notin Logged(opw[p]) => Len(opw'[p]) = Len(opw[p]) + 1
    <2>1. opw[p] \in Seq(Block) /\ opw'[p] = AddBlock(opw[p], b)
      BY <1>1, <1>2, Zenon DEF TypeOK
    <2>2. b \notin Logged(opw[p]) => AddBlock(opw[p], b) = Append(opw[p], b)
      BY Zenon DEF AddBlock
    <2>3. Len(Append(opw[p], b)) = Len(opw[p]) + 1
      BY <2>1
    <2>4. b \in Logged(opw[p]) => AddBlock(opw[p], b) = opw[p]
      BY Zenon DEF AddBlock
    <2> HIDE DEF b
    <2>5. QED
      BY Zenon, <1>3, <2>1, <2>2, <2>3, <2>4, AddBlockFacts
  <1> HIDE DEF b
  <1>9. TypeOK'
    <2>1. refcnt' \in [Block -> 0..REFMOD - 1]
      BY <1>1, <1>2, <1>3 DEF TypeOK
    <2>2. QED
      BY <1>1, <1>2, <1>7, <1>8, <2>1, Zenon DEF TypeOK, PC
  <1>10. CallInv'
    BY <1>1, <1>2, <1>4, <1>5, Zenon DEF CallInv, TypeOK
  <1>11. SpaceInv'
    <2>1. Len(lh') + Cardinality(Tickets') <= LOGSIZE
      <3>1. /\ IsFiniteSet(Tickets) /\ Cardinality(Tickets) \in Nat
            /\ Len(lh) + Cardinality(Tickets) <= LOGSIZE
        <4>1. Tickets \in SUBSET (InCall \X (1..MAXOPBLOCKS)) /\ InCall \in SUBSET Proc
          BY Zenon DEF Tickets, InCall
        <4>2. QED
          BY Zenon, <1>1, <4>1, TicketCount DEF SpaceInv
      <3>2. CASE b \in Logged(opw[p])
        <4>1. lh' = lh /\ opw' = opw
          BY <1>1, <1>2, <1>7, <1>8, <3>2, Zenon DEF SpaceInv, TypeOK
        <4>2. Tickets' = Tickets
          BY <1>4, <4>1, Zenon DEF Tickets
        <4>3. QED
          BY <3>1, <4>1, <4>2, Zenon
      <3>3. CASE b \notin Logged(opw[p])
        <4> DEFINE t == <<p, Len(opw[p]) + 1>>
        <4>1. t \in Tickets
          BY <1>1, <1>2, <1>4, <1>8, <3>3 DEF Tickets, SpaceInv, b
        <4>2. Tickets' = Tickets \ {t}
          <5>1. \A q \in Proc : Len(opw'[q]) = IF q = p THEN Len(opw[p]) + 1
                                                      ELSE Len(opw[q])
            BY Zenon, <1>1, <1>2, <1>8, <3>3 DEF TypeOK
          <5>2. \A q \in Proc : Len(opw[q]) \in Nat
            BY <1>1 DEF TypeOK
          <5>3. QED
            BY <1>4, <5>1, <5>2 DEF Tickets
        <4> HIDE DEF t
        <4>3. Cardinality(Tickets \ {t}) = Cardinality(Tickets) - 1
          BY Zenon, <3>1, <4>1, FS_RemoveElement
        <4>4. Cardinality(Tickets') = Cardinality(Tickets) - 1
          BY <4>2, <4>3, Zenon
        <4>5. QED
          BY <1>7, <3>1, <4>4
      <3>4. QED
        BY <3>2, <3>3, Zenon
    <2>2. \A q \in Proc : Logged(opw'[q]) \subseteq Logged(lh')
      BY <1>1, <1>2, <1>7, <1>8, Zenon DEF SpaceInv, TypeOK
    <2>3. \A q \in Proc : Len(opw'[q]) <= OpBlocks
      BY <1>1, <1>2, <1>8 DEF SpaceInv, TypeOK, b
    <2>4. QED
      BY <1>1, <1>2, <1>4, <2>1, <2>2, <2>3, Zenon DEF SpaceInv, TypeOK
  <1>12. \A i : ~Installed(i) /\ ~Installed(i)'
    BY <1>5, Zenon DEF Installed, CommitPC
  <1>13. DiskInv'
    <2>1. CleanInv'
      BY <1>1, <1>2, <1>7 DEF UpInv, CleanInv, TypeOK, b
    <2>2. KeptInv'
      <3>1. cache[b] # NotCached
        BY <1>1, <1>3, Zenon DEF UpInv, KeptInv, b
      <3>2. \A q \in Proc : wb'[q] # NoBlock => cache'[wb'[q]] # NotCached
        BY <1>1, <1>2, Zenon DEF UpInv, KeptInv, TypeOK
      <3>3. \A i \in DOMAIN lh' : cache'[lh'[i]] # NotCached
        <4>1. \A i \in DOMAIN lh : cache[lh[i]] # NotCached
          BY <1>1, <1>12, Zenon DEF UpInv, KeptInv
        <4>2. DOMAIN lh = 1..Len(lh)
          BY <1>7
        <4>3. QED
          BY <1>2, <1>7, <3>1, <4>1, <4>2, Zenon
      <3>4. QED
        BY <3>2, <3>3, Zenon DEF KeptInv
    <2>3. HeadInv'
      BY <1>1, <1>2, <1>5, <1>6, Zenon DEF UpInv, HeadInv, CommitPC, TypeOK
    <2>4. CopyInv'
      BY <1>5, Zenon DEF CopyInv, CommitPC
    <2>5. QED
      BY <1>1, <1>2, <1>7, <2>1, <2>2, <2>3, <2>4, Zenon DEF DiskInv, UpInv, Distinct
  <1>14. PinInv'
    <2> SUFFICES ASSUME MaxCrash = 0, NEW c \in Block
                 PROVE  mode' = "up" /\ refcnt'[c] = Held(c)' + Pins(c)'
      BY Zenon DEF PinInv
    <2>1. refcnt[c] = Held(c) + Pins(c)
      BY <1>1, Zenon DEF PinInv
    <2>2. Pins(c) = (IF c \in Logged(lh) THEN 1 ELSE 0)
      BY <1>12, Zenon DEF Pins, Logged
    <2>3. Pins(c)' = (IF c \in Logged(lh') THEN 1 ELSE 0)
      BY <1>12, Zenon DEF Pins, Logged
    <2>4. CASE c = b
      <3>1. Held(c) = 1
        BY <2>4, Zenon DEF Held, b
      <3>2. Held(c)' = 0
        BY <1>1, <1>2, <1>3, <2>4, Zenon DEF Held, TypeOK, CallInv, b
      <3>3. refcnt'[c] = IF c \in Logged(lh) THEN (refcnt[c] + REFMOD - 1) % REFMOD
                                            ELSE refcnt[c]
        BY <1>1, <1>2, <2>4, Zenon DEF TypeOK
      <3>4. c \in Logged(lh')
        BY <1>7, <2>4, Zenon
      <3>5. CASE c \in Logged(lh)
        <4>1. refcnt[c] = 2
          BY <2>1, <2>2, <3>1, <3>5
        <4>2. (2 + REFMOD - 1) % REFMOD = 1
          BY ModDown, Zenon
        <4>3. QED
          BY <1>2, <2>3, <3>2, <3>3, <3>4, <3>5, <4>1, <4>2
      <3>6. CASE c \notin Logged(lh)
        BY <1>2, <2>1, <2>2, <2>3, <3>1, <3>2, <3>3, <3>4, <3>6
      <3>7. QED
        BY <3>5, <3>6, Zenon
    <2>5. CASE c # b
      <3>1. Held(c)' = Held(c)
        BY <1>1, <1>2, <1>3, <2>5, Zenon DEF Held, TypeOK, b
      <3>2. refcnt'[c] = refcnt[c]
        BY <1>1, <1>2, <2>5, Zenon DEF TypeOK
      <3>3. QED
        BY <1>2, <1>7, <2>1, <2>2, <2>3, <2>5, <3>1, <3>2, Zenon
    <2>6. QED
      BY <2>4, <2>5, Zenon
  <1>15. QED
    BY <1>9, <1>10, <1>11, <1>13, <1>14, Zenon DEF IInv

(* end_op() gives the tickets back, and the last call starts commit(). *)
LEMMA EndOpInv ==
  ASSUME IInv, mode = "up", UNCHANGED <<mode, crashes>>,
         NEW p \in Proc, EndOp(p)
  PROVE  IInv'
  <1> USE LogAssumption DEF LogAssumption
  <1>1. /\ TypeOK /\ CallInv /\ SpaceInv /\ UpInv /\ PinInv
        /\ Distinct(lh) /\ Distinct(head)
    BY Zenon DEF IInv, DiskInv
  <1>2. p \in InCall /\ committing = 0 /\ pc[p] = "op"
    BY <1>1, Zenon DEF EndOp, InCall, CallInv, TypeOK
  <1>3. /\ \A q \in Proc : pc[q] \notin CommitPC
        /\ wb[p] = NoBlock
    BY Zenon, <1>1, <1>2 DEF CallInv, TypeOK
  <1>4. /\ outstanding' = outstanding - 1
        /\ opw' = [opw EXCEPT ![p] = << >>]
        /\ UNCHANGED <<home, logblk, head, lh, cache, refcnt, wb, mode, crashes>>
    BY Zenon DEF EndOp, disk, bufs
  <1>5. /\ outstanding = 1 =>
             /\ committing' = 1
             /\ pc' = [pc EXCEPT ![p] = IF lh = << >> THEN "done" ELSE "write_log"]
             /\ tail' = 1
        /\ outstanding # 1 =>
             /\ pc' = [WakeupLog EXCEPT ![p] = "idle"]
             /\ committing' = committing
             /\ tail' = tail
    BY <1>2 DEF EndOp, Goto
  <1>6. /\ IsFiniteSet(InCall) /\ outstanding = Cardinality(InCall)
        /\ outstanding \in Nat \ {0}
        /\ Cardinality(InCall \ {p}) = outstanding - 1
    <2>1. InCall \in SUBSET Proc
      BY Zenon DEF InCall
    <2>2. IsFiniteSet(InCall)
      BY <2>1, FiniteProcs, Zenon
    <2>3. InCall # {}
      BY <1>2, Zenon
    <2>4. outstanding = Cardinality(InCall)
      BY <1>1, Zenon DEF CallInv
    <2>5. QED
      BY Zenon, <1>1, <1>2, <2>2, <2>3, <2>4, FS_EmptySet, FS_RemoveElement DEF TypeOK
  <1>7. pc' \in [Proc -> PC]
    <2>1. WakeupLog \in [Proc -> PC]
      BY <1>1, Zenon DEF WakeupLog, TypeOK, PC
    <2>2. QED
      BY Zenon, <1>1, <1>5, <2>1 DEF TypeOK, PC
  <1>8. \A q \in Proc \ {p} : pc'[q] = pc[q] \/ (pc[q] = "asleep" /\ pc'[q] = "awake")
    BY Zenon, <1>1, <1>5 DEF TypeOK, WakeupLog
  <1>9. /\ outstanding = 1 => pc'[p] = IF lh = << >> THEN "done" ELSE "write_log"
        /\ outstanding # 1 => pc'[p] = "idle"
    BY <1>1, <1>5, Zenon DEF TypeOK, WakeupLog
  <1>10. InCall' = InCall \ {p}
    BY <1>8, <1>9, Zenon DEF InCall
  <1>11. TypeOK'
    <2>1. << >> \in Seq(Block)
      OBVIOUS
    <2>2. opw' \in [Proc -> Seq(Block)]
      BY <1>1, <1>4, <2>1, Zenon DEF TypeOK
    <2>3. outstanding' \in Nat /\ committing' \in {0, 1} /\ tail' \in Nat \ {0}
      BY <1>1, <1>4, <1>5, <1>6 DEF TypeOK
    <2>4. QED
      BY <1>1, <1>4, <1>7, <2>2, <2>3, Zenon DEF TypeOK
  <1>12. CallInv'
    <2>1. outstanding' = Cardinality(InCall')
      BY <1>4, <1>6, <1>10, Zenon
    <2>2. committing' = 1 => InCall' = {}
      <3>1. IsFiniteSet(InCall \ {p})
        BY <1>6, FS_RemoveElement, Zenon
      <3>2. outstanding = 1 => InCall \ {p} = {}
        BY <1>6, <3>1, FS_EmptySet
      <3>3. QED
        BY <1>2, <1>5, <1>10, <3>2
    <2>3. \A q \in Proc : pc'[q] \in CommitPC => q = p /\ committing' = 1
      BY <1>3, <1>5, <1>8, <1>9, Zenon DEF CommitPC
    <2>4. \A q \in Proc : pc'[q] = "log_write" => pc[q] = "log_write"
      BY <1>8, <1>9, Zenon
    <2>5. \A q \in Proc : wb[q] # NoBlock => pc'[q] = pc[q]
      BY <1>1, <1>3, <1>8, Zenon DEF CallInv
    <2>6. QED
      BY <1>1, <1>4, <2>1, <2>2, <2>3, <2>4, <2>5 DEF CallInv
  <1>13. SpaceInv'
    <2>1. Len(lh) + Cardinality(Tickets') <= LOGSIZE
      <3>1. Tickets' \subseteq Tickets
        BY <1>1, <1>4, <1>10, Zenon DEF Tickets, TypeOK
      <3>2. /\ IsFiniteSet(Tickets) /\ Cardinality(Tickets) \in Nat
        <4>1. Tickets \in SUBSET (InCall \X (1..MAXOPBLOCKS)) /\ InCall \in SUBSET Proc
          BY Zenon DEF Tickets, InCall
        <4>2. QED
          BY <4>1, TicketCount, Zenon
      <3>3. Cardinality(Tickets') <= Cardinality(Tickets) /\ Cardinality(Tickets') \in Nat
        BY <3>1, <3>2, FS_Subset, FS_CardinalityType, Zenon
      <3>4. QED
        BY <1>1, <3>2, <3>3 DEF SpaceInv, TypeOK
    <2>2. \A q \in Proc : /\ q \notin InCall' => opw'[q] = << >>
                          /\ Logged(opw'[q]) \subseteq Logged(lh)
                          /\ Len(opw'[q]) <= OpBlocks
      <3>1. Logged(<< >>) = {} /\ Len(<< >>) = 0
        BY DEF Logged
      <3>2. QED
        BY <1>1, <1>4, <1>10, <3>1 DEF SpaceInv, TypeOK
    <2>3. \A q \in Proc : pc'[q] = "log_write" => q # p /\ pc[q] = "log_write"
      BY <1>8, <1>9, Zenon
    <2>4. \A q \in Proc : pc'[q] = "log_write" =>
            wb'[q] \in Logged(opw'[q]) \/ Len(opw'[q]) < OpBlocks
      BY <1>1, <1>4, <2>3, Zenon DEF SpaceInv, TypeOK
    <2>5. QED
      BY <1>1, <1>4, <2>1, <2>2, <2>4, Zenon DEF SpaceInv
  <1>14. \A i : ~Installed(i) /\ ~Installed(i)'
    BY <1>3, <1>8, <1>9, Zenon DEF Installed, CommitPC
  <1>15. DiskInv'
    <2>1. CleanInv' /\ KeptInv'
      BY <1>1, <1>4, <1>14, Zenon DEF UpInv, CleanInv, KeptInv
    <2>2. HeadInv'
      <3>1. head = << >>
        BY <1>1, <1>3, Zenon DEF UpInv, HeadInv, CommitPC
      <3>2. \A q \in Proc : pc'[q] \in CommitPC =>
              /\ q = p /\ outstanding = 1 /\ tail' = 1
              /\ pc'[q] = IF lh = << >> THEN "done" ELSE "write_log"
        BY <1>3, <1>5, <1>8, <1>9, Zenon DEF CommitPC
      <3>3. lh # << >> => 1 \in 1..Len(lh)
        BY <1>1 DEF TypeOK
      <3>4. ~(outstanding' = 0 /\ committing' = 0)
        BY <1>4, <1>5, <1>6
      <3>5. QED
        BY <1>4, <3>1, <3>2, <3>3, <3>4, Zenon DEF HeadInv, CommitPC
    <2>3. CopyInv'
      <3>1. \A q \in Proc : /\ pc'[q] \notin {"write_head", "install", "erase"}
                            /\ pc'[q] = "write_log" => tail' = 1
        BY <1>3, <1>5, <1>8, <1>9, Zenon DEF CommitPC
      <3>2. QED
        BY <3>1 DEF CopyInv
    <2>4. QED
      BY <1>1, <1>4, <2>1, <2>2, <2>3, Zenon DEF DiskInv, UpInv, Distinct
  <1>16. PinInv'
    <2>1. \A b \in Block : Held(b)' = Held(b) /\ Pins(b)' = Pins(b)
      BY <1>4, <1>14, Zenon DEF Held, Pins
    <2>2. QED
      BY <1>1, <1>4, <2>1, Zenon DEF PinInv
  <1>17. QED
    BY <1>11, <1>12, <1>13, <1>15, <1>16, Zenon DEF IInv

(* A call that must wait in begin_op() only goes to sleep. *)
LEMMA BeginSleepInv ==
  ASSUME IInv, mode = "up", UNCHANGED <<mode, crashes>>,
         NEW p \in Proc, BeginSleep(p)
  PROVE  IInv'
  <1>1. /\ pc[p] \in {"idle", "awake"}
        /\ pc' = [pc EXCEPT ![p] = "asleep"]
        /\ UNCHANGED <<home, logblk, head, lh, outstanding, committing, tail,
                       cache, refcnt, wb, opw, mode, crashes>>
    BY Zenon DEF BeginSleep, Goto, disk, logvars, bufs, calls
  <1>2. pc \in [Proc -> PC]
    BY Zenon DEF IInv, TypeOK
  <1>3. /\ pc' \in [Proc -> PC]
        /\ \A q \in Proc : pc'[q] = pc[q] \/ (pc[q] \in Quiet /\ pc'[q] \in Quiet)
    BY <1>1, <1>2, Zenon DEF PC, Quiet
  <1>4. QED
    BY <1>1, <1>3, QuietInv, Zenon

(* IInv is inductive. *)
-----------------------------------------------------------------------------
(* commit() *)

(* One iteration of write_log(). *)
LEMMA WriteLogInv ==
  ASSUME IInv, mode = "up", UNCHANGED <<mode, crashes>>,
         NEW p \in Proc, WriteLog(p)
  PROVE  IInv'
  <1> USE LogAssumption DEF LogAssumption
  <1>1. /\ TypeOK /\ CallInv /\ SpaceInv /\ UpInv /\ PinInv
        /\ Distinct(lh) /\ Distinct(head)
    BY Zenon DEF IInv, DiskInv
  <1> DEFINE label == IF tail = Len(lh) THEN "write_head" ELSE "write_log"
  <1>2. /\ pc[p] = "write_log" /\ pc[p] \in CommitPC
        /\ pc' = [pc EXCEPT ![p] = label] /\ label \in CommitPC
        /\ tail' = tail + 1
        /\ logblk' = [logblk EXCEPT ![tail] = Bread(lh[tail])]
        /\ cache' = [cache EXCEPT ![lh[tail]] = Bread(lh[tail])]
        /\ UNCHANGED <<home, head, lh, outstanding, committing, refcnt, wb, opw,
                       mode, crashes>>
    BY Zenon DEF WriteLog, Goto, logvars, calls, CommitPC
  <1> HIDE DEF label
  <1>3. /\ CallInv' /\ SpaceInv' /\ pc'[p] = label
        /\ \A q \in Proc : pc'[q] \in CommitPC => q = p
        /\ \A b \in Block : Held(b)' = 0
        /\ ~(outstanding' = 0 /\ committing' = 0)
    BY Zenon, <1>1, <1>2, CommitStep DEF SpaceInv
  <1>4. /\ \A q \in Proc : pc[q] \in CommitPC => q = p
        /\ \A b \in Block : Held(b) = 0
        /\ Tickets = {}
    BY <1>2, CommitAlone, Zenon
  <1>5. /\ tail \in 1..Len(lh) /\ Len(lh) \in Nat /\ Len(lh) <= LOGSIZE
        /\ lh[tail] \in Block
        /\ DOMAIN lh = 1..Len(lh)
    <2>1. Cardinality({}) = 0
      BY FS_EmptySet, Zenon
    <2>2. QED
      BY <1>1, <1>2, <1>4, <2>1 DEF UpInv, HeadInv, TypeOK, SpaceInv
  <1>6. \A i : ~Installed(i) /\ ~Installed(i)'
    BY <1>2, <1>3, <1>4, Zenon DEF Installed, CommitPC, label
  <1>7. cache' = cache /\ \A i \in 1..Len(lh) : Bread(lh[i]) = cache[lh[i]] /\ lh[i] \in Block
    <2>1. \A i \in 1..Len(lh) : Bread(lh[i]) = cache[lh[i]] /\ lh[i] \in Block
      <3>1. \A i \in 1..Len(lh) : lh[i] \in Block
        BY <1>1 DEF TypeOK
      <3>2. \A i \in 1..Len(lh) : cache[lh[i]] # NotCached
        BY <1>1, <1>5, <1>6, Zenon DEF UpInv, KeptInv
      <3>3. QED
        BY <3>1, <3>2, Zenon DEF Bread
    <2>2. QED
      BY Zenon, <1>1, <1>2, <1>5, <2>1 DEF TypeOK
  <1>8. TypeOK'
    <2>1. cache[lh[tail]] \in Data
      BY <1>1, <1>5, <1>6, Zenon DEF UpInv, KeptInv, TypeOK
    <2>2. logblk' \in [1..LOGSIZE -> Data]
      BY <1>1, <1>2, <1>5, <1>7, <2>1 DEF TypeOK
    <2>3. pc' \in [Proc -> PC]
      BY <1>1, <1>2, Zenon DEF TypeOK, PC, CommitPC
    <2>4. tail' \in Nat \ {0}
      BY <1>2, <1>5
    <2>5. UNCHANGED <<home, head, lh, outstanding, committing, refcnt, wb, opw,
                      mode, crashes, cache>>
      BY <1>2, <1>7, Zenon
    <2>6. QED
      BY <1>1, <2>2, <2>3, <2>4, <2>5, Zenon DEF TypeOK
  <1>9. \A i \in 1..tail : logblk'[i] = IF i = tail THEN cache[lh[tail]] ELSE logblk[i]
    BY <1>1, <1>2, <1>5, <1>7 DEF TypeOK
  <1>10. UpInv'
    <2>1. CleanInv' /\ KeptInv'
      BY <1>1, <1>2, <1>6, <1>7, Zenon DEF UpInv, CleanInv, KeptInv
    <2>2. HeadInv'
      <3>1. head' = << >>
        BY <1>1, <1>2, <1>4, Zenon DEF UpInv, HeadInv, CommitPC
      <3>2. \A q \in Proc : pc'[q] \in CommitPC => pc'[q] = label
        BY <1>3, Zenon
      <3>3. /\ label \in {"write_log", "write_head"}
            /\ label = "write_log" => tail' \in 1..Len(lh')
        <4>1. /\ label \in {"write_log", "write_head"}
              /\ label = "write_log" => tail # Len(lh)
          BY Zenon DEF label
        <4>2. tail' = tail + 1 /\ lh' = lh
          BY <1>2, Zenon
        <4>3. tail # Len(lh) => tail + 1 \in 1..Len(lh)
          BY Zenon, <1>5, NextIndex
        <4>4. QED
          BY <4>1, <4>2, <4>3, Zenon
      <3>4. lh' # << >>
        BY <1>2, <1>5
      <3>5. QED
        BY <1>3, <3>1, <3>2, <3>3, <3>4, Zenon DEF HeadInv, CommitPC
    <2>3. CopyInv'
      <3>1. \A i \in 1..tail - 1 : logblk[i] = Bread(lh[i])
        BY <1>1, <1>2, Zenon DEF UpInv, CopyInv
      <3>2. \A i \in 1..Len(lh) : Bread(lh[i])' = Bread(lh[i])
        BY <1>2, <1>7, Zenon DEF Bread
      <3>3. \A i \in 1..tail : logblk'[i] = Bread(lh[i])'
        BY <1>5, <1>7, <1>9, <3>1, <3>2
      <3>4. \A q \in Proc : pc'[q] \in {"write_log", "write_head", "install", "erase"}
              => q = p /\ pc'[q] = label
        BY <1>3, Zenon DEF CommitPC
      <3>5. /\ label \in {"write_log", "write_head"}
            /\ label = "write_head" => tail = Len(lh)
        BY Zenon DEF label
      <3>6. tail' - 1 = tail /\ lh' = lh
        BY <1>2, <1>5
      <3>7. label = "write_log" =>
              \A i \in 1..tail' - 1 : logblk'[i] = Bread(lh[i])'
        BY <3>3, <3>6, Zenon
      <3>8. label = "write_head" =>
              \A i \in 1..Len(lh') : logblk'[i] = Bread(lh[i])'
        BY <3>3, <3>5, <3>6, Zenon
      <3>9. QED
        BY <3>4, <3>5, <3>7, <3>8, Zenon DEF CopyInv
    <2>4. QED
      BY <2>1, <2>2, <2>3, Zenon DEF UpInv
  <1>11. DiskInv'
    BY <1>1, <1>2, <1>10, Zenon DEF DiskInv, Distinct
  <1>12. PinInv'
    <2>1. \A b \in Block : Held(b)' = Held(b) /\ Pins(b)' = Pins(b)
      BY <1>2, <1>3, <1>4, <1>6, Zenon DEF Pins
    <2>2. QED
      BY <1>1, <1>2, <2>1, Zenon DEF PinInv
  <1>13. QED
    BY <1>3, <1>8, <1>11, <1>12, Zenon DEF IInv

(* The true commit point, write_head(). *)
LEMMA WriteHeadInv ==
  ASSUME IInv, mode = "up", UNCHANGED <<mode, crashes>>,
         NEW p \in Proc, WriteHead(p)
  PROVE  IInv'
  <1> USE LogAssumption DEF LogAssumption
  <1>1. /\ TypeOK /\ CallInv /\ SpaceInv /\ UpInv /\ PinInv
        /\ Distinct(lh) /\ Distinct(head)
    BY Zenon DEF IInv, DiskInv
  <1>2. /\ pc[p] = "write_head" /\ pc[p] \in CommitPC
        /\ pc' = [pc EXCEPT ![p] = "install"] /\ "install" \in CommitPC
        /\ head' = lh /\ tail' = 1
        /\ UNCHANGED <<home, logblk, lh, outstanding, committing, cache, refcnt,
                       wb, opw, mode, crashes>>
    BY Zenon DEF WriteHead, Goto, logvars, calls, bufs, CommitPC
  <1>3. /\ \A q \in Proc : pc[q] \in CommitPC => q = p
        /\ \A b \in Block : Held(b) = 0
        /\ Tickets = {}
    BY <1>2, CommitAlone, Zenon
  <1>4. lh # << >> /\ Len(lh) \in Nat \ {0} /\ Len(lh) <= LOGSIZE
    <2>1. Cardinality({}) = 0
      BY FS_EmptySet, Zenon
    <2>2. QED
      BY <1>1, <1>2, <1>3, <2>1 DEF UpInv, HeadInv, TypeOK, SpaceInv
  <1>5. /\ CallInv' /\ SpaceInv' /\ pc'[p] = "install"
        /\ \A q \in Proc : pc'[q] \in CommitPC => q = p
        /\ \A b \in Block : Held(b)' = 0
        /\ ~(outstanding' = 0 /\ committing' = 0)
    BY Zenon, <1>2, <1>4, CommitStep
  <1>6. \A i \in DOMAIN lh : ~Installed(i) /\ ~Installed(i)'
    BY <1>1, <1>2, <1>3, <1>5 DEF Installed, CommitPC, TypeOK
  <1>7. TypeOK'
    BY <1>1, <1>2 DEF TypeOK, PC
  <1>8. UpInv'
    <2>1. CleanInv' /\ KeptInv'
      BY <1>1, <1>2, <1>6, Zenon DEF UpInv, CleanInv, KeptInv
    <2>2. HeadInv'
      BY <1>2, <1>4, <1>5 DEF HeadInv, CommitPC
    <2>3. CopyInv'
      BY <1>1, <1>2, <1>5 DEF UpInv, CopyInv, CommitPC, Bread
    <2>4. QED
      BY <2>1, <2>2, <2>3, Zenon DEF UpInv
  <1>9. DiskInv'
    BY <1>1, <1>2, <1>8, Zenon DEF DiskInv, Distinct
  <1>10. PinInv'
    <2>1. \A b \in Block : Held(b)' = Held(b) /\ Pins(b)' = Pins(b)
      BY <1>2, <1>3, <1>5, <1>6, Zenon DEF Pins
    <2>2. QED
      BY <1>1, <1>2, <2>1, Zenon DEF PinInv
  <1>11. QED
    BY <1>5, <1>7, <1>9, <1>10, Zenon DEF IInv

(* One iteration of install_trans() in commit(), bunpin() included. *)
LEMMA InstallInv ==
  ASSUME IInv, mode = "up", UNCHANGED <<mode, crashes>>,
         NEW p \in Proc, Install(p)
  PROVE  IInv'
  <1> USE LogAssumption DEF LogAssumption
  <1>1. /\ TypeOK /\ CallInv /\ SpaceInv /\ UpInv /\ PinInv
        /\ Distinct(lh) /\ Distinct(head)
    BY Zenon DEF IInv, DiskInv
  <1> DEFINE label == IF tail = Len(lh) THEN "erase" ELSE "install"
             b == lh[tail]
  <1>2. /\ pc[p] = "install" /\ pc[p] \in CommitPC
        /\ pc' = [pc EXCEPT ![p] = label] /\ label \in CommitPC
        /\ UNCHANGED <<wb, opw, mode, crashes>>
        /\ InstallBlock
    BY Zenon DEF Install, Goto, calls, CommitPC
  <1>3. /\ label = "install" => tail # Len(lh)
        /\ label = "erase" => tail = Len(lh)
        /\ label \in {"install", "erase"}
    BY Zenon DEF label
  <1> HIDE DEF label
  <1>4. /\ \A q \in Proc : pc[q] \in CommitPC => q = p
        /\ \A c \in Block : Held(c) = 0
        /\ Tickets = {}
    BY <1>2, CommitAlone, Zenon
  <1>5. tail \in 1..Len(lh) /\ Len(lh) <= LOGSIZE /\ head = lh
    <2>1. Cardinality({}) = 0
      BY FS_EmptySet, Zenon
    <2>2. QED
      BY <1>1, <1>2, <1>4, <2>1, Zenon DEF UpInv, HeadInv, TypeOK, SpaceInv
  <1>6. /\ b \in Block
        /\ logblk[tail] \in Data
        /\ home'[b] = logblk[tail]
        /\ cache'[b] = logblk[tail]
        /\ refcnt'[b] = (refcnt[b] + REFMOD - 1) % REFMOD
        /\ \A c \in Block : c # b => /\ home'[c] = home[c]
                                     /\ cache'[c] = cache[c]
                                     /\ refcnt'[c] = refcnt[c]
        /\ \A i \in 1..Len(lh) : lh[i] \in Block /\ (lh[i] = b => i = tail)
        /\ home' \in [Block -> Data]
        /\ cache' \in [Block -> Data \cup {NotCached}]
        /\ refcnt' \in [Block -> 0..REFMOD - 1]
        /\ tail' = tail + 1 /\ tail' \in Nat \ {0}
        /\ UNCHANGED <<logblk, head, lh, outstanding, committing>>
        /\ DOMAIN lh = 1..Len(lh) /\ Len(lh) \in Nat
    BY <1>1, <1>2, <1>5, InstallFacts, Zenon
  <1>7. /\ CallInv' /\ SpaceInv' /\ pc'[p] = label
        /\ \A q \in Proc : pc'[q] \in CommitPC => q = p
        /\ \A c \in Block : Held(c)' = 0
        /\ ~(outstanding' = 0 /\ committing' = 0)
    <2>1. Len(head') <= LOGSIZE /\ lh' \in {lh, << >>}
      BY <1>5, <1>6, Zenon
    <2>2. QED
      BY Zenon, <1>2, <1>6, <2>1, CommitStep
  <1>8. TypeOK'
    <2>1. pc' \in [Proc -> PC]
      BY <1>1, <1>2, Zenon DEF TypeOK, PC, CommitPC
    <2>2. QED
      BY <1>1, <1>2, <1>6, <2>1, Zenon DEF TypeOK
  <1>9. \A i \in 1..Len(lh) : /\ Installed(i) <=> i < tail
                              /\ Installed(i)' <=> i < tail + 1
    <2>1. \A i \in 1..Len(lh) : Installed(i) <=> i < tail
      BY <1>2, <1>4, Zenon DEF Installed, CommitPC
    <2>2. \A i \in 1..Len(lh) : Installed(i)' <=> label = "erase" \/ i < tail'
      BY <1>3, <1>7, Zenon DEF Installed, CommitPC
    <2>3. \A i \in 1..Len(lh) : label = "erase" => i < tail + 1
      BY <1>3, <1>6
    <2>4. QED
      BY <1>6, <2>1, <2>2, <2>3, Zenon
  <1> HIDE DEF b
  <1>10. \A i \in 1..Len(lh) : Bread(lh[i]) = logblk[i] /\ Bread(lh[i])' = logblk[i]
    <2>1. \A i \in 1..Len(lh) : Bread(lh[i]) = logblk[i]
      BY <1>1, <1>2, Zenon DEF UpInv, CopyInv
    <2>2. \A i \in 1..Len(lh) : lh[i] # b => Bread(lh[i])' = Bread(lh[i])
      BY <1>6, Zenon DEF Bread
    <2>3. cache'[b] # NotCached
      BY <1>6, Zenon
    <2>4. \A i \in 1..Len(lh) : lh[i] = b => Bread(lh[i])' = logblk[i]
      <3> SUFFICES ASSUME NEW i \in 1..Len(lh), lh[i] = b
                   PROVE  Bread(lh[i])' = logblk[i]
        BY Zenon
      <3>1. lh'[i] = b /\ i = tail
        BY <1>6, Zenon
      <3>2. Bread(lh[i])' = cache'[b]
        BY <2>3, <3>1, Zenon DEF Bread
      <3>3. QED
        BY <1>6, <3>1, <3>2, Zenon
    <2>5. QED
      BY <2>1, <2>2, <2>4, Zenon
  <1>11. UpInv'
    <2>1. CleanInv'
      BY <1>1, <1>2, <1>6, Zenon DEF UpInv, CleanInv
    <2>2. KeptInv'
      <3>1. \A q \in Proc : wb'[q] = NoBlock
        BY <1>2, CommitAlone, Zenon
      <3>2. \A i \in DOMAIN lh' : ~Installed(i)' => cache'[lh'[i]] # NotCached
        <4> SUFFICES ASSUME NEW i \in 1..Len(lh), ~Installed(i)'
                     PROVE  cache'[lh[i]] # NotCached
          BY <1>6, Zenon
        <4>1. i # tail /\ ~Installed(i)
          BY <1>5, <1>6, <1>9
        <4>2. lh[i] # b /\ lh[i] \in Block
          BY <1>6, <4>1, Zenon
        <4>3. QED
          BY <1>1, <1>6, <4>1, <4>2, Zenon DEF UpInv, KeptInv
      <3>3. QED
        BY <3>1, <3>2, Zenon DEF KeptInv
    <2>3. HeadInv'
      <3>1. head' = lh'
        BY <1>5, <1>6, Zenon
      <3>2. \A q \in Proc : pc'[q] \in CommitPC => q = p /\ pc'[q] = label
        BY <1>7, Zenon
      <3>3. label = "install" => tail' \in 1..Len(lh')
        BY Zenon, <1>3, <1>5, <1>6, NextIndex
      <3>4. QED
        BY <1>3, <1>7, <3>1, <3>2, <3>3, Zenon DEF HeadInv, CommitPC
    <2>4. CopyInv'
      <3>1. \A i \in 1..tail - 1 : home[lh[i]] = logblk[i]
        BY <1>1, <1>2, Zenon DEF UpInv, CopyInv
      <3>2. \A i \in 1..tail : home'[lh'[i]] = logblk'[i]
        <4> SUFFICES ASSUME NEW i \in 1..tail PROVE home'[lh[i]] = logblk[i]
          BY <1>6, Zenon
        <4>1. CASE i = tail
          BY <1>6, <4>1, Zenon DEF b
        <4>2. CASE i # tail
          <5>1. i \in 1..tail - 1 /\ i \in 1..Len(lh)
            BY <1>5, <1>6, <4>2
          <5>2. lh[i] # b /\ lh[i] \in Block
            BY <1>6, <4>2, <5>1, Zenon
          <5>3. QED
            BY <1>6, <3>1, <5>1, <5>2, Zenon
        <4>3. QED
          BY <4>1, <4>2, Zenon
      <3>3. \A q \in Proc : pc'[q] \in CommitPC => q = p /\ pc'[q] = label
        BY <1>7, Zenon
      <3>4. label = "erase" => 1..Len(lh') = 1..tail
        BY <1>3, <1>6, Zenon
      <3>5. tail' - 1 = tail
        BY <1>5, <1>6
      <3>6. \A i \in 1..Len(lh') : logblk'[i] = Bread(lh[i])'
        BY <1>6, <1>10, Zenon
      <3>7. QED
        BY <1>3, <3>2, <3>3, <3>4, <3>5, <3>6, Zenon DEF CopyInv, CommitPC
    <2>5. QED
      BY <2>1, <2>2, <2>3, <2>4, Zenon DEF UpInv
  <1>12. DiskInv'
    BY <1>1, <1>2, <1>6, <1>11, Zenon DEF DiskInv, Distinct
  <1>13. PinInv'
    <2> SUFFICES ASSUME MaxCrash = 0, NEW c \in Block
                 PROVE  mode' = "up" /\ refcnt'[c] = Held(c)' + Pins(c)'
      BY Zenon DEF PinInv
    <2>1. refcnt[c] = Pins(c) /\ Held(c)' = 0
      <3>1. refcnt[c] = Held(c) + Pins(c) /\ Held(c) = 0 /\ Pins(c) \in {0, 1}
        BY <1>1, <1>4, Zenon DEF PinInv, Pins
      <3>2. QED
        BY <1>7, <3>1
    <2>2. CASE c = b
      <3>1. Pins(c) = 1
        BY <1>5, <1>6, <1>9, <2>2 DEF Pins, b
      <3>2. Pins(c)' = 0
        <4>1. \A i \in 1..Len(lh) : lh[i] = c => Installed(i)'
          BY <1>5, <1>6, <1>9, <2>2
        <4>2. QED
          BY <1>6, <4>1, Zenon DEF Pins
      <3>3. QED
        BY <1>2, <1>6, <2>1, <2>2, <3>1, <3>2, ModDown
    <2>3. CASE c # b
      <3>1. \A i \in 1..Len(lh) : lh[i] = c => (Installed(i)' <=> Installed(i))
        <4> SUFFICES ASSUME NEW i \in 1..Len(lh), lh[i] = c
                     PROVE  Installed(i)' <=> Installed(i)
          BY Zenon
        <4>1. i # tail
          BY <2>3, Zenon DEF b
        <4>2. QED
          BY <1>5, <1>6, <1>9, <4>1
      <3>2. Pins(c)' = Pins(c)
        BY <1>6, <3>1, Zenon DEF Pins
      <3>3. QED
        BY <1>2, <1>6, <2>1, <2>3, <3>2
    <2>4. QED
      BY <2>2, <2>3, Zenon
  <1>14. QED
    BY <1>7, <1>8, <1>12, <1>13, Zenon DEF IInv

(* write_head() with n = 0, after every home location was written. *)
LEMMA EraseInv ==
  ASSUME IInv, mode = "up", UNCHANGED <<mode, crashes>>,
         NEW p \in Proc, Erase(p)
  PROVE  IInv'
  <1> USE LogAssumption DEF LogAssumption
  <1>1. /\ TypeOK /\ CallInv /\ SpaceInv /\ UpInv /\ PinInv
        /\ Distinct(lh) /\ Distinct(head)
    BY Zenon DEF IInv, DiskInv
  <1>2. /\ pc[p] = "erase" /\ pc[p] \in CommitPC
        /\ pc' = [pc EXCEPT ![p] = "done"] /\ "done" \in CommitPC
        /\ lh' = << >> /\ head' = << >>
        /\ UNCHANGED <<home, logblk, outstanding, committing, tail, cache, refcnt,
                       wb, opw, mode, crashes>>
    BY Zenon DEF Erase, EraseLog, Goto, bufs, calls, CommitPC
  <1>3. /\ \A q \in Proc : pc[q] \in CommitPC => q = p
        /\ \A c \in Block : Held(c) = 0
        /\ \A q \in Proc : wb[q] = NoBlock
    BY <1>2, CommitAlone, Zenon
  <1>4. Len(<< >>) = 0 /\ << >> \in Seq(Block) /\ Logged(<< >>) = {} /\ DOMAIN << >> = {}
    BY DEF Logged
  <1>5. /\ CallInv' /\ SpaceInv' /\ pc'[p] = "done"
        /\ \A q \in Proc : pc'[q] \in CommitPC => q = p
        /\ \A c \in Block : Held(c)' = 0
        /\ ~(outstanding' = 0 /\ committing' = 0)
    <2>1. Len(head') <= LOGSIZE /\ lh' \in {lh, << >>}
      BY <1>2, <1>4
    <2>2. QED
      BY Zenon, <1>2, <2>1, CommitStep
  <1>6. TypeOK'
    <2>1. pc' \in [Proc -> PC]
      BY <1>1, <1>2, Zenon DEF TypeOK, PC
    <2>2. lh' \in Seq(Block) /\ head' \in Seq(Block)
      BY <1>2, <1>4, Zenon
    <2>3. UNCHANGED <<home, logblk, outstanding, committing, tail, cache, refcnt,
                      wb, opw, mode, crashes>>
      BY <1>2, Zenon
    <2>4. QED
      BY <1>1, <2>1, <2>2, <2>3, Zenon DEF TypeOK
  <1>7. UpInv'
    <2>1. CleanInv'
      <3>1. \A i \in DOMAIN lh : home[lh[i]] = Bread(lh[i])
        <4>1. DOMAIN lh = 1..Len(lh)
          BY <1>1 DEF TypeOK
        <4>2. \A i \in 1..Len(lh) : logblk[i] = Bread(lh[i]) /\ home[lh[i]] = logblk[i]
          BY <1>1, <1>2, Zenon DEF UpInv, CopyInv
        <4>3. QED
          BY <4>1, <4>2, Zenon
      <3>2. \A c \in Logged(lh) : cache[c] = NotCached \/ cache[c] = home[c]
        BY <3>1, Zenon DEF Logged, Bread
      <3>3. QED
        BY <1>1, <1>2, <3>2, Zenon DEF UpInv, CleanInv
    <2>2. KeptInv'
      BY <1>2, <1>3, <1>4, Zenon DEF KeptInv
    <2>3. HeadInv' /\ CopyInv'
      BY <1>2, <1>5, Zenon DEF HeadInv, CopyInv, CommitPC
    <2>4. QED
      BY <2>1, <2>2, <2>3, Zenon DEF UpInv
  <1>8. DiskInv'
    BY <1>2, <1>4, <1>7, Zenon DEF DiskInv, Distinct
  <1>9. PinInv'
    <2>1. \A c \in Block : Pins(c) = 0 /\ Pins(c)' = 0
      BY <1>2, <1>4, Zenon DEF Pins, Installed
    <2>2. QED
      BY <1>1, <1>2, <1>3, <1>5, <2>1, Zenon DEF PinInv
  <1>10. QED
    BY <1>5, <1>6, <1>8, <1>9, Zenon DEF IInv

(* end_op() clears committing and wakes the sleepers. *)
LEMMA CommitDoneInv ==
  ASSUME IInv, mode = "up", UNCHANGED <<mode, crashes>>,
         NEW p \in Proc, CommitDone(p)
  PROVE  IInv'
  <1> USE LogAssumption DEF LogAssumption
  <1>1. /\ TypeOK /\ CallInv /\ SpaceInv /\ UpInv /\ PinInv
        /\ Distinct(lh) /\ Distinct(head)
    BY Zenon DEF IInv, DiskInv
  <1>2. /\ pc[p] = "done" /\ pc[p] \in CommitPC
        /\ pc' = [WakeupLog EXCEPT ![p] = "idle"]
        /\ committing' = 0
        /\ UNCHANGED <<home, logblk, head, lh, outstanding, tail, cache, refcnt,
                       wb, opw, mode, crashes>>
    BY Zenon DEF CommitDone, disk, bufs, calls, CommitPC
  <1>3. /\ \A q \in Proc : pc[q] \in CommitPC => q = p
        /\ \A q \in Proc : wb[q] = NoBlock
        /\ InCall = {} /\ Tickets = {}
    BY <1>2, CommitAlone, Zenon
  <1>4. /\ pc' \in [Proc -> PC] /\ pc'[p] = "idle"
        /\ \A q \in Proc \ {p} : pc'[q] = pc[q] \/ (pc[q] = "asleep" /\ pc'[q] = "awake")
    <2>1. WakeupLog \in [Proc -> PC]
      BY <1>1, Zenon DEF WakeupLog, TypeOK, PC
    <2>2. QED
      BY <1>2, <2>1, Zenon DEF WakeupLog, PC
  <1>5. InCall' = {} /\ \A q \in Proc : pc'[q] \notin CommitPC
    BY <1>3, <1>4, Zenon DEF InCall, CommitPC
  <1>6. TypeOK'
    BY <1>1, <1>2, <1>4, Zenon DEF TypeOK
  <1>7. CallInv'
    BY <1>1, <1>2, <1>3, <1>5, Zenon DEF CallInv, InCall
  <1>8. SpaceInv'
    <2>1. Tickets' = Tickets
      BY <1>3, <1>5, Zenon DEF Tickets
    <2>2. QED
      BY <1>1, <1>2, <1>3, <1>5, <2>1, Zenon DEF SpaceInv, InCall
  <1>9. lh = << >> /\ DOMAIN lh = {} /\ head = << >>
    <2>1. lh = << >> /\ head = << >>
      BY <1>1, <1>2, <1>3, Zenon DEF UpInv, HeadInv, CommitPC
    <2>2. QED
      BY <2>1
  <1>10. UpInv'
    <2>1. CleanInv' /\ KeptInv'
      BY <1>1, <1>2, <1>3, <1>9, Zenon DEF UpInv, CleanInv, KeptInv
    <2>2. HeadInv' /\ CopyInv'
      BY <1>2, <1>5, <1>9, Zenon DEF HeadInv, CopyInv, CommitPC
    <2>3. QED
      BY <2>1, <2>2, Zenon DEF UpInv
  <1>11. DiskInv'
    BY <1>1, <1>2, <1>10, Zenon DEF DiskInv, Distinct
  <1>12. PinInv'
    <2>1. \A c \in Block : Held(c)' = Held(c) /\ Pins(c) = 0 /\ Pins(c)' = 0
      BY <1>2, <1>9, Zenon DEF Held, Pins
    <2>2. QED
      BY <1>1, <1>2, <2>1, Zenon DEF PinInv
  <1>13. QED
    BY <1>6, <1>7, <1>8, <1>11, <1>12, Zenon DEF IInv
-----------------------------------------------------------------------------
(* Recycling, crashes and recovery *)

(* bget() recycles a buffer with refcnt 0. *)
LEMMA EvictInv ==
  ASSUME IInv, RecoverySafe, mode = "up", UNCHANGED <<mode, crashes>>,
         NEW b \in Block, Evict(b)
  PROVE  IInv'
  <1> USE LogAssumption DEF LogAssumption
  <1>1. /\ TypeOK /\ CallInv /\ SpaceInv /\ UpInv /\ PinInv
        /\ Distinct(lh) /\ Distinct(head)
    BY Zenon DEF IInv, DiskInv
  <1>2. /\ b \in Recycle /\ refcnt[b] = 0
        /\ cache' = [cache EXCEPT ![b] = NotCached]
        /\ UNCHANGED <<home, logblk, head, lh, outstanding, committing, tail,
                       refcnt, pc, wb, opw, mode, crashes>>
    BY Zenon DEF Evict, disk, logvars, calls
  <1>3. Held(b) = 0 /\ Pins(b) = 0
    <2>1. refcnt[b] = Held(b) + Pins(b)
      BY <1>1, <1>2, Zenon DEF RecoverySafe, PinInv
    <2>2. Held(b) \in {0, 1} /\ Pins(b) \in {0, 1}
      BY Zenon DEF Held, Pins
    <2>3. QED
      BY <1>2, <2>1, <2>2
  <1>4. /\ \A q \in Proc : wb[q] # b
        /\ \A i \in DOMAIN lh : lh[i] = b => Installed(i)
    BY <1>3 DEF Held, Pins
  <1>5. /\ cache'[b] = NotCached
        /\ \A c \in Block : c # b => cache'[c] = cache[c]
    BY <1>1, <1>2, Zenon DEF TypeOK
  <1>6. InCall' = InCall /\ Tickets' = Tickets /\ \A i : Installed(i)' <=> Installed(i)
    BY <1>2, Zenon DEF InCall, Tickets, Installed
  <1>7. TypeOK'
    BY <1>1, <1>2, Zenon DEF TypeOK
  <1>8. CallInv' /\ SpaceInv'
    BY <1>1, <1>2, <1>6, Zenon DEF CallInv, SpaceInv
  <1>9. UpInv'
    <2>1. CleanInv'
      BY <1>1, <1>2, <1>5, Zenon DEF UpInv, CleanInv
    <2>2. KeptInv'
      <3>1. \A q \in Proc : wb[q] # NoBlock => wb[q] \in Block
        BY <1>1, Zenon DEF TypeOK
      <3>2. \A i \in DOMAIN lh : lh[i] \in Block
        BY <1>1 DEF TypeOK
      <3>3. QED
        BY <1>1, <1>2, <1>4, <1>5, <1>6, <3>1, <3>2, Zenon DEF UpInv, KeptInv
    <2>3. HeadInv'
      BY <1>1, <1>2, Zenon DEF UpInv, HeadInv
    <2>4. CopyInv'
      <3>1. \A i \in DOMAIN lh : lh[i] \in Block /\ DOMAIN lh = 1..Len(lh)
        BY <1>1 DEF TypeOK
      <3>2. \A i \in DOMAIN lh : lh[i] # b => Bread(lh[i])' = Bread(lh[i])
        BY <1>2, <1>5, <3>1, Zenon DEF Bread
      <3>3. \A i \in DOMAIN lh : Installed(i) => home[lh[i]] = logblk[i]
        <4> SUFFICES ASSUME NEW i \in DOMAIN lh, NEW q \in Proc,
                            pc[q] = "erase" \/ (pc[q] = "install" /\ i < tail)
                     PROVE  home[lh[i]] = logblk[i]
          BY Zenon DEF Installed
        <4>1. i \in 1..Len(lh)
          BY <3>1, Zenon
        <4>2. CASE pc[q] = "erase"
          BY <1>1, <4>1, <4>2, Zenon DEF UpInv, CopyInv
        <4>3. CASE pc[q] = "install" /\ i < tail
          <5>1. i \in 1..tail - 1
            BY <1>1, <4>1, <4>3 DEF TypeOK
          <5>2. QED
            BY <1>1, <4>3, <5>1, Zenon DEF UpInv, CopyInv
        <4>4. QED
          BY <4>2, <4>3, Zenon
      <3>4. \A i \in DOMAIN lh : lh[i] = b => Bread(lh[i])' = logblk[i]
        BY <1>2, <1>4, <1>5, <3>3, Zenon DEF Bread
      <3>5. \A i \in DOMAIN lh : logblk[i] = Bread(lh[i]) => logblk'[i] = Bread(lh[i])'
        BY <1>2, <3>2, <3>4, Zenon
      <3>6. \A q \in Proc : pc[q] = "write_log" => \A i \in 1..tail - 1 : i \in 1..Len(lh)
        BY <1>1 DEF UpInv, HeadInv, TypeOK
      <3>7. QED
        BY <1>1, <1>2, <3>1, <3>5, <3>6 DEF UpInv, CopyInv
    <2>5. QED
      BY <2>1, <2>2, <2>3, <2>4, Zenon DEF UpInv
  <1>10. DiskInv'
    BY <1>1, <1>2, <1>9, Zenon DEF DiskInv, Distinct
  <1>11. PinInv'
    <2>1. \A c \in Block : Held(c)' = Held(c) /\ Pins(c)' = Pins(c)
      BY <1>2, <1>6, Zenon DEF Held, Pins
    <2>2. QED
      BY <1>1, <1>2, <2>1, Zenon DEF PinInv
  <1>12. QED
    BY <1>7, <1>8, <1>10, <1>11, Zenon DEF IInv

-----------------------------------------------------------------------------
(* Crash and recovery. *)

(* A crash loses the cache and the in-memory log, nothing on disk. *)
LEMMA CrashInv == ASSUME IInv, Crash PROVE IInv'
  <1> USE LogAssumption DEF LogAssumption
  <1>1. TypeOK /\ SpaceInv /\ Distinct(head)
    BY Zenon DEF IInv, DiskInv
  <1>2. /\ crashes < MaxCrash /\ crashes' = crashes + 1
        /\ mode' = "read_head" /\ lh' = << >>
        /\ outstanding' = 0 /\ committing' = 0 /\ tail' = 1
        /\ cache' = [b \in Block |-> NotCached]
        /\ refcnt' = [b \in Block |-> 0]
        /\ pc' = [p \in Proc |-> "idle"]
        /\ wb' = [p \in Proc |-> NoBlock]
        /\ opw' = [p \in Proc |-> << >>]
        /\ UNCHANGED <<home, logblk, head>>
    BY Zenon DEF Crash, disk
  <1>3. /\ << >> \in Seq(Block) /\ Len(<< >>) = 0 /\ DOMAIN << >> = {}
        /\ Logged(<< >>) = {}
    BY DEF Logged
  <1>4. InCall' = {} /\ Tickets' = {}
    <2>1. InCall' = {}
      BY <1>2, Zenon DEF InCall
    <2>2. QED
      BY <2>1, Zenon DEF Tickets
  <1>5. Cardinality({}) = 0
    BY FS_EmptySet, Zenon
  <1>6. TypeOK'
    <2>1. mode' \in Mode /\ tail' \in Nat \ {0} /\ crashes' \in 0..MaxCrash
      BY <1>1, <1>2 DEF TypeOK, Mode
    <2>2. pc' \in [Proc -> PC] /\ wb' \in [Proc -> Block \cup {NoBlock}]
      BY <1>2, Zenon DEF PC
    <2>3. opw' \in [Proc -> Seq(Block)] /\ lh' \in Seq(Block)
      BY <1>2, <1>3, Zenon
    <2>4. cache' \in [Block -> Data \cup {NotCached}] /\ refcnt' \in [Block -> 0..REFMOD - 1]
      BY <1>2
    <2>5. QED
      BY <1>1, <1>2, <2>1, <2>2, <2>3, <2>4, Zenon DEF TypeOK
  <1>7. CallInv'
    BY <1>2, <1>4, <1>5, Zenon DEF CallInv, CommitPC
  <1>8. SpaceInv'
    BY <1>1, <1>2, <1>3, <1>4, <1>5 DEF SpaceInv
  <1>9. DiskInv'
    BY <1>1, <1>2, <1>3, Zenon DEF DiskInv, RecoveryInv, Distinct
  <1>10. PinInv'
    BY <1>1, <1>2 DEF PinInv, TypeOK
  <1>11. QED
    BY <1>6, <1>7, <1>8, <1>9, <1>10, Zenon DEF IInv

(* What a step of recover_from_log() leaves alone. *)
LEMMA RecoveryStep ==
  ASSUME IInv, mode # "up", Len(lh') <= LOGSIZE, Len(lh') \in Nat, Len(head') <= LOGSIZE,
         UNCHANGED <<outstanding, committing, pc, wb, opw>>
  PROVE  /\ CallInv' /\ SpaceInv' /\ PinInv' /\ RecoveryInv
         /\ \A i : ~Installed(i) /\ ~Installed(i)'
  <1> USE LogAssumption DEF LogAssumption
  <1>1. TypeOK /\ CallInv /\ SpaceInv /\ RecoveryInv /\ PinInv
    BY Zenon DEF IInv, DiskInv
  <1>2. InCall = {} /\ InCall' = {}
    BY <1>1, Zenon DEF RecoveryInv, InCall
  <1>3. Tickets' = {}
    BY <1>2, Zenon DEF Tickets
  <1>4. CallInv'
    BY <1>1, <1>2, Zenon DEF CallInv, InCall
  <1>5. SpaceInv'
    <2>1. Logged(<< >>) = {} /\ Len(<< >>) = 0 /\ Cardinality({}) = 0
      BY FS_EmptySet DEF Logged
    <2>2. \A p \in Proc : opw'[p] = << >> /\ pc'[p] # "log_write"
      BY <1>1, <1>2, Zenon DEF SpaceInv, RecoveryInv
    <2>3. Len(lh') + Cardinality(Tickets') <= LOGSIZE
      BY <1>3, <2>1
    <2>4. QED
      BY <2>1, <2>2, <2>3 DEF SpaceInv
  <1>6. PinInv'
    BY <1>1, Zenon DEF PinInv
  <1>7. \A i : ~Installed(i) /\ ~Installed(i)'
    BY <1>1, Zenon DEF Installed, RecoveryInv
  <1>8. QED
    BY <1>1, <1>4, <1>5, <1>6, <1>7, Zenon

(* read_head() at boot. *)
LEMMA RecoverReadHeadInv == ASSUME IInv, RecoverReadHead PROVE IInv'
  <1> USE LogAssumption DEF LogAssumption
  <1>1. TypeOK /\ SpaceInv /\ Distinct(head)
    BY Zenon DEF IInv, DiskInv
  <1>2. /\ mode = "read_head" /\ lh' = head /\ tail' = 1
        /\ mode' = (IF head = << >> THEN "erase" ELSE "install")
        /\ UNCHANGED <<home, logblk, head, outstanding, committing, cache, refcnt,
                       pc, wb, opw, crashes>>
    BY Zenon DEF RecoverReadHead, disk, bufs, calls
  <1>3. Len(head) <= LOGSIZE /\ Len(head) \in Nat /\ head \in Seq(Block)
    BY <1>1 DEF SpaceInv, TypeOK
  <1>4. CallInv' /\ SpaceInv' /\ PinInv' /\ RecoveryInv
    BY <1>2, <1>3, RecoveryStep, Zenon
  <1>5. TypeOK'
    BY <1>1, <1>2 DEF TypeOK, Mode
  <1>6. RecoveryInv'
    <2>1. head # << >> => 1 \in 1..Len(head)
      BY <1>3
    <2>2. Len(<< >>) = 0
      BY Zenon
    <2>3. mode' = "install" => head # << >> /\ tail' \in 1..Len(lh')
      BY <1>2, <2>1, Zenon
    <2>4. mode' = "erase" => Len(lh') = 0
      BY <1>2, <2>2, Zenon
    <2>5. mode' # "read_head"
      BY <1>2, Zenon
    <2>6. QED
      BY <1>2, <1>4, <2>3, <2>4, <2>5 DEF RecoveryInv
  <1>7. DiskInv'
    <2>1. mode' # "up"
      BY <1>2, Zenon
    <2>2. QED
      BY <1>1, <1>2, <1>6, <2>1, Zenon DEF DiskInv, Distinct
  <1>8. QED
    BY <1>4, <1>5, <1>7, Zenon DEF IInv

(* One iteration of install_trans() at boot. *)
LEMMA RecoverInstallInv == ASSUME IInv, RecoverInstall PROVE IInv'
  <1> USE LogAssumption DEF LogAssumption
  <1>1. TypeOK /\ SpaceInv /\ RecoveryInv /\ Distinct(lh) /\ Distinct(head)
    BY Zenon DEF IInv, DiskInv, RecoverInstall
  <1>2. /\ mode = "install" /\ InstallBlock
        /\ mode' = (IF tail = Len(lh) THEN "erase" ELSE "install")
        /\ UNCHANGED <<pc, wb, opw, crashes>>
    BY Zenon DEF RecoverInstall, calls
  <1>3. /\ tail \in 1..Len(lh) /\ lh = head /\ Len(lh) <= LOGSIZE /\ Len(lh) \in Nat
        /\ \A i \in 1..tail - 1 : home[lh[i]] = logblk[i]
    BY <1>1, <1>2 DEF RecoveryInv, SpaceInv, TypeOK
  <1> DEFINE b == lh[tail]
  <1>4. /\ b \in Block
        /\ logblk[tail] \in Data
        /\ home'[b] = logblk[tail]
        /\ cache'[b] = logblk[tail]
        /\ \A c \in Block : c # b => home'[c] = home[c] /\ cache'[c] = cache[c]
        /\ \A i \in 1..Len(lh) : lh[i] \in Block /\ (lh[i] = b => i = tail)
        /\ home' \in [Block -> Data]
        /\ cache' \in [Block -> Data \cup {NotCached}]
        /\ refcnt' \in [Block -> 0..REFMOD - 1]
        /\ tail' = tail + 1 /\ tail' \in Nat \ {0}
        /\ UNCHANGED <<logblk, head, lh, outstanding, committing>>
    BY Zenon, <1>1, <1>2, <1>3, InstallFacts
  <1> HIDE DEF b
  <1>5. CallInv' /\ SpaceInv' /\ PinInv'
    BY <1>2, <1>3, <1>4, RecoveryStep, Zenon
  <1>6. TypeOK'
    BY <1>1, <1>2, <1>4, Zenon DEF TypeOK, Mode
  <1>7. \A i \in 1..tail : home'[lh[i]] = logblk[i]
    <2> SUFFICES ASSUME NEW i \in 1..tail PROVE home'[lh[i]] = logblk[i]
      BY Zenon
    <2>1. CASE i = tail
      BY <1>4, <2>1, Zenon DEF b
    <2>2. CASE i # tail
      <3>1. i \in 1..tail - 1 /\ i \in 1..Len(lh)
        BY <1>3, <2>2
      <3>2. QED
        BY <1>3, <1>4, <2>2, <3>1, Zenon
    <2>3. QED
      BY <2>1, <2>2, Zenon
  <1>8. RecoveryInv'
    <2>1. mode' = "install" => tail' \in 1..Len(lh')
      BY <1>2, <1>3, <1>4, NextIndex, Zenon
    <2>2. tail' - 1 = tail
      BY <1>3, <1>4
    <2>3. mode' = "erase" => tail = Len(lh')
      BY <1>2, <1>4, Zenon
    <2>4. \A c \in Block : cache'[c] = NotCached \/ cache'[c] = home'[c]
      BY <1>1, <1>4, Zenon DEF RecoveryInv
    <2>5. mode' # "read_head"
      BY <1>2, Zenon
    <2>6. QED
      BY <1>1, <1>2, <1>3, <1>4, <1>7, <2>1, <2>2, <2>3, <2>4, <2>5 DEF RecoveryInv
  <1>9. DiskInv'
    <2>1. mode' # "up"
      BY <1>2, Zenon
    <2>2. QED
      BY <1>1, <1>4, <1>8, <2>1, Zenon DEF DiskInv, Distinct
  <1>10. QED
    BY <1>5, <1>6, <1>9, Zenon DEF IInv

(* The head is cleared at the end of recovery. *)
LEMMA RecoverEraseInv == ASSUME IInv, RecoverErase PROVE IInv'
  <1> USE LogAssumption DEF LogAssumption
  <1>1. TypeOK /\ SpaceInv /\ RecoveryInv
    BY Zenon DEF IInv, DiskInv, RecoverErase
  <1>2. /\ mode = "erase" /\ mode' = "up" /\ lh' = << >> /\ head' = << >>
        /\ UNCHANGED <<home, logblk, outstanding, committing, tail, cache, refcnt,
                       pc, wb, opw, crashes>>
    BY Zenon DEF RecoverErase, EraseLog, bufs, calls
  <1>3. /\ << >> \in Seq(Block) /\ Len(<< >>) = 0 /\ DOMAIN << >> = {}
    OBVIOUS
  <1>4. CallInv' /\ SpaceInv' /\ PinInv'
    BY <1>2, <1>3, RecoveryStep
  <1>5. TypeOK'
    BY <1>1, <1>2, <1>3, Zenon DEF TypeOK, Mode
  <1>6. UpInv'
    <2>1. CleanInv' /\ KeptInv'
      BY <1>1, <1>2, <1>3, Zenon DEF RecoveryInv, CleanInv, KeptInv
    <2>2. HeadInv' /\ CopyInv'
      BY <1>1, <1>2, Zenon DEF RecoveryInv, HeadInv, CopyInv
    <2>3. QED
      BY <2>1, <2>2, Zenon DEF UpInv
  <1>7. DiskInv'
    BY <1>2, <1>3, <1>6, Zenon DEF DiskInv, Distinct
  <1>8. QED
    BY <1>4, <1>5, <1>7, Zenon DEF IInv

-----------------------------------------------------------------------------
(* Every step preserves the inductive invariant. *)
LEMMA NextInv == ASSUME IInv, RecoverySafe, [Next]_vars PROVE IInv'
  <1>1. CASE UNCHANGED vars
    <2>1. /\ UNCHANGED <<home, logblk, head, lh, outstanding, committing, tail,
                         cache, refcnt, wb, opw, mode, crashes>>
          /\ UNCHANGED pc
      BY <1>1, Zenon DEF vars, disk, logvars, bufs, calls
    <2>2. pc' \in [Proc -> PC]
      BY <2>1, Zenon DEF IInv, TypeOK
    <2>3. QED
      BY <2>1, <2>2, QuietInv, Zenon
  <1>2. ASSUME mode = "up", UNCHANGED <<mode, crashes>>, NEW p \in Proc, Call(p)
        PROVE  IInv'
    BY <1>2, BeginSleepInv, BeginOpInv, FsWriteInv, LogWriteInv, EndOpInv, Zenon DEF Call
  <1>3. ASSUME mode = "up", UNCHANGED <<mode, crashes>>, NEW p \in Proc, Commit(p)
        PROVE  IInv'
    BY <1>3, WriteLogInv, WriteHeadInv, InstallInv, EraseInv, CommitDoneInv, Zenon DEF Commit
  <1>4. CASE Running
    BY <1>2, <1>3, <1>4, EvictInv, Zenon DEF Running
  <1>5. CASE Recovery
    BY <1>5, RecoverReadHeadInv, RecoverInstallInv, RecoverEraseInv, Zenon DEF Recovery
  <1>6. CASE Crash
    BY <1>6, CrashInv, Zenon
  <1>7. QED
    BY <1>1, <1>4, <1>5, <1>6, Zenon DEF Next

(* Every reachable state satisfies the inductive invariant, for any number *)
(* of processes and blocks, any log size and any number of crashes.        *)
THEOREM Invariance == ASSUME RecoverySafe PROVE Spec => []IInv
  <1>1. Init => IInv
    BY InitInv, Zenon
  <1>2. IInv /\ [Next]_vars => IInv'
    BY NextInv, Zenon
  <1>3. QED
    BY <1>1, <1>2, PTL DEF Spec

(* The variables of log.c keep their types. *)
THEOREM TypeCorrect == ASSUME RecoverySafe PROVE Spec => []TypeOK
  <1>1. IInv => TypeOK
    BY Zenon DEF IInv
  <1>2. QED
    BY <1>1, Invariance, PTL
-----------------------------------------------------------------------------
(* The log in memory, and the header it is read from at boot, fit the log  *)
(* area on disk.                                                           *)
FitsInv == Len(lh) <= nlog - 1 /\ Len(head) <= nlog - 1

(* While a call is in progress there is room for one more block. *)
Room == InCall # {} => Len(lh) + 1 <= LOGSIZE

(* A call between begin_op() and end_op() holds a ticket that it will not  *)
(* use, if it logs fewer blocks than begin_op() reserves.                  *)
LEMMA CallLeavesRoom ==
  ASSUME OpBlocks < MAXOPBLOCKS
  PROVE  IInv => Room
  <1> SUFFICES ASSUME IInv, NEW p \in InCall PROVE Len(lh) + 1 <= LOGSIZE
    BY Zenon DEF Room
  <1> USE LogAssumption DEF LogAssumption
  <1>1. /\ p \in Proc /\ Len(opw[p]) \in Nat /\ Len(opw[p]) <= OpBlocks
        /\ Len(lh) \in Nat /\ Len(lh) + Cardinality(Tickets) <= LOGSIZE
    BY DEF IInv, TypeOK, SpaceInv, InCall
  <1>2. <<p, MAXOPBLOCKS>> \in Tickets
    BY <1>1 DEF Tickets
  <1>3. IsFiniteSet(Tickets) /\ Cardinality(Tickets) \in Nat
    <2>1. Tickets \in SUBSET (InCall \X (1..MAXOPBLOCKS)) /\ InCall \in SUBSET Proc
      BY Zenon DEF Tickets, InCall
    <2>2. QED
      BY Zenon, <2>1, TicketCount
  <1>4. Cardinality(Tickets) # 0
    BY <1>2, <1>3, FS_EmptySet, Zenon
  <1>5. QED
    BY <1>1, <1>3, <1>4

(* log_write() appends under log.lock but tested the space before it had   *)
(* the lock: the ticket its call still holds afterwards keeps one block    *)
(* of the area free.  All other steps copy a list that fits, or clear it.  *)
LEMMA FitsStep ==
  ASSUME IInv, TypeOK', Room', FitsInv, LOGSIZE <= nlog, [Next]_vars
  PROVE  FitsInv'
  <1> USE LogAssumption DEF LogAssumption
  <1>0. Len(<< >>) = 0
    BY Zenon
  <1>1. ASSUME NEW p \in Proc, LogWrite(p) PROVE FitsInv'
    <2>1. pc'[p] = "op" /\ head' = head
      BY <1>1, Zenon DEF LogWrite, Goto, disk, IInv, TypeOK
    <2>2. p \in InCall'
      BY <2>1, Zenon DEF InCall
    <2>3. Len(lh') + 1 <= LOGSIZE /\ Len(lh') \in Nat
      BY <2>2 DEF Room, TypeOK
    <2>4. QED
      BY <2>1, <2>3 DEF FitsInv
  <1>2. ASSUME NEW p \in Proc, Call(p) PROVE FitsInv'
    <2>1. CASE LogWrite(p)
      BY <1>1, <2>1, Zenon
    <2>2. CASE ~LogWrite(p)
      <3>1. UNCHANGED <<lh, head>>
        BY <1>2, <2>2, Zenon DEF Call, BeginSleep, BeginOp, FsWrite, EndOp, disk, logvars
      <3>2. QED
        BY <3>1, Zenon DEF FitsInv
    <2>3. QED
      BY <2>1, <2>2, Zenon
  <1>3. ASSUME NEW p \in Proc, Commit(p) PROVE FitsInv'
    <2>1. lh' \in {lh, << >>} /\ head' \in {head, lh, << >>}
      BY <1>3, Zenon DEF Commit, WriteLog, WriteHead, Install, InstallBlock, Erase, EraseLog,
                  CommitDone, disk, logvars
    <2>2. QED
      BY <1>0, <2>1 DEF FitsInv
  <1>4. CASE Recovery
    <2>1. lh' \in {lh, head, << >>} /\ head' \in {head, << >>}
      BY <1>4, Zenon DEF Recovery, RecoverReadHead, RecoverInstall, InstallBlock, RecoverErase,
                  EraseLog, disk, logvars
    <2>2. QED
      BY <1>0, <2>1 DEF FitsInv
  <1>5. CASE Crash
    BY <1>0, <1>5 DEF Crash, disk, FitsInv
  <1>6. ASSUME NEW b \in Block, Evict(b) PROVE FitsInv'
    BY <1>6, Zenon DEF Evict, disk, logvars, FitsInv
  <1>7. CASE UNCHANGED vars
    BY <1>7, Zenon DEF vars, disk, logvars, FitsInv
  <1>8. QED
    BY <1>2, <1>3, <1>4, <1>5, <1>6, <1>7, Zenon DEF Next, Running

(* What log_write() appends fits the log area that mkfs laid out, in any   *)
(* interleaving of calls and after any crashes, when no call logs all the  *)
(* MAXOPBLOCKS blocks that begin_op() reserves for it.                     *)
THEOREM LogFitsItsArea ==
  ASSUME RecoverySafe, OpBlocks < MAXOPBLOCKS, LOGSIZE <= nlog
  PROVE  Spec => []LogFits
  <1>1. Init => FitsInv
    BY LogAssumption DEF LogAssumption, Init, FitsInv
  <1>2. IInv /\ TypeOK' /\ Room' /\ FitsInv /\ [Next]_vars => FitsInv'
    BY FitsStep, Zenon
  <1>r. IInv => Room /\ TypeOK
    BY CallLeavesRoom, Zenon DEF IInv
  <1>3. FitsInv => LogFits
    BY Zenon DEF FitsInv, LogFits
  <1>4. QED
    BY <1>1, <1>2, <1>r, <1>3, Invariance, PTL DEF Spec
-----------------------------------------------------------------------------
(* The log implements AtomicDisk.                                          *)

(* The view AtomicDisk is given. *)
View == IF mode = "up" THEN [b \in Block |-> Bread(b)] ELSE Recovered

(* Recovered block by block: a block the header names has the contents of  *)
(* its log block, any other block those of its home location.              *)
ByBlock ==
  /\ DOMAIN Recovered = Block
  /\ \A i \in DOMAIN head : head[i] \in Block /\ Recovered[head[i]] = logblk[i]
  /\ \A b \in Block : b \notin Logged(head) => Recovered[b] = home[b]

(* What recovery would find, read off the header: its slots name           *)
(* different blocks, so the CHOOSE in Recovered has one candidate.         *)
LEMMA RecoveredByBlock == IInv => ByBlock
  <1> SUFFICES ASSUME IInv PROVE ByBlock
    BY Zenon
  <1>1. TypeOK /\ Distinct(head)
    BY Zenon DEF IInv, DiskInv
  <1>2. ASSUME NEW i \in DOMAIN head
        PROVE  head[i] \in Block /\ Recovered[head[i]] = logblk[i]
    <2>1. head[i] \in Block /\ head[i] \in Logged(head)
      BY <1>1 DEF TypeOK, Logged
    <2> DEFINE j == CHOOSE k \in DOMAIN head : head[k] = head[i]
    <2>2. j \in DOMAIN head /\ head[j] = head[i]
      BY Zenon
    <2>3. j = i
      BY <1>1, <2>2, Zenon DEF Distinct
    <2>4. Recovered[head[i]] = logblk[j]
      BY <2>1, Zenon DEF Recovered
    <2>5. QED
      BY Zenon, <2>1, <2>3, <2>4
  <1>3. QED
    BY <1>2, Zenon DEF ByBlock, Recovered

(* A step that leaves the disk alone leaves alone what recovery finds.     *)
LEMMA SameDisk ==
  ASSUME UNCHANGED <<home, logblk, head>>
  PROVE  Recovered' = Recovered
  BY DEF Recovered, Logged

(* A step after which bread() returns the same everywhere keeps the view.  *)
LEMMA SameView ==
  ASSUME mode = "up", mode' = "up", \A b \in Block : Bread(b)' = Bread(b)
  PROVE  View' = View
  BY Zenon DEF View

(* The first actions: calls, and the eviction of a clean buffer. *)
LEMMA CallRefines ==
  ASSUME IInv, mode = "up", UNCHANGED <<mode, crashes>>, NEW p \in Proc, Call(p)
  PROVE  [Abstract!Next]_(Abstract!vars)
  <1> USE LogAssumption DEF LogAssumption
  <1>1. TypeOK /\ CallInv
    BY Zenon DEF IInv
  <1>2. CASE BeginSleep(p)
    <2>1. Recovered' = Recovered
      BY <1>2, SameDisk, Zenon DEF BeginSleep, disk
    <2>2. View' = View
      BY <1>2, SameView, Zenon DEF BeginSleep, bufs, disk, Bread
    <2>3. InCall' = InCall
      BY <1>1, <1>2, Zenon DEF BeginSleep, Goto, InCall, TypeOK
    <2>4. QED
      BY <2>1, <2>2, <2>3, Zenon DEF Abstract!vars, View
  <1>3. CASE BeginOp(p)
    <2>1. Recovered' = Recovered
      BY <1>3, SameDisk, Zenon DEF BeginOp, disk
    <2>2. View' = View
      BY <1>3, SameView, Zenon DEF BeginOp, bufs, disk, Bread
    <2>3. InCall' = InCall \cup {p} /\ p \notin InCall
      BY <1>1, <1>3 DEF BeginOp, Goto, InCall, TypeOK
    <2>4. Abstract!Begin(p)
      BY <2>1, <2>2, <2>3, Zenon DEF Abstract!Begin, View
    <2>5. QED
      BY <2>4, Zenon DEF Abstract!Next
  <1>4. ASSUME NEW b \in Block, NEW d \in Data, FsWrite(p, b, d)
        PROVE  [Abstract!Next]_(Abstract!vars)
    <2>1. Recovered' = Recovered
      BY <1>4, SameDisk, Zenon DEF FsWrite, disk
    <2>2. InCall' = InCall /\ p \in InCall
      BY <1>1, <1>4, Zenon DEF FsWrite, Goto, InCall, TypeOK
    <2>3. View' = [View EXCEPT ![b] = d]
      <3>1. cache' = [cache EXCEPT ![b] = d] /\ UNCHANGED home /\ d # NotCached
        BY <1>4, Zenon DEF FsWrite, disk
      <3>2. /\ cache'[b] = d
            /\ \A c \in Block \ {b} : cache'[c] = cache[c]
        BY <1>1, <3>1, Zenon DEF TypeOK
      <3>3. \A c \in Block : Bread(c)' = IF c = b THEN d ELSE Bread(c)
        BY <3>1, <3>2, Zenon DEF Bread
      <3>4. View = [c \in Block |-> Bread(c)] /\ View' = [c \in Block |-> Bread(c)']
        BY Zenon DEF View
      <3>5. QED
        BY <3>3, <3>4, Zenon
    <2>4. Abstract!Write(p, b, d)
      BY <2>1, <2>2, <2>3, Zenon DEF Abstract!Write, View
    <2>5. QED
      BY <2>4, Zenon DEF Abstract!Next
  <1>5. CASE LogWrite(p)
    <2>1. Recovered' = Recovered
      BY <1>5, SameDisk, Zenon DEF LogWrite, disk
    <2>2. View' = View
      BY <1>5, SameView, Zenon DEF LogWrite, disk, Bread
    <2>3. InCall' = InCall
      BY <1>1, <1>5, Zenon DEF LogWrite, Goto, InCall, TypeOK
    <2>4. QED
      BY <2>1, <2>2, <2>3, Zenon DEF Abstract!vars, View
  <1>6. CASE EndOp(p)
    <2>1. Recovered' = Recovered
      BY <1>6, SameDisk, Zenon DEF EndOp, disk
    <2>2. View' = View
      BY <1>6, SameView, Zenon DEF EndOp, bufs, disk, Bread
    <2>3. p \in InCall /\ committing = 0
      BY <1>1, <1>6, Zenon DEF EndOp, InCall, CallInv, TypeOK
    <2>4. pc' = [pc EXCEPT ![p] = IF lh = << >> THEN "done" ELSE "write_log"]
          \/ pc' = [WakeupLog EXCEPT ![p] = "idle"]
      BY <1>6, <2>3 DEF EndOp, Goto
    <2>5. InCall' = InCall \ {p}
      BY Zenon, <1>1, <2>4 DEF InCall, WakeupLog, TypeOK
    <2>6. Abstract!End(p)
      BY <2>1, <2>2, <2>3, <2>5, Zenon DEF Abstract!End, View
    <2>7. QED
      BY <2>6, Zenon DEF Abstract!Next
  <1>7. QED
    BY <1>2, <1>3, <1>4, <1>5, <1>6, Zenon DEF Call

(* Evicting a buffer that nobody references shows the same contents. *)
LEMMA EvictRefines ==
  ASSUME IInv, RecoverySafe, mode = "up", UNCHANGED <<mode, crashes>>,
         NEW b \in Block, Evict(b)
  PROVE  [Abstract!Next]_(Abstract!vars)
  <1> USE LogAssumption DEF LogAssumption
  <1>1. TypeOK /\ UpInv /\ PinInv
    BY Zenon DEF IInv, DiskInv
  <1>2. /\ cache' = [cache EXCEPT ![b] = NotCached]
        /\ b \in Recycle /\ refcnt[b] = 0 /\ cache[b] # NotCached
        /\ UNCHANGED <<home, logblk, head, pc>>
    BY Zenon DEF Evict, disk
  <1>3. /\ \A q \in Proc : wb[q] # b
        /\ \A i \in DOMAIN lh : lh[i] = b => Installed(i)
    <2>1. refcnt[b] = Held(b) + Pins(b)
      BY <1>1, <1>2, Zenon DEF RecoverySafe, PinInv
    <2>2. Held(b) \in {0, 1} /\ Pins(b) \in {0, 1}
      BY Zenon DEF Held, Pins
    <2>3. Held(b) = 0 /\ Pins(b) = 0
      BY <1>2, <2>1, <2>2
    <2>4. QED
      BY <2>3 DEF Held, Pins
  <1>4. \A i \in DOMAIN lh : Installed(i) => home[lh[i]] = Bread(lh[i])
    <2> SUFFICES ASSUME NEW i \in DOMAIN lh, NEW q \in Proc,
                        pc[q] = "erase" \/ (pc[q] = "install" /\ i < tail)
                 PROVE  home[lh[i]] = Bread(lh[i])
      BY Zenon DEF Installed
    <2>1. i \in 1..Len(lh)
      BY <1>1 DEF TypeOK
    <2>2. i < tail => i \in 1..tail - 1
      BY <1>1, <2>1 DEF TypeOK
    <2>3. QED
      BY <1>1, <2>1, <2>2, Zenon DEF UpInv, CopyInv
  <1>5. cache[b] = home[b]
    <2>1. CASE b \in Logged(lh)
      BY <1>2, <1>3, <1>4, <2>1, Zenon DEF Logged, Bread
    <2>2. CASE b \notin Logged(lh)
      BY <1>1, <1>2, <1>3, <2>2, Zenon DEF UpInv, CleanInv
    <2>3. QED
      BY <2>1, <2>2, Zenon
  <1>6. \A c \in Block : Bread(c)' = Bread(c)
    <2>1. cache'[b] = NotCached /\ \A c \in Block \ {b} : cache'[c] = cache[c]
      BY <1>1, <1>2, Zenon DEF TypeOK
    <2>2. QED
      BY <1>2, <1>5, <2>1, Zenon DEF Bread
  <1>7. Recovered' = Recovered
    BY <1>2, SameDisk, Zenon
  <1>8. InCall' = InCall
    BY <1>2, Zenon DEF InCall
  <1>9. View' = View
    BY <1>6, SameView, Zenon
  <1>10. QED
    BY <1>7, <1>8, <1>9, Zenon DEF Abstract!vars, View

(* write_head() is the commit point. *)
LEMMA WriteHeadRefines ==
  ASSUME IInv, IInv', mode = "up", UNCHANGED <<mode, crashes>>,
         NEW p \in Proc, WriteHead(p)
  PROVE  Abstract!Commit
  <1>1. TypeOK /\ UpInv
    BY Zenon DEF IInv, DiskInv
  <1>2. /\ pc[p] = "write_head" /\ pc[p] \in CommitPC
        /\ pc' = [pc EXCEPT ![p] = "install"]
        /\ head' = lh
        /\ UNCHANGED <<home, logblk, lh, cache>>
    BY Zenon DEF WriteHead, Goto, logvars, bufs, CommitPC
  <1>3. InCall = {} /\ \A q \in Proc : wb[q] = NoBlock
    BY <1>2, CommitAlone, Zenon
  <1>4. InCall' = InCall
    BY <1>1, <1>2, Zenon DEF InCall, TypeOK
  <1>5. View' = View
    BY <1>2, SameView, Zenon DEF Bread
  <1>6. ByBlock'
    BY RecoveredByBlock, PTL
  <1>7. \A i \in DOMAIN lh : Recovered'[lh[i]] = Bread(lh[i])
    <2>1. DOMAIN lh = 1..Len(lh)
      BY <1>1 DEF TypeOK
    <2>2. \A i \in 1..Len(lh) : logblk[i] = Bread(lh[i])
      BY <1>1, <1>2, Zenon DEF UpInv, CopyInv
    <2>3. QED
      BY <1>2, <1>6, <2>1, <2>2, Zenon DEF ByBlock
  <1>8. \A b \in Block : b \notin Logged(lh) => Recovered'[b] = Bread(b)
    <2>1. \A b \in Block : b \notin Logged(lh) => Recovered'[b] = home[b]
      BY <1>2, <1>6, Zenon DEF ByBlock
    <2>2. \A b \in Block : b \notin Logged(lh) => cache[b] = NotCached \/ cache[b] = home[b]
      BY <1>1, <1>3, LogAssumption, Zenon DEF UpInv, CleanInv, LogAssumption
    <2>3. QED
      BY <2>1, <2>2, Zenon DEF Bread
  <1>9. \A b \in Block : Recovered'[b] = Bread(b)
    BY <1>7, <1>8, Zenon DEF Logged
  <1>10. Recovered' = View
    <2>1. View = [b \in Block |-> Bread(b)]
      BY Zenon DEF View
    <2>2. Recovered' = [b \in Block |-> Recovered'[b]]
      BY DEF Recovered
    <2>3. QED
      BY <1>9, <2>1, <2>2, Zenon
  <1>11. QED
    BY <1>3, <1>4, <1>5, <1>10, Zenon DEF Abstract!Commit, View

(* One iteration of install_trans() copies what the log already promises. *)
LEMMA InstallSame ==
  ASSUME TypeOK, Distinct(lh), InstallBlock, head = lh, ByBlock, ByBlock',
         tail \in 1..Len(lh), Len(lh) <= LOGSIZE
  PROVE  Recovered' = Recovered
  <1>1. /\ UNCHANGED <<logblk, head, lh>>
        /\ lh[tail] \in Logged(head)
        /\ \A c \in Block : c # lh[tail] => home'[c] = home[c]
    BY InstallFacts, Zenon DEF Logged
  <1>2. \A b \in Block : Recovered'[b] = Recovered[b]
    <2> SUFFICES ASSUME NEW b \in Block PROVE Recovered'[b] = Recovered[b]
      BY Zenon
    <2>1. CASE b \in Logged(head)
      BY <1>1, <2>1 DEF ByBlock, Logged
    <2>2. CASE b \notin Logged(head)
      BY <1>1, <2>2, Zenon DEF ByBlock
    <2>3. QED
      BY <2>1, <2>2, Zenon
  <1>3. Recovered = [b \in Block |-> Recovered[b]] /\ Recovered' = [b \in Block |-> Recovered'[b]]
    BY DEF Recovered
  <1>4. QED
    BY <1>2, <1>3, Zenon

(* Once everything is installed the header can go. *)
LEMMA EraseSame ==
  ASSUME TypeOK, head = lh, \A i \in 1..Len(lh) : home[lh[i]] = logblk[i],
         head' = << >>, home' = home, ByBlock, ByBlock'
  PROVE  Recovered' = Recovered /\ \A b \in Block : Recovered[b] = home[b]
  <1>1. Logged(<< >>) = {}
    BY DEF Logged
  <1>2. DOMAIN head = 1..Len(head)
    BY DEF TypeOK
  <1>3. \A b \in Block : Recovered[b] = home[b]
    BY <1>2 DEF ByBlock, Logged
  <1>4. \A b \in Block : Recovered'[b] = home[b]
    BY <1>1, Zenon DEF ByBlock
  <1>5. Recovered = [b \in Block |-> Recovered[b]] /\ Recovered' = [b \in Block |-> Recovered'[b]]
    BY DEF Recovered
  <1>6. QED
    BY <1>3, <1>4, <1>5, Zenon

(* The steps of commit(): write_head() of a full header is the commit of   *)
(* AtomicDisk, the other disk writes are invisible.                        *)
LEMMA CommitRefines ==
  ASSUME IInv, IInv', mode = "up", UNCHANGED <<mode, crashes>>,
         NEW p \in Proc, Commit(p)
  PROVE  [Abstract!Next]_(Abstract!vars)
  <1> USE LogAssumption DEF LogAssumption
  <1>1. TypeOK /\ SpaceInv /\ UpInv /\ Distinct(lh) /\ Distinct(head)
    BY Zenon DEF IInv, DiskInv
  <1>2. ByBlock /\ ByBlock'
    BY RecoveredByBlock, PTL
  <1>3. pc[p] \in CommitPC
    BY Zenon DEF Commit, CommitPC, WriteLog, WriteHead, Install, Erase, CommitDone
  <1>4. \A q \in Proc : pc[q] \in CommitPC => q = p
    BY <1>3, CommitAlone, Zenon
  <1>5. ASSUME NEW l \in CommitPC, pc' = [pc EXCEPT ![p] = l] PROVE InCall' = InCall
    BY <1>1, <1>3, <1>5, Zenon DEF InCall, CommitPC, TypeOK
  <1>6. CASE WriteLog(p)
    <2>1. head = << >> /\ UNCHANGED <<home, head, lh>>
      BY <1>1, <1>4, <1>6, Zenon DEF WriteLog, UpInv, HeadInv, CommitPC, logvars
    <2>2. Recovered' = Recovered
      <3>1. Logged(<< >>) = {}
        BY DEF Logged
      <3>2. QED
        BY <2>1, <3>1, Zenon DEF Recovered
    <2>3. InCall' = InCall
      <3>1. \E l \in CommitPC : pc' = [pc EXCEPT ![p] = l]
        BY Zenon, <1>6 DEF WriteLog, Goto, CommitPC
      <3>2. QED
        BY Zenon, <1>5, <3>1
    <2>4. View' = View
      <3>1. cache' = [cache EXCEPT ![lh[tail]] = Bread(lh[tail])]
        BY <1>6, Zenon DEF WriteLog
      <3>2. \A c \in Block : cache'[c] = IF c = lh[tail] THEN Bread(c) ELSE cache[c]
        BY <1>1, <3>1, Zenon DEF TypeOK
      <3>3. \A c \in Block : Bread(c)' = Bread(c)
        BY <2>1, <3>2, Zenon DEF Bread
      <3>4. QED
        BY <3>3, SameView, Zenon
    <2>5. QED
      BY <2>2, <2>3, <2>4, Zenon DEF Abstract!vars, View
  <1>7. CASE WriteHead(p)
    <2>1. Abstract!Commit
      BY <1>7, WriteHeadRefines, Zenon
    <2>2. QED
      BY <2>1, Zenon DEF Abstract!Next
  <1>8. CASE Install(p)
    <2>1. /\ pc[p] = "install" /\ InstallBlock
          /\ \E l \in CommitPC : pc' = [pc EXCEPT ![p] = l]
      BY Zenon, <1>8 DEF Install, Goto, CommitPC
    <2>2. tail \in 1..Len(lh) /\ head = lh /\ Len(lh) <= LOGSIZE
      BY <1>1, <2>1, Zenon DEF UpInv, HeadInv, SpaceInv
    <2>3. Recovered' = Recovered
      BY <1>1, <1>2, <2>1, <2>2, InstallSame, Zenon
    <2>4. InCall' = InCall
      BY Zenon, <1>5, <2>1
    <2>5. View' = View
      <3>1. /\ cache'[lh[tail]] = logblk[tail] /\ logblk[tail] \in Data
            /\ \A c \in Block : c # lh[tail] => home'[c] = home[c] /\ cache'[c] = cache[c]
        BY <1>1, <2>1, <2>2, InstallFacts, Zenon
      <3>2. Bread(lh[tail]) = logblk[tail]
        BY <1>1, <2>1, <2>2, Zenon DEF UpInv, CopyInv
      <3>3. \A c \in Block : Bread(c)' = Bread(c)
        BY <3>1, <3>2, Zenon DEF Bread
      <3>4. QED
        BY <3>3, SameView, Zenon
    <2>6. QED
      BY <2>3, <2>4, <2>5, Zenon DEF Abstract!vars, View
  <1>9. CASE Erase(p)
    <2>1. /\ pc[p] = "erase" /\ head' = << >> /\ UNCHANGED <<home, cache>>
          /\ pc' = [pc EXCEPT ![p] = "done"]
      BY <1>9, Zenon DEF Erase, EraseLog, Goto, bufs
    <2>2. head = lh /\ \A i \in 1..Len(lh) : home[lh[i]] = logblk[i]
      BY <1>1, <2>1, Zenon DEF UpInv, HeadInv, CopyInv
    <2>3. Recovered' = Recovered
      BY <1>1, <1>2, <2>1, <2>2, EraseSame, Zenon
    <2>4. InCall' = InCall
      BY <1>5, <2>1, Zenon DEF CommitPC
    <2>5. View' = View
      BY <2>1, SameView, Zenon DEF Bread
    <2>6. QED
      BY <2>3, <2>4, <2>5, Zenon DEF Abstract!vars, View
  <1>10. CASE CommitDone(p)
    <2>1. Recovered' = Recovered
      BY <1>10, SameDisk, Zenon DEF CommitDone, disk
    <2>2. View' = View
      BY <1>10, SameView, Zenon DEF CommitDone, bufs, disk, Bread
    <2>3. InCall' = InCall
      BY <1>1, <1>10, Zenon DEF CommitDone, InCall, WakeupLog, TypeOK
    <2>4. QED
      BY <2>1, <2>2, <2>3, Zenon DEF Abstract!vars, View
  <1>11. QED
    BY <1>6, <1>7, <1>8, <1>9, <1>10, Zenon DEF Commit

(* recover_from_log() changes nothing that AtomicDisk sees.                *)
LEMMA RecoveryRefines ==
  ASSUME IInv, IInv', Recovery
  PROVE  [Abstract!Next]_(Abstract!vars)
  <1>1. TypeOK /\ SpaceInv /\ Distinct(lh) /\ Distinct(head) /\ mode # "up" /\ RecoveryInv
    BY Zenon DEF IInv, DiskInv, Recovery, RecoverReadHead, RecoverInstall, RecoverErase
  <1>2. ByBlock /\ ByBlock'
    BY RecoveredByBlock, PTL
  <1>3. InCall' = InCall
    BY Zenon DEF Recovery, RecoverReadHead, RecoverInstall, RecoverErase, InCall
  <1>4. View = Recovered
    BY <1>1, Zenon DEF View
  <1>5. CASE RecoverReadHead
    <2>1. Recovered' = Recovered
      BY <1>5, SameDisk, Zenon DEF RecoverReadHead, disk
    <2>2. View' = Recovered'
      BY <1>5, Zenon DEF RecoverReadHead, View
    <2>3. QED
      BY <1>3, <1>4, <2>1, <2>2, Zenon DEF Abstract!vars, View
  <1>6. CASE RecoverInstall
    <2>1. InstallBlock /\ tail \in 1..Len(lh) /\ head = lh /\ Len(lh) <= LOGSIZE
      BY <1>1, <1>6, Zenon DEF RecoverInstall, RecoveryInv, SpaceInv
    <2>2. Recovered' = Recovered
      BY <1>1, <1>2, <2>1, InstallSame, Zenon
    <2>3. View' = Recovered'
      BY <1>6, Zenon DEF RecoverInstall, View
    <2>4. QED
      BY <1>3, <1>4, <2>2, <2>3, Zenon DEF Abstract!vars, View
  <1>7. CASE RecoverErase
    <2>1. /\ mode = "erase" /\ mode' = "up" /\ head' = << >> /\ UNCHANGED <<home, cache>>
      BY <1>7, Zenon DEF RecoverErase, EraseLog, bufs
    <2>2. /\ head = lh
          /\ \A i \in 1..Len(lh) : home[lh[i]] = logblk[i]
          /\ \A b \in Block : cache[b] = NotCached \/ cache[b] = home[b]
      BY <1>1, <2>1, Zenon DEF RecoveryInv
    <2>3. Recovered' = Recovered /\ \A b \in Block : Recovered[b] = home[b]
      BY <1>1, <1>2, <2>1, <2>2, EraseSame, Zenon
    <2>4. \A b \in Block : Bread(b)' = home[b]
      BY <2>1, <2>2, Zenon DEF Bread
    <2>5. View' = [b \in Block |-> Bread(b)']
      BY <2>1, Zenon DEF View
    <2>6. Recovered = [b \in Block |-> Recovered[b]]
      BY DEF Recovered
    <2>7. View' = Recovered
      BY <2>3, <2>4, <2>5, <2>6, Zenon
    <2>8. QED
      BY <1>3, <1>4, <2>3, <2>7, Zenon DEF Abstract!vars, View
  <1>8. QED
    BY <1>5, <1>6, <1>7, Zenon DEF Recovery

(* A power failure is the crash of AtomicDisk: the view falls back to      *)
(* what is durable.                                                        *)
LEMMA CrashRefines == ASSUME Crash PROVE Abstract!Crash
  <1>1. Recovered' = Recovered
    BY SameDisk, Zenon DEF Crash, disk
  <1>2. mode' = "read_head" /\ InCall' = {}
    BY Zenon DEF Crash, InCall
  <1>3. View' = Recovered'
    BY <1>2, Zenon DEF View
  <1>4. QED
    BY <1>1, <1>2, <1>3, Zenon DEF Abstract!Crash, View
-----------------------------------------------------------------------------
(* The disk mkfs leaves, with an empty log, is an initial state of         *)
(* AtomicDisk.                                                             *)
LEMMA InitRefines == ASSUME Init PROVE Abstract!Init
  <1>1. /\ home \in [Block -> Data] /\ head = << >> /\ mode = "up"
        /\ \A b \in Block : cache[b] = NotCached
        /\ \A p \in Proc : pc[p] = "idle"
    BY Zenon DEF Init
  <1>2. Logged(<< >>) = {}
    BY DEF Logged
  <1>3. Recovered = home
    BY <1>1, <1>2, Zenon DEF Recovered
  <1>4. View = home
    BY <1>1, Zenon DEF View, Bread
  <1>5. InCall = {}
    BY <1>1, Zenon DEF InCall
  <1>6. QED
    BY <1>1, <1>3, <1>4, <1>5, Zenon DEF Abstract!Init, View

(* Every step of the log is a step of AtomicDisk or a stutter.             *)
LEMMA NextRefines ==
  ASSUME IInv, IInv', RecoverySafe, [Next]_vars
  PROVE  [Abstract!Next]_(Abstract!vars)
  <1>1. CASE UNCHANGED vars
    BY <1>1 DEF vars, disk, logvars, bufs, calls, Abstract!vars, Recovered, Logged,
                Bread, InCall
  <1>2. CASE Running
    BY <1>2, CallRefines, CommitRefines, EvictRefines, Zenon DEF Running
  <1>3. CASE Recovery
    BY <1>3, RecoveryRefines, Zenon
  <1>4. CASE Crash
    BY <1>4, CrashRefines, Zenon DEF Abstract!Next
  <1>5. QED
    BY <1>1, <1>2, <1>3, <1>4, Zenon DEF Next

(* log.c implements the atomic disk: whatever the number of processes,     *)
(* blocks and crashes, and wherever the crashes fall, a reboot finds all   *)
(* the writes of the calls up to the last commit and none of the later.    *)
THEOREM Refinement == ASSUME RecoverySafe PROVE Spec => Atomicity
  <1>1. Init => Abstract!Init
    BY InitRefines, Zenon
  <1>2. IInv /\ IInv' /\ [Next]_vars => [Abstract!Next]_(Abstract!vars)
    BY NextRefines, Zenon
  <1>3. QED
    BY <1>1, <1>2, Invariance, PTL DEF Spec, Atomicity, Abstract!Spec

(* The last end_op() out returns only when everything is durable. *)
THEOREM Durability == ASSUME RecoverySafe PROVE Spec => []QuiescentIsDurable
  <1>1. IInv => QuiescentIsDurable
    <2> SUFFICES ASSUME IInv, mode = "up", outstanding = 0, committing = 0, NEW b \in Block
                 PROVE  Recovered[b] = Bread(b)
      BY Zenon DEF QuiescentIsDurable
    <2>1. TypeOK /\ CallInv /\ UpInv
      BY Zenon DEF IInv, DiskInv
    <2>2. \A p \in Proc : pc[p] \notin CommitPC
      BY <2>1 DEF CallInv
    <2>3. lh = << >> /\ head = << >> /\ Logged(<< >>) = {}
      BY <2>1, <2>2 DEF UpInv, HeadInv, CommitPC, Logged
    <2>4. \A p \in Proc : wb[p] # b
      <3>1. IsFiniteSet(InCall)
        BY FiniteProcs, Zenon DEF InCall
      <3>2. InCall = {}
        BY <2>1, <3>1, FS_EmptySet, Zenon DEF CallInv
      <3>3. QED
        BY <2>1, <3>2, LogAssumption, Zenon DEF CallInv, InCall, LogAssumption
    <2>5. cache[b] = NotCached \/ cache[b] = home[b]
      BY <2>1, <2>3, <2>4, Zenon DEF UpInv, CleanInv
    <2>6. Recovered[b] = home[b]
      BY <2>3, Zenon DEF Recovered
    <2>7. QED
      BY <2>5, <2>6, Zenon DEF Bread
  <1>2. QED
    BY <1>1, Invariance, PTL

(* install_trans() writes a home block only while the header on disk names *)
(* it, in a commit and in a recovery.                                      *)
THEOREM WriteAheadRule == ASSUME RecoverySafe PROVE Spec => WriteAhead
  <1> DEFINE Rule == \A b \in Block : home'[b] # home[b] => b \in Logged(head) /\ head' = head
  <1>1. ASSUME IInv, [Next]_vars PROVE Rule
    <2>1. home' = home \/ (InstallBlock /\ (mode = "install" \/ (mode = "up" /\ \E p \in Proc : pc[p] = "install")))
      BY Zenon, <1>1 DEF Next, Running, Call, Commit, Recovery, BeginSleep, BeginOp, FsWrite, LogWrite,
                  EndOp, WriteLog, WriteHead, Install, Erase, EraseLog, CommitDone, Evict,
                  Crash, RecoverReadHead, RecoverInstall, RecoverErase, vars, disk
    <2>2. CASE home' = home
      BY <2>2, Zenon
    <2>3. CASE InstallBlock /\ (mode = "install" \/ (mode = "up" /\ \E p \in Proc : pc[p] = "install"))
      <3>1. TypeOK /\ SpaceInv /\ DiskInv /\ Distinct(lh)
        BY <1>1, Zenon DEF IInv, DiskInv
      <3>2. tail \in 1..Len(lh) /\ head = lh /\ Len(lh) <= LOGSIZE
        BY <2>3, <3>1, Zenon DEF DiskInv, UpInv, HeadInv, RecoveryInv, SpaceInv
      <3>3. /\ \A c \in Block : c # lh[tail] => home'[c] = home[c]
            /\ UNCHANGED head
            /\ lh[tail] \in Logged(lh)
        BY <2>3, <3>1, <3>2, InstallFacts, Zenon DEF Logged
      <3>4. QED
        BY <3>2, <3>3, Zenon
    <2>4. QED
      BY <2>1, <2>2, <2>3, Zenon
  <1>2. IInv /\ [Next]_vars => [Rule]_vars
    BY <1>1, Zenon
  <1>3. QED
    BY <1>2, Invariance, PTL DEF Spec, WriteAhead

(* While no log is replayed, bpin() keeps the buffer of every logged block *)
(* in the cache until install_trans() has written it home.                 *)
THEOREM Pinning == ASSUME MaxCrash = 0 PROVE Spec => []LoggedIsPinned
  <1>1. RecoverySafe
    BY Zenon DEF RecoverySafe
  <1>2. IInv => LoggedIsPinned
    <2> SUFFICES ASSUME IInv, NEW i \in DOMAIN lh, ~Installed(i)
                 PROVE  refcnt[lh[i]] > 0
      BY Zenon DEF LoggedIsPinned
    <2>1. lh[i] \in Block
      BY DEF IInv, TypeOK
    <2>2. refcnt[lh[i]] = Held(lh[i]) + Pins(lh[i])
      BY <2>1, Zenon DEF IInv, PinInv
    <2>3. Held(lh[i]) \in {0, 1} /\ Pins(lh[i]) = 1
      BY Zenon DEF Held, Pins
    <2>4. QED
      BY <2>2, <2>3
  <1>3. QED
    BY <1>1, <1>2, Invariance, PTL
=============================================================================
