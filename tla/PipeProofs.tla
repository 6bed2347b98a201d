---------------------------- MODULE PipeProofs ----------------------------
(***************************************************************************)
(* Proofs about Pipe, for any number of processes, any ring size and any   *)
(* width of the counters: nobody sleeps on a pipe without a cause, a freed *)
(* pipe is not used, and the ring implements the queue of Fifo.            *)
(***************************************************************************)
EXTENDS Pipe, TLAPS

WLabels == {"w_acquire", "w_loop", "w_sleep", "w_asleep"}
RLabels == {"r_acquire", "r_loop", "r_sleep", "r_asleep", "r_copy", "r_fault"}
Labels == WLabels \cup RLabels \cup {"user", "close_r", "close_w"}
Inside == {"w_loop", "w_sleep", "r_loop", "r_sleep", "r_copy", "r_fault"}

TypeOK ==
  /\ data \in [0..PIPESIZE - 1 -> Byte]
  /\ nread \in 0..UINT - 1 /\ nwrite \in 0..UINT - 1
  /\ readopen \in {0, 1} /\ writeopen \in {0, 1}
  /\ freed \in {0, 1}
  /\ lock \in Proc \cup {None}
  /\ fds \in [Proc -> SUBSET {"r", "w"}]
  /\ killed \in [Proc -> {0, 1}]
  /\ pc \in [Proc -> Labels]
  /\ n \in [Proc -> Nat] /\ i \in [Proc -> Nat]
  /\ ch \in [Proc -> Byte]
  /\ eof \subseteq Proc

(* Who is past acquire() and has not slept or returned holds pi->lock. *)
Held == \A p \in Proc : pc[p] \in Inside <=> lock = p

(* A call keeps its descriptor, which was there from the start. *)
Descriptors ==
  \A p \in Proc : /\ fds[p] \subseteq Fds[p]
                  /\ pc[p] \in WLabels => "w" \in fds[p]
                  /\ pc[p] \in RLabels => "r" \in fds[p] /\ n[p] > 0

(* An end is open while somebody has a descriptor of it or is about to     *)
(* call pipeclose() after giving up the last one, never both.              *)
EndOpen(end, open) ==
  /\ open = 1 <=> \E p \in Proc : end \in fds[p] \/ pc[p] = CloseLabel(end)
  /\ \A p, q \in Proc : pc[p] = CloseLabel(end) =>
       end \notin fds[q] /\ (pc[q] = CloseLabel(end) => q = p)

Ends ==
  /\ EndOpen("r", readopen)
  /\ EndOpen("w", writeopen)
  /\ freed = 1 <=> readopen = 0 /\ writeopen = 0

(* The counters are at most PIPESIZE apart. *)
InRing == Count <= PIPESIZE

(* SleepWithCause while pi->lock is held: a writer in its loop, or a       *)
(* reader that has begun to copy, will call wakeup(); and the test that    *)
(* sends a process to sleep stays true until it sleeps.                    *)
Caused ==
  /\ \A p \in Proc : pc[p] = "r_asleep" =>
       /\ writeopen = 1
       /\ Empty \/ KilledWriter \/ \E q \in Proc : pc[q] = "w_loop"
  /\ \A p \in Proc : pc[p] = "w_asleep" =>
       /\ readopen = 1
       /\ Full \/ \E q \in Proc : pc[q] \in {"r_copy", "r_fault"}
  /\ \A p \in Proc : pc[p] = "r_sleep" => writeopen = 1 /\ Empty
  /\ \A p \in Proc : pc[p] = "w_sleep" => readopen = 1 /\ Full

(* A reader that has copied nothing has something to copy, or has seen     *)
(* that nobody can write any more.                                         *)
Copying == \A p \in Proc : pc[p] = "r_copy" /\ i[p] = 0 => ~Empty \/ writeopen = 0

IInv == TypeOK /\ Held /\ Descriptors /\ Ends /\ InRing /\ Caused /\ Copying
-----------------------------------------------------------------------------
(* Arithmetic of a ring: division with remainder, and what it tells about  *)
(* the indices nread % PIPESIZE and nwrite % PIPESIZE.                     *)

(* A number is its quotient times the divisor, plus the remainder. *)
LEMMA DivMod ==
  ASSUME NEW d \in Nat \ {0}, NEW a \in Int
  PROVE  /\ a \div d \in Int /\ a % d \in 0..d - 1
         /\ a = (d * (a \div d)) + (a % d)
OBVIOUS

(* The remainder is the only one there is. *)
LEMMA ModUnique ==
  ASSUME NEW d \in Nat \ {0}, NEW a \in Int, NEW q \in Int, NEW r \in 0..d - 1,
         a = (d * q) + r
  PROVE  a % d = r
OBVIOUS

(* Going round the ring comes back to the same slot. *)
LEMMA ModRound ==
  ASSUME NEW d \in Nat \ {0}, NEW a \in Int, NEW c \in Int
  PROVE  (a + (d * c)) % d = a % d
<1> DEFINE q == a \div d
           r == a % d
<1>1. q \in Int /\ r \in 0..d - 1 /\ a = (d * q) + r
  BY DivMod, Zenon
<1>2. a + (d * c) = (d * (q + c)) + r
  BY <1>1
<1> HIDE DEF q, r
<1>3. q + c \in Int /\ a + (d * c) \in Int
  BY <1>1
<1>4. (a + (d * c)) % d = r
  BY <1>1, <1>2, <1>3, ModUnique, Zenon
<1> QED  BY <1>4, Zenon DEF r

(* Less than a round apart, two indices are two slots. *)
LEMMA ModApart ==
  ASSUME NEW d \in Nat \ {0}, NEW a \in Int, NEW b \in Int, a < b, b < a + d
  PROVE  a % d # b % d
<1> SUFFICES ASSUME a % d = b % d PROVE FALSE
  BY Zenon
<1> DEFINE q == a \div d
           s == b \div d
<1>1. /\ q \in Int /\ a = (d * q) + (a % d)
      /\ s \in Int /\ b = (d * s) + (b % d)
  BY DivMod, Zenon
<1> HIDE DEF q, s
<1>2. s - q \in Int /\ 0 < d * (s - q) /\ d * (s - q) < d
  BY <1>1
<1>3. CASE s - q <= 0
  BY <1>2, <1>3
<1>4. CASE s - q >= 1
  BY <1>2, <1>4
<1> QED  BY <1>2, <1>3, <1>4

(* How far a counter is ahead of another one, without the remainder. *)
LEMMA Distance ==
  ASSUME NEW x \in 0..UINT - 1, NEW y \in 0..UINT - 1
  PROVE  (y - x + UINT) % UINT = IF y >= x THEN y - x ELSE y - x + UINT
<1>1. UINT \in Nat \ {0}
  BY PipeAssumption
<1>2. CASE y >= x
  <2>1. y - x + UINT = (UINT * 1) + (y - x)
    BY <1>1
  <2> QED  BY <1>1, <1>2, <2>1, ModUnique
<1>3. CASE ~(y >= x)
  <2>1. y - x + UINT = (UINT * 0) + (y - x + UINT)
    BY <1>1
  <2> QED  BY <1>1, <1>3, <2>1, ModUnique
<1> QED  BY <1>2, <1>3, Zenon

(* The two tests of pipewrite() and piperead() in terms of Count: the      *)
(* counters wrap, the tests stay exact.                                    *)
LEMMA Counters ==
  ASSUME TypeOK
  PROVE  /\ Count = IF nwrite >= nread THEN nwrite - nread ELSE nwrite - nread + UINT
         /\ Count \in 0..UINT - 1
         /\ Empty <=> Count = 0
         /\ Full <=> Count = PIPESIZE
<1>1. /\ nread \in 0..UINT - 1 /\ nwrite \in 0..UINT - 1
      /\ UINT \in Nat /\ PIPESIZE \in Nat \ {0} /\ UINT > PIPESIZE
  BY PipeAssumption, Zenon DEF TypeOK
<1>2. Count = IF nwrite >= nread THEN nwrite - nread ELSE nwrite - nread + UINT
  BY <1>1, Distance, Zenon DEF Count
<1>3. (nread + PIPESIZE) % UINT = IF nread + PIPESIZE < UINT THEN nread + PIPESIZE
                                  ELSE nread + PIPESIZE - UINT
  <2>1. CASE nread + PIPESIZE < UINT
    <3>1. nread + PIPESIZE = (UINT * 0) + (nread + PIPESIZE)
      BY <1>1
    <3> QED  BY <1>1, <2>1, <3>1, ModUnique
  <2>2. CASE ~(nread + PIPESIZE < UINT)
    <3>1. nread + PIPESIZE = (UINT * 1) + (nread + PIPESIZE - UINT)
      BY <1>1
    <3> QED  BY <1>1, <2>2, <3>1, ModUnique
  <2> QED  BY <2>1, <2>2, Zenon
<1> QED  BY <1>1, <1>2, <1>3 DEF Empty, Full

(* x++ of a counter of the pipe. *)
LEMMA Increment ==
  ASSUME NEW x \in 0..UINT - 1
  PROVE  (x + 1) % UINT = IF x + 1 = UINT THEN 0 ELSE x + 1
<1>1. UINT \in Nat \ {0}
  BY PipeAssumption
<1>2. CASE x + 1 = UINT
  <2>1. x + 1 = (UINT * 1) + 0
    BY <1>1, <1>2
  <2> QED  BY <1>1, <1>2, <2>1, ModUnique
<1>3. CASE x + 1 # UINT
  <2>1. x + 1 = (UINT * 0) + (x + 1)
    BY <1>1
  <2> QED  BY <1>1, <1>3, <2>1, ModUnique
<1> QED  BY <1>2, <1>3, Zenon

(* One byte more, one byte less. *)
LEMMA OneMore ==
  ASSUME TypeOK, InRing, ~Full, nwrite' = (nwrite + 1) % UINT, nread' = nread
  PROVE  Count' = Count + 1 /\ Count' <= PIPESIZE /\ nwrite' \in 0..UINT - 1
<1>1. /\ nread \in 0..UINT - 1 /\ nwrite \in 0..UINT - 1
      /\ UINT \in Nat /\ PIPESIZE \in Nat \ {0} /\ UINT > PIPESIZE
  BY PipeAssumption, Zenon DEF TypeOK
<1>2. nwrite' = IF nwrite + 1 = UINT THEN 0 ELSE nwrite + 1
  BY <1>1, Increment, Zenon
<1>3. nwrite' \in 0..UINT - 1 /\ nread' \in 0..UINT - 1
  BY <1>1, <1>2
<1>4. Count' = IF nwrite' >= nread' THEN nwrite' - nread' ELSE nwrite' - nread' + UINT
  BY <1>3, Distance, Zenon DEF Count
<1> QED  BY <1>1, <1>2, <1>3, <1>4, Counters DEF InRing

(* A byte taken from the ring is one less in it. *)
LEMMA OneLess ==
  ASSUME TypeOK, InRing, ~Empty, nread' = (nread + 1) % UINT, nwrite' = nwrite
  PROVE  Count' = Count - 1 /\ Count' < PIPESIZE /\ nread' \in 0..UINT - 1
<1>1. /\ nread \in 0..UINT - 1 /\ nwrite \in 0..UINT - 1
      /\ UINT \in Nat /\ PIPESIZE \in Nat \ {0} /\ UINT > PIPESIZE
  BY PipeAssumption, Zenon DEF TypeOK
<1>2. nread' = IF nread + 1 = UINT THEN 0 ELSE nread + 1
  BY <1>1, Increment, Zenon
<1>3. nwrite' \in 0..UINT - 1 /\ nread' \in 0..UINT - 1
  BY <1>1, <1>2
<1>4. Count' = IF nwrite' >= nread' THEN nwrite' - nread' ELSE nwrite' - nread' + UINT
  BY <1>3, Distance, Zenon DEF Count
<1> QED  BY <1>1, <1>2, <1>3, <1>4, Counters DEF InRing

(* 2^32 is a whole number of rounds. *)
LEMMA WholeRounds ==
  ASSUME NEW x \in Int
  PROVE  (x + UINT) % PIPESIZE = x % PIPESIZE
<1>1. UINT \in Nat /\ PIPESIZE \in Nat \ {0} /\ UINT % PIPESIZE = 0
  BY PipeAssumption, Zenon
<1> DEFINE c == UINT \div PIPESIZE
<1>2. c \in Int /\ UINT = (PIPESIZE * c) + 0
  BY <1>1, DivMod
<1> HIDE DEF c
<1>3. UINT = PIPESIZE * c
  BY <1>1, <1>2
<1>4. PIPESIZE \in Nat \ {0}
  BY <1>1, Zenon
<1>5. (x + (PIPESIZE * c)) % PIPESIZE = x % PIPESIZE
  BY <1>2, <1>4, ModRound, Zenon
<1> QED  BY <1>3, <1>5, Zenon

(* Where the queue ends: nwrite is Count slots after nread. *)
LEMMA WriteSlot ==
  ASSUME TypeOK
  PROVE  nwrite % PIPESIZE = (nread + Count) % PIPESIZE
<1>1. /\ nread \in 0..UINT - 1 /\ nwrite \in 0..UINT - 1
      /\ UINT \in Nat /\ PIPESIZE \in Nat \ {0} /\ UINT % PIPESIZE = 0
  BY PipeAssumption, Zenon DEF TypeOK
<1>3. CASE nwrite >= nread
  BY <1>1, <1>3, Counters
<1>4. CASE ~(nwrite >= nread)
  <2>1. nread + Count = nwrite + UINT
    BY <1>1, <1>4, Counters
  <2>2. nwrite \in Int
    BY <1>1
  <2>3. (nwrite + UINT) % PIPESIZE = nwrite % PIPESIZE
    BY <2>2, WholeRounds, Zenon
  <2> QED  BY <2>1, <2>3, Zenon
<1> QED  BY <1>3, <1>4, Zenon

(* Reading moves the head of the queue one slot on, also where nread wraps. *)
LEMMA ReadSlot ==
  ASSUME NEW x \in 0..UINT - 1, NEW k \in Nat
  PROVE  (((x + 1) % UINT) + k) % PIPESIZE = (x + 1 + k) % PIPESIZE
<1>1. UINT \in Nat /\ PIPESIZE \in Nat \ {0} /\ UINT % PIPESIZE = 0
  BY PipeAssumption, Zenon
<1>3. CASE x + 1 = UINT
  <2>1. x + 1 + k = k + UINT
    BY <1>1, <1>3
  <2>2. (k + UINT) % PIPESIZE = k % PIPESIZE
    BY WholeRounds
  <2> QED  BY <1>1, <1>3, <2>1, <2>2, Increment
<1>4. CASE x + 1 # UINT
  BY <1>1, <1>4, Increment, Zenon
<1> QED  BY <1>3, <1>4, Zenon
-----------------------------------------------------------------------------
(* Invariance *)

(* None is not a process, and nobody reads or writes less than a byte. *)
LEMMA Basics == None \notin Proc /\ Length \subseteq Nat \ {0}
BY PipeAssumption, Zenon

(* The counters decide what is empty, full and in the ring. *)
LEMMA SameCounters ==
  ASSUME UNCHANGED <<nread, nwrite>>
  PROVE  Count' = Count /\ (Empty' <=> Empty) /\ (Full' <=> Full)
BY Zenon DEF Count, Empty, Full

(* What opens and closes the ends is the descriptors and pipeclose(). *)
LEMMA EndsFrame ==
  ASSUME Ends, UNCHANGED <<fds, readopen, writeopen, freed>>,
         \A q \in Proc :
    (pc'[q] = "close_r" <=> pc[q] = "close_r") /\ (pc'[q] = "close_w" <=> pc[q] = "close_w")
  PROVE  Ends'
<1>1. CloseLabel("r") = "close_r" /\ CloseLabel("w") = "close_w"
  BY Zenon DEF CloseLabel
<1>2. EndOpen("r", readopen)'
  BY <1>1 DEF Ends, EndOpen
<1>3. EndOpen("w", writeopen)'
  BY <1>1 DEF Ends, EndOpen
<1> QED  BY <1>2, <1>3, Zenon DEF Ends

(* Sleepers keep their cause while the counters and the ends stay, and    *)
(* those who will call wakeup() go on.                                     *)
LEMMA CausedFrame ==
  ASSUME Caused, UNCHANGED <<nread, nwrite, readopen, writeopen>>,
         KilledWriter => KilledWriter',
         \A q \in Proc :
           pc'[q] \in {"r_asleep", "w_asleep", "r_sleep", "w_sleep"} => pc'[q] = pc[q],
         \A q \in Proc : pc[q] \in {"w_loop", "r_copy", "r_fault"} => pc'[q] = pc[q]
  PROVE  Caused'
<1>1. (Empty' <=> Empty) /\ (Full' <=> Full)
  BY SameCounters, Zenon
<1> QED  BY <1>1, Zenon DEF Caused

(* A call begins. *)
LEMMA CallInv ==
  ASSUME IInv, NEW p \in Proc, NEW end \in {"r", "w"}, NEW label, Call(p, end, label),
         label = IF end = "w" THEN "w_acquire" ELSE "r_acquire"
  PROVE  IInv'
<1>0. Count' = Count /\ (Empty' <=> Empty) /\ (Full' <=> Full)
  BY SameCounters, Zenon DEF Call, Goto, pipe
<1>t. pc \in [Proc -> Labels]
  BY Zenon DEF IInv, TypeOK
<1> USE Basics DEF IInv, Call, Goto, pipe, args
<1>1. TypeOK'
  BY <1>0 DEF TypeOK, Labels, WLabels, RLabels, CloseLabel
<1>2. Held'
  BY <1>0, Zenon DEF Held, TypeOK, Inside
<1>3. Descriptors'
  BY <1>0 DEF Descriptors, TypeOK, WLabels, RLabels
<1>4. Ends'
  <2>1. \A q \in Proc :
    (pc'[q] = "close_r" <=> pc[q] = "close_r") /\ (pc'[q] = "close_w" <=> pc[q] = "close_w")
    BY <1>t, Zenon
  <2> QED  BY <2>1, EndsFrame, Zenon
<1>5. InRing'
  BY <1>0, Zenon DEF InRing
<1>6. Caused'
  <2>1. KilledWriter => KilledWriter'
    BY Zenon DEF KilledWriter, TypeOK
  <2>2. \A q \in Proc :
          pc'[q] \in {"r_asleep", "w_asleep", "r_sleep", "w_sleep"} => pc'[q] = pc[q]
    BY <1>t, Zenon
  <2>3. \A q \in Proc : pc[q] \in {"w_loop", "r_copy", "r_fault"} => pc'[q] = pc[q]
    BY <1>t, Zenon
  <2> QED  BY <2>1, <2>2, <2>3, CausedFrame, Zenon
<1>7. Copying'
  BY <1>0, Zenon DEF Copying, TypeOK
<1> QED  BY <1>1, <1>2, <1>3, <1>4, <1>5, <1>6, <1>7, Zenon

(* acquire(&pi->lock). *)
LEMMA AcquireInv ==
  ASSUME IInv, NEW p \in Proc, Acquire(p)
  PROVE  IInv'
<1>0. Count' = Count /\ (Empty' <=> Empty) /\ (Full' <=> Full)
  BY SameCounters, Zenon DEF Acquire, Goto, pipe
<1>t. pc \in [Proc -> Labels]
  BY Zenon DEF IInv, TypeOK
<1> USE Basics DEF IInv, Acquire, Goto, pipe, args
<1>1. TypeOK'
  BY <1>0, Zenon DEF TypeOK, Labels, WLabels, RLabels, CloseLabel
<1>2. Held'
  BY <1>0, Zenon DEF Held, TypeOK, Inside
<1>3. Descriptors'
  BY <1>0, Zenon DEF Descriptors, TypeOK, WLabels, RLabels
<1>4. Ends'
  <2>1. \A q \in Proc :
    (pc'[q] = "close_r" <=> pc[q] = "close_r") /\ (pc'[q] = "close_w" <=> pc[q] = "close_w")
    BY <1>t, Zenon
  <2> QED  BY <2>1, EndsFrame, Zenon
<1>5. InRing'
  BY <1>0, Zenon DEF InRing
<1>6. Caused'
  <2>1. KilledWriter => KilledWriter'
    BY Zenon DEF KilledWriter, TypeOK
  <2>2. \A q \in Proc :
          pc'[q] \in {"r_asleep", "w_asleep", "r_sleep", "w_sleep"} => pc'[q] = pc[q]
    BY <1>t, Zenon
  <2>3. \A q \in Proc : pc[q] \in {"w_loop", "r_copy", "r_fault"} => pc'[q] = pc[q]
    BY <1>t, Zenon
  <2> QED  BY <2>1, <2>2, <2>3, CausedFrame, Zenon
<1>7. Copying'
  BY <1>0, Zenon DEF Copying, TypeOK
<1> QED  BY <1>1, <1>2, <1>3, <1>4, <1>5, <1>6, <1>7, Zenon

(* pipewrite() finds the pipe full. *)
LEMMA WriteFullInv ==
  ASSUME IInv, NEW p \in Proc, WriteFull(p)
  PROVE  IInv'
<1>t. pc \in [Proc -> Labels]
  BY Zenon DEF IInv, TypeOK
<1> USE Basics DEF IInv
<1>1. CASE readopen = 0 \/ killed[p] = 1
  <2>0. /\ pc[p] = "w_loop" /\ (readopen = 0 \/ killed[p] = 1)
        /\ lock' = None /\ pc' = [pc EXCEPT ![p] = "user"]
        /\ n' = [n EXCEPT ![p] = 0] /\ i' = [i EXCEPT ![p] = 0]
        /\ UNCHANGED <<data, nread, nwrite, readopen, writeopen, freed, fds, killed, ch, eof>>
    BY <1>1, Zenon DEF WriteFull, Return, Goto, WakeReaders, Wakeup, pipe, args
  <2>1. Count' = Count /\ (Empty' <=> Empty) /\ (Full' <=> Full)
    BY <2>0, SameCounters, Zenon
  <2>2. TypeOK'
    BY <1>1, <2>0, <2>1, Zenon DEF TypeOK, Labels, WLabels, RLabels, CloseLabel
  <2>3. Held'
    BY <1>1, <2>0, <2>1, Zenon DEF Held, TypeOK, Inside
  <2>4. Descriptors'
    BY <1>1, <2>0, <2>1, Zenon DEF Descriptors, TypeOK, WLabels, RLabels
  <2>5. Ends'
    <3>1. \A q \in Proc :
    (pc'[q] = "close_r" <=> pc[q] = "close_r") /\ (pc'[q] = "close_w" <=> pc[q] = "close_w")
      BY <2>0, <1>t, Zenon
    <3> QED  BY <2>0, <3>1, EndsFrame, Zenon
  <2>6. InRing'
    BY <1>1, <2>0, <2>1, Zenon DEF InRing
  <2>7. Caused'
    <3>1. readopen = 0 => \A q \in Proc : pc[q] # "r_asleep"
      BY DEF Descriptors, RLabels, Ends, EndOpen
    <3>2. killed[p] = 1 => KilledWriter'
      BY <2>0, Zenon DEF Descriptors, WLabels, KilledWriter
    <3> QED  BY <1>1, <2>0, <2>1, <3>1, <3>2, Zenon DEF Caused, KilledWriter, TypeOK, Held, Inside
  <2>8. Copying'
    BY <1>1, <2>0, <2>1, Zenon DEF Copying, TypeOK
  <2> QED  BY <2>2, <2>3, <2>4, <2>5, <2>6, <2>7, <2>8, Zenon
<1>2. CASE ~(readopen = 0 \/ killed[p] = 1)
  <2>0. /\ pc[p] = "w_loop" /\ Full /\ readopen # 0
        /\ pc' = [[q \in Proc |-> IF pc[q] = "r_asleep" THEN "r_acquire" ELSE pc[q]] EXCEPT ![p] = "w_sleep"]
        /\ UNCHANGED <<data, nread, nwrite, readopen, writeopen, freed, lock, fds, killed, n, i, ch, eof>>
    BY <1>2, Zenon DEF WriteFull, Return, Goto, WakeReaders, Wakeup, pipe, args
  <2>1. Count' = Count /\ (Empty' <=> Empty) /\ (Full' <=> Full)
    BY <2>0, SameCounters, Zenon
  <2>2. TypeOK'
    BY <1>2, <2>0, <2>1, Zenon DEF TypeOK, Labels, WLabels, RLabels, CloseLabel
  <2>3. Held'
    BY <1>2, <2>0, <2>1, Zenon DEF Held, TypeOK, Inside
  <2>4. Descriptors'
    BY <1>2, <2>0, <2>1, Zenon DEF Descriptors, TypeOK, WLabels, RLabels
  <2>5. Ends'
    <3>1. \A q \in Proc :
    (pc'[q] = "close_r" <=> pc[q] = "close_r") /\ (pc'[q] = "close_w" <=> pc[q] = "close_w")
      BY <2>0, <1>t, Zenon
    <3> QED  BY <2>0, <3>1, EndsFrame, Zenon
  <2>6. InRing'
    BY <1>2, <2>0, <2>1, Zenon DEF InRing
  <2>7. Caused'
    BY <1>2, <2>0, <2>1, Zenon DEF Caused, KilledWriter, TypeOK, Held, Inside
  <2>8. Copying'
    BY <1>2, <2>0, <2>1, Zenon DEF Copying, TypeOK
  <2> QED  BY <2>2, <2>3, <2>4, <2>5, <2>6, <2>7, <2>8, Zenon
<1> QED  BY <1>1, <1>2, Zenon

(* sleep(). *)
LEMMA SleepInv ==
  ASSUME IInv, NEW p \in Proc, Sleep(p)
  PROVE  IInv'
<1>0. Count' = Count /\ (Empty' <=> Empty) /\ (Full' <=> Full)
  BY SameCounters, Zenon DEF Sleep, Goto, pipe
<1>t. pc \in [Proc -> Labels]
  BY Zenon DEF IInv, TypeOK
<1> USE Basics DEF IInv, Sleep, Goto, pipe, args
<1>1. TypeOK'
  BY <1>0, Zenon DEF TypeOK, Labels, WLabels, RLabels, CloseLabel
<1>2. Held'
  BY <1>0, Zenon DEF Held, TypeOK, Inside
<1>3. Descriptors'
  BY <1>0, Zenon DEF Descriptors, TypeOK, WLabels, RLabels
<1>4. Ends'
  <2>1. \A q \in Proc :
    (pc'[q] = "close_r" <=> pc[q] = "close_r") /\ (pc'[q] = "close_w" <=> pc[q] = "close_w")
    BY <1>t, Zenon
  <2> QED  BY <2>1, EndsFrame, Zenon
<1>5. InRing'
  BY <1>0, Zenon DEF InRing
<1>6. Caused'
  BY <1>0, Zenon DEF Caused, KilledWriter, TypeOK, Held, Inside
<1>7. Copying'
  BY <1>0, Zenon DEF Copying, TypeOK
<1> QED  BY <1>1, <1>2, <1>3, <1>4, <1>5, <1>6, <1>7, Zenon

(* pipewrite() returns. *)
LEMMA WriteEndInv ==
  ASSUME IInv, NEW p \in Proc, WriteEnd(p)
  PROVE  IInv'
<1>0. Count' = Count /\ (Empty' <=> Empty) /\ (Full' <=> Full)
  BY SameCounters, Zenon DEF WriteEnd, Return, WakeReaders, Wakeup, pipe
<1>t. pc \in [Proc -> Labels]
  BY Zenon DEF IInv, TypeOK
<1> USE Basics DEF IInv, WriteEnd, Return, WakeReaders, Wakeup, pipe, args
<1>1. TypeOK'
  BY <1>0, Zenon DEF TypeOK, Labels, WLabels, RLabels, CloseLabel
<1>2. Held'
  BY <1>0, Zenon DEF Held, TypeOK, Inside
<1>3. Descriptors'
  BY <1>0, Zenon DEF Descriptors, TypeOK, WLabels, RLabels
<1>4. Ends'
  <2>1. \A q \in Proc :
    (pc'[q] = "close_r" <=> pc[q] = "close_r") /\ (pc'[q] = "close_w" <=> pc[q] = "close_w")
    BY <1>t, Zenon
  <2> QED  BY <2>1, EndsFrame, Zenon
<1>5. InRing'
  BY <1>0, Zenon DEF InRing
<1>6. Caused'
  BY <1>0, Zenon DEF Caused, KilledWriter, TypeOK, Held, Inside
<1>7. Copying'
  BY <1>0, Zenon DEF Copying, TypeOK
<1> QED  BY <1>1, <1>2, <1>3, <1>4, <1>5, <1>6, <1>7, Zenon

(* The loop of piperead(). *)
LEMMA ReadTestInv ==
  ASSUME IInv, NEW p \in Proc, ReadTest(p)
  PROVE  IInv'
<1>t. pc \in [Proc -> Labels]
  BY Zenon DEF IInv, TypeOK
<1> USE Basics DEF IInv
<1>1. CASE Empty /\ writeopen = 1 /\ killed[p] = 1
  <2>0. /\ pc[p] = "r_loop"
        /\ lock' = None /\ pc' = [pc EXCEPT ![p] = "user"]
        /\ n' = [n EXCEPT ![p] = 0] /\ i' = [i EXCEPT ![p] = 0]
        /\ UNCHANGED <<data, nread, nwrite, readopen, writeopen, freed, fds, killed, ch, eof>>
    BY <1>1, Zenon DEF ReadTest, Return, Goto, pipe, args
  <2>1. Count' = Count /\ (Empty' <=> Empty) /\ (Full' <=> Full)
    BY <2>0, SameCounters, Zenon
  <2>2. TypeOK'
    BY <1>1, <2>0, <2>1, Zenon DEF TypeOK, Labels, WLabels, RLabels, CloseLabel
  <2>3. Held'
    BY <1>1, <2>0, <2>1, Zenon DEF Held, TypeOK, Inside
  <2>4. Descriptors'
    BY <1>1, <2>0, <2>1, Zenon DEF Descriptors, TypeOK, WLabels, RLabels
  <2>5. Ends'
    <3>1. \A q \in Proc :
    (pc'[q] = "close_r" <=> pc[q] = "close_r") /\ (pc'[q] = "close_w" <=> pc[q] = "close_w")
      BY <2>0, <1>t, Zenon
    <3> QED  BY <2>0, <3>1, EndsFrame, Zenon
  <2>6. InRing'
    BY <1>1, <2>0, <2>1, Zenon DEF InRing
  <2>7. Caused'
    BY <1>1, <2>0, <2>1, Zenon DEF Caused, KilledWriter, TypeOK, Held, Inside
  <2>8. Copying'
    BY <1>1, <2>0, <2>1, Zenon DEF Copying, TypeOK
  <2> QED  BY <2>2, <2>3, <2>4, <2>5, <2>6, <2>7, <2>8, Zenon
<1>2. CASE Empty /\ writeopen = 1 /\ killed[p] # 1
  <2>0. /\ pc[p] = "r_loop" /\ Empty /\ writeopen = 1
        /\ pc' = [pc EXCEPT ![p] = "r_sleep"]
        /\ UNCHANGED <<data, nread, nwrite, readopen, writeopen, freed, lock, fds, killed, n, i, ch, eof>>
    BY <1>2, Zenon DEF ReadTest, Return, Goto, pipe, args
  <2>1. Count' = Count /\ (Empty' <=> Empty) /\ (Full' <=> Full)
    BY <2>0, SameCounters, Zenon
  <2>2. TypeOK'
    BY <1>2, <2>0, <2>1, Zenon DEF TypeOK, Labels, WLabels, RLabels, CloseLabel
  <2>3. Held'
    BY <1>2, <2>0, <2>1, Zenon DEF Held, TypeOK, Inside
  <2>4. Descriptors'
    BY <1>2, <2>0, <2>1, Zenon DEF Descriptors, TypeOK, WLabels, RLabels
  <2>5. Ends'
    <3>1. \A q \in Proc :
    (pc'[q] = "close_r" <=> pc[q] = "close_r") /\ (pc'[q] = "close_w" <=> pc[q] = "close_w")
      BY <2>0, <1>t, Zenon
    <3> QED  BY <2>0, <3>1, EndsFrame, Zenon
  <2>6. InRing'
    BY <1>2, <2>0, <2>1, Zenon DEF InRing
  <2>7. Caused'
    BY <1>2, <2>0, <2>1, Zenon DEF Caused, KilledWriter, TypeOK, Held, Inside
  <2>8. Copying'
    BY <1>2, <2>0, <2>1, Zenon DEF Copying, TypeOK
  <2> QED  BY <2>2, <2>3, <2>4, <2>5, <2>6, <2>7, <2>8, Zenon
<1>3. CASE ~(Empty /\ writeopen = 1)
  <2>0. /\ pc[p] = "r_loop" /\ ~(Empty /\ writeopen = 1)
        /\ pc' = [pc EXCEPT ![p] = "r_copy"]
        /\ UNCHANGED <<data, nread, nwrite, readopen, writeopen, freed, lock, fds, killed, n, i, ch, eof>>
    BY <1>3, Zenon DEF ReadTest, Return, Goto, pipe, args
  <2>1. Count' = Count /\ (Empty' <=> Empty) /\ (Full' <=> Full)
    BY <2>0, SameCounters, Zenon
  <2>2. TypeOK'
    BY <1>3, <2>0, <2>1, Zenon DEF TypeOK, Labels, WLabels, RLabels, CloseLabel
  <2>3. Held'
    BY <1>3, <2>0, <2>1, Zenon DEF Held, TypeOK, Inside
  <2>4. Descriptors'
    BY <1>3, <2>0, <2>1, Zenon DEF Descriptors, TypeOK, WLabels, RLabels
  <2>5. Ends'
    <3>1. \A q \in Proc :
    (pc'[q] = "close_r" <=> pc[q] = "close_r") /\ (pc'[q] = "close_w" <=> pc[q] = "close_w")
      BY <2>0, <1>t, Zenon
    <3> QED  BY <2>0, <3>1, EndsFrame, Zenon
  <2>6. InRing'
    BY <1>3, <2>0, <2>1, Zenon DEF InRing
  <2>7. Caused'
    BY <1>3, <2>0, <2>1, Zenon DEF Caused, KilledWriter, TypeOK, Held, Inside
  <2>8. Copying'
    BY <1>3, <2>0, <2>1, Zenon DEF Copying, TypeOK
  <2> QED  BY <2>2, <2>3, <2>4, <2>5, <2>6, <2>7, <2>8, Zenon
<1> QED  BY <1>1, <1>2, <1>3, Zenon

(* piperead() returns. *)
LEMMA ReadEndInv ==
  ASSUME IInv, NEW p \in Proc, ReadEnd(p)
  PROVE  IInv'
<1>0. Count' = Count /\ (Empty' <=> Empty) /\ (Full' <=> Full)
  BY SameCounters, Zenon DEF ReadEnd, Return, WakeWriters, Wakeup, pipe
<1>t. pc \in [Proc -> Labels]
  BY Zenon DEF IInv, TypeOK
<1> USE Basics DEF IInv, ReadEnd, Return, WakeWriters, Wakeup, pipe, args
<1>1. TypeOK'
  BY <1>0, Zenon DEF TypeOK, Labels, WLabels, RLabels, CloseLabel
<1>2. Held'
  BY <1>0, Zenon DEF Held, TypeOK, Inside
<1>3. Descriptors'
  BY <1>0, Zenon DEF Descriptors, TypeOK, WLabels, RLabels
<1>4. Ends'
  <2>1. \A q \in Proc :
    (pc'[q] = "close_r" <=> pc[q] = "close_r") /\ (pc'[q] = "close_w" <=> pc[q] = "close_w")
    BY <1>t, Zenon
  <2> QED  BY <2>1, EndsFrame, Zenon
<1>5. InRing'
  BY <1>0, Zenon DEF InRing
<1>6. Caused'
  BY <1>0, Zenon DEF Caused, KilledWriter, TypeOK, Held, Inside
<1>7. Copying'
  BY <1>0, Zenon DEF Copying, TypeOK
<1> QED  BY <1>1, <1>2, <1>3, <1>4, <1>5, <1>6, <1>7, Zenon

(* close() and exit(). *)
LEMMA CloseInv ==
  ASSUME IInv, NEW p \in Proc, NEW end \in {"r", "w"}, Close(p, end)
  PROVE  IInv'
<1>t. pc \in [Proc -> Labels]
  BY Zenon DEF IInv, TypeOK
<1> USE Basics DEF IInv
<1>1. CASE \E q \in Proc \ {p} : end \in fds[q]
  <2>0. /\ pc[p] = "user" /\ end \in fds[p]
        /\ fds' = [fds EXCEPT ![p] = @ \ {end}]
        /\ UNCHANGED <<data, nread, nwrite, readopen, writeopen, freed, lock, killed, pc, n, i, ch, eof>>
    BY <1>1, Zenon DEF Close, Goto, CloseLabel, pipe, args, TypeOK
  <2>1. Count' = Count /\ (Empty' <=> Empty) /\ (Full' <=> Full)
    BY <2>0, SameCounters, Zenon
  <2>2. TypeOK'
    BY <1>1, <2>0, <2>1, Zenon DEF TypeOK, Labels, WLabels, RLabels, CloseLabel
  <2>3. Held'
    BY <1>1, <2>0, <2>1, Zenon DEF Held, TypeOK, Inside
  <2>4. Descriptors'
    BY <1>1, <2>0, <2>1, Zenon DEF Descriptors, TypeOK, WLabels, RLabels
  <2>5. Ends'
    BY <1>1, <2>0, <2>1 DEF Ends, EndOpen, CloseLabel, TypeOK
  <2>6. InRing'
    BY <1>1, <2>0, <2>1, Zenon DEF InRing
  <2>7. Caused'
    <3>1. KilledWriter => KilledWriter'
      BY <2>0, Zenon DEF KilledWriter
    <3>2. \A q \in Proc :
            pc'[q] \in {"r_asleep", "w_asleep", "r_sleep", "w_sleep"} => pc'[q] = pc[q]
      BY <2>0, <1>t, Zenon
    <3>3. \A q \in Proc : pc[q] \in {"w_loop", "r_copy", "r_fault"} => pc'[q] = pc[q]
      BY <2>0, <1>t, Zenon
    <3> QED  BY <2>0, <3>1, <3>2, <3>3, CausedFrame, Zenon
  <2>8. Copying'
    BY <1>1, <2>0, <2>1, Zenon DEF Copying, TypeOK
  <2> QED  BY <2>2, <2>3, <2>4, <2>5, <2>6, <2>7, <2>8, Zenon
<1>2. CASE ~\E q \in Proc \ {p} : end \in fds[q]
  <2>0. /\ pc[p] = "user" /\ end \in fds[p]
        /\ fds' = [fds EXCEPT ![p] = @ \ {end}]
        /\ pc' = [pc EXCEPT ![p] = IF end = "r" THEN "close_r" ELSE "close_w"]
        /\ UNCHANGED <<data, nread, nwrite, readopen, writeopen, freed, lock, killed, n, i, ch, eof>>
    BY <1>2, Zenon DEF Close, Goto, CloseLabel, pipe, args, TypeOK
  <2>1. Count' = Count /\ (Empty' <=> Empty) /\ (Full' <=> Full)
    BY <2>0, SameCounters, Zenon
  <2>2. TypeOK'
    BY <1>2, <2>0, <2>1, Zenon DEF TypeOK, Labels, WLabels, RLabels, CloseLabel
  <2>3. Held'
    BY <1>2, <2>0, <2>1, Zenon DEF Held, TypeOK, Inside
  <2>4. Descriptors'
    BY <1>2, <2>0, <2>1, Zenon DEF Descriptors, TypeOK, WLabels, RLabels
  <2>5. Ends'
    BY <1>2, <2>0, <2>1 DEF Ends, EndOpen, CloseLabel, TypeOK
  <2>6. InRing'
    BY <1>2, <2>0, <2>1, Zenon DEF InRing
  <2>7. Caused'
    <3>1. KilledWriter => KilledWriter'
      BY <2>0, Zenon DEF KilledWriter
    <3>2. \A q \in Proc :
            pc'[q] \in {"r_asleep", "w_asleep", "r_sleep", "w_sleep"} => pc'[q] = pc[q]
      BY <2>0, <1>t, Zenon
    <3>3. \A q \in Proc : pc[q] \in {"w_loop", "r_copy", "r_fault"} => pc'[q] = pc[q]
      BY <2>0, <1>t, Zenon
    <3> QED  BY <2>0, <3>1, <3>2, <3>3, CausedFrame, Zenon
  <2>8. Copying'
    BY <1>2, <2>0, <2>1, Zenon DEF Copying, TypeOK
  <2> QED  BY <2>2, <2>3, <2>4, <2>5, <2>6, <2>7, <2>8, Zenon
<1> QED  BY <1>1, <1>2, Zenon

(* pipeclose(). *)
LEMMA PipeCloseInv ==
  ASSUME IInv, NEW p \in Proc, PipeClose(p)
  PROVE  IInv'
<1>t. pc \in [Proc -> Labels]
  BY Zenon DEF IInv, TypeOK
<1> USE Basics DEF IInv
<1>1. CASE pc[p] = "close_w"
  <2>0. /\ writeopen' = 0 /\ readopen' = readopen
        /\ pc' = [[q \in Proc |-> IF pc[q] = "r_asleep" THEN "r_acquire" ELSE pc[q]] EXCEPT ![p] = "user"]
        /\ freed' = IF readopen = 0 THEN 1 ELSE freed
        /\ lock = None
        /\ UNCHANGED <<data, nread, nwrite, lock, fds, killed, n, i, ch, eof>>
    BY <1>1, Zenon DEF PipeClose, WakeReaders, WakeWriters, Wakeup, args
  <2>1. Count' = Count /\ (Empty' <=> Empty) /\ (Full' <=> Full)
    BY <2>0, SameCounters, Zenon
  <2>2. TypeOK'
    BY <1>1, <2>0, <2>1, Zenon DEF TypeOK, Labels, WLabels, RLabels, CloseLabel
  <2>3. Held'
    BY <1>1, <2>0, <2>1, Zenon DEF Held, TypeOK, Inside
  <2>4. Descriptors'
    BY <1>1, <2>0, <2>1, Zenon DEF Descriptors, TypeOK, WLabels, RLabels
  <2>5. Ends'
    <3>1. \A q \in Proc : "w" \notin fds[q] /\ (pc[q] = "close_w" => q = p)
      BY <1>1, Zenon DEF Ends, EndOpen, CloseLabel
    <3>2. \A q \in Proc : pc'[q] # "close_w" /\ (pc'[q] = "close_r" <=> pc[q] = "close_r")
      BY <1>1, <2>0, <3>1, Zenon DEF TypeOK
    <3>3. EndOpen("w", writeopen)'
      <4>1. writeopen' = 0 /\ fds' = fds
        BY <2>0, Zenon
      <4> QED  BY <3>1, <3>2, <4>1 DEF EndOpen, CloseLabel
    <3>4. EndOpen("r", readopen)'
      BY <2>0, <3>2, Zenon DEF Ends, EndOpen, CloseLabel
    <3>5. writeopen \in {0, 1} /\ readopen \in {0, 1} /\ freed \in {0, 1} /\ writeopen = 1
      BY <1>1, Zenon DEF TypeOK, Ends, EndOpen, CloseLabel
    <3> QED  BY <2>0, <3>3, <3>4, <3>5, Zenon DEF Ends
  <2>6. InRing'
    BY <1>1, <2>0, <2>1, Zenon DEF InRing
  <2>7. Caused'
    BY <1>1, <2>0, <2>1, Zenon DEF Caused, KilledWriter, TypeOK, Held, Inside
  <2>8. Copying'
    BY <1>1, <2>0, <2>1, Zenon DEF Copying, TypeOK
  <2> QED  BY <2>2, <2>3, <2>4, <2>5, <2>6, <2>7, <2>8, Zenon
<1>2. CASE pc[p] = "close_r"
  <2>0. /\ readopen' = 0 /\ writeopen' = writeopen
        /\ pc' = [[q \in Proc |-> IF pc[q] = "w_asleep" THEN "w_acquire" ELSE pc[q]] EXCEPT ![p] = "user"]
        /\ freed' = IF writeopen = 0 THEN 1 ELSE freed
        /\ lock = None
        /\ UNCHANGED <<data, nread, nwrite, lock, fds, killed, n, i, ch, eof>>
    BY <1>2, Zenon DEF PipeClose, WakeReaders, WakeWriters, Wakeup, args
  <2>1. Count' = Count /\ (Empty' <=> Empty) /\ (Full' <=> Full)
    BY <2>0, SameCounters, Zenon
  <2>2. TypeOK'
    BY <1>2, <2>0, <2>1, Zenon DEF TypeOK, Labels, WLabels, RLabels, CloseLabel
  <2>3. Held'
    BY <1>2, <2>0, <2>1, Zenon DEF Held, TypeOK, Inside
  <2>4. Descriptors'
    BY <1>2, <2>0, <2>1, Zenon DEF Descriptors, TypeOK, WLabels, RLabels
  <2>5. Ends'
    <3>1. \A q \in Proc : "r" \notin fds[q] /\ (pc[q] = "close_r" => q = p)
      BY <1>2, Zenon DEF Ends, EndOpen, CloseLabel
    <3>2. \A q \in Proc : pc'[q] # "close_r" /\ (pc'[q] = "close_w" <=> pc[q] = "close_w")
      BY <1>2, <2>0, <3>1, Zenon DEF TypeOK
    <3>3. EndOpen("r", readopen)'
      <4>1. readopen' = 0 /\ fds' = fds
        BY <2>0, Zenon
      <4> QED  BY <3>1, <3>2, <4>1 DEF EndOpen, CloseLabel
    <3>4. EndOpen("w", writeopen)'
      BY <2>0, <3>2, Zenon DEF Ends, EndOpen, CloseLabel
    <3>5. writeopen \in {0, 1} /\ readopen \in {0, 1} /\ freed \in {0, 1} /\ readopen = 1
      BY <1>2, Zenon DEF TypeOK, Ends, EndOpen, CloseLabel
    <3> QED  BY <2>0, <3>3, <3>4, <3>5, Zenon DEF Ends
  <2>6. InRing'
    BY <1>2, <2>0, <2>1, Zenon DEF InRing
  <2>7. Caused'
    BY <1>2, <2>0, <2>1, Zenon DEF Caused, KilledWriter, TypeOK, Held, Inside
  <2>8. Copying'
    BY <1>2, <2>0, <2>1, Zenon DEF Copying, TypeOK
  <2> QED  BY <2>2, <2>3, <2>4, <2>5, <2>6, <2>7, <2>8, Zenon
<1> QED  BY <1>1, <1>2, Zenon DEF PipeClose

(* kill(). *)
LEMMA KillInv ==
  ASSUME IInv, NEW p \in Proc, Kill(p)
  PROVE  IInv'
<1>0. Count' = Count /\ (Empty' <=> Empty) /\ (Full' <=> Full)
  BY SameCounters, Zenon DEF Kill, Goto, pipe
<1>t. pc \in [Proc -> Labels]
  BY Zenon DEF IInv, TypeOK
<1> USE Basics DEF IInv, Kill, Goto, pipe, args
<1>1. TypeOK'
  BY <1>0, Zenon DEF TypeOK, Labels, WLabels, RLabels, CloseLabel
<1>2. Held'
  BY <1>0, Zenon DEF Held, TypeOK, Inside
<1>3. Descriptors'
  BY <1>0, Zenon DEF Descriptors, TypeOK, WLabels, RLabels
<1>4. Ends'
  <2>1. \A q \in Proc :
    (pc'[q] = "close_r" <=> pc[q] = "close_r") /\ (pc'[q] = "close_w" <=> pc[q] = "close_w")
    BY <1>t, Zenon
  <2> QED  BY <2>1, EndsFrame, Zenon
<1>5. InRing'
  BY <1>0, Zenon DEF InRing
<1>6. Caused'
  <2>1. KilledWriter => KilledWriter'
    BY Zenon DEF KilledWriter, TypeOK
  <2>2. \A q \in Proc :
          pc'[q] \in {"r_asleep", "w_asleep", "r_sleep", "w_sleep"} => pc'[q] = pc[q]
    BY <1>t, Zenon
  <2>3. \A q \in Proc : pc[q] \in {"w_loop", "r_copy", "r_fault"} => pc'[q] = pc[q]
    BY <1>t, Zenon
  <2> QED  BY <2>1, <2>2, <2>3, CausedFrame, Zenon
<1>7. Copying'
  BY <1>0, Zenon DEF Copying, TypeOK
<1> QED  BY <1>1, <1>2, <1>3, <1>4, <1>5, <1>6, <1>7, Zenon

(* A byte goes in: nobody sleeps for want of room, since there was room. *)
LEMMA WriteByteInv ==
  ASSUME IInv, NEW p \in Proc, NEW b \in Byte, WriteByte(p, b)
  PROVE  IInv'
<1> USE DEF IInv
<1>0. /\ pc[p] = "w_loop" /\ ~Full
      /\ data' = [data EXCEPT ![nwrite % PIPESIZE] = b]
      /\ nwrite' = (nwrite + 1) % UINT
      /\ i' = [i EXCEPT ![p] = @ + 1]
      /\ UNCHANGED <<nread, readopen, writeopen, freed, lock, fds, killed, pc, n, ch, eof>>
  BY Zenon DEF WriteByte
<1>1. Count' <= PIPESIZE /\ nwrite' \in 0..UINT - 1
  BY <1>0, OneMore, Zenon
<1>2. TypeOK'
  <2>1. data' \in [0..PIPESIZE - 1 -> Byte]
    BY <1>0, Zenon DEF TypeOK
  <2>2. i' \in [Proc -> Nat]
    BY <1>0 DEF TypeOK
  <2> QED  BY <1>0, <1>1, <2>1, <2>2, Zenon DEF TypeOK
<1>3. Held' /\ Descriptors' /\ Ends'
  BY <1>0, Zenon DEF Held, Descriptors, Ends, EndOpen, CloseLabel
<1>4. \A q \in Proc : pc[q] \in Inside => q = p
  BY <1>0, PipeAssumption, Zenon DEF Held, Inside
<1>5. Caused'
  BY <1>0, <1>4, Zenon DEF Caused, KilledWriter, Inside
<1>6. Copying'
  BY <1>0, <1>4, Zenon DEF Copying, Inside
<1> QED  BY <1>1, <1>2, <1>3, <1>5, <1>6, Zenon DEF InRing

(* A byte comes out: nobody sleeps for want of bytes unless a killed       *)
(* writer left it asleep, since there was a byte.                          *)
LEMMA ReadByteInv ==
  ASSUME IInv, NEW p \in Proc, ReadByte(p)
  PROVE  IInv'
<1> USE DEF IInv
<1>0. /\ pc[p] = "r_copy" /\ ~Empty
      /\ ch' = [ch EXCEPT ![p] = data[nread % PIPESIZE]]
      /\ nread' = (nread + 1) % UINT
      /\ \/ i' = [i EXCEPT ![p] = @ + 1] /\ pc' = pc
         \/ i' = i /\ pc' = [pc EXCEPT ![p] = "r_fault"]
      /\ UNCHANGED <<data, nwrite, readopen, writeopen, freed, lock, fds, killed, n, eof>>
  BY Zenon DEF ReadByte, Goto
<1>1. Count' < PIPESIZE /\ nread' \in 0..UINT - 1
  BY <1>0, OneLess, Zenon
<1>2. TypeOK'
  <2>1. nread % PIPESIZE \in 0..PIPESIZE - 1
    BY DivMod, PipeAssumption DEF TypeOK
  <2>2. data[nread % PIPESIZE] \in Byte
    BY <2>1, Zenon DEF TypeOK
  <2>3. ch' \in [Proc -> Byte]
    BY <1>0, <2>2, Zenon DEF TypeOK
  <2>4. i' \in [Proc -> Nat]
    <3>1. CASE i' = [i EXCEPT ![p] = @ + 1]
      BY <3>1 DEF TypeOK
    <3>2. CASE i' = i
      BY <3>2, Zenon DEF TypeOK
    <3> QED  BY <1>0, <3>1, <3>2, Zenon
  <2>5. "r_fault" \in Labels
    BY Zenon DEF Labels, RLabels
  <2>6. pc' \in [Proc -> Labels]
    BY <1>0, <2>5, Zenon DEF TypeOK
  <2> QED  BY <1>0, <1>1, <2>3, <2>4, <2>6, Zenon DEF TypeOK
<1>3. /\ \A q \in Proc \ {p} : pc'[q] = pc[q] /\ pc[q] \notin Inside
      /\ pc'[p] \in {"r_copy", "r_fault"}
  BY <1>0, PipeAssumption DEF Held, Inside, TypeOK
<1>4. Held'
  BY <1>0, <1>3, Zenon DEF Held, Inside
<1>5. Descriptors'
  BY <1>0, <1>3, Zenon DEF Descriptors, RLabels, WLabels
<1>6. Ends'
  <2>1. \A q \in Proc :
    (pc'[q] = "close_r" <=> pc[q] = "close_r") /\ (pc'[q] = "close_w" <=> pc[q] = "close_w")
    BY <1>0, <1>3, Zenon
  <2> QED  BY <1>0, <2>1 DEF Ends, EndOpen, CloseLabel
<1>7. Caused'
  BY <1>0, <1>3, Zenon DEF Caused, KilledWriter, Inside
<1>8. Copying'
  BY <1>0, <1>3 DEF Copying, Inside, TypeOK
<1>9. InRing'
  <2>1. Count' \in Int
    BY <1>0, <1>2, OneLess, Counters, PipeAssumption
  <2> QED  BY <1>1, <2>1, PipeAssumption DEF InRing
<1> QED  BY <1>2, <1>4, <1>5, <1>6, <1>7, <1>8, <1>9, Zenon

(* A new pipe is as it should be. *)
LEMMA InitInv == Init => IInv
<1> SUFFICES ASSUME Init PROVE IInv
  BY Zenon
<1>1. TypeOK
  BY PipeAssumption DEF Init, TypeOK, Labels
<1>2. InRing
  BY <1>1, Counters, PipeAssumption DEF Init, Empty, InRing
<1>3. Held /\ Descriptors /\ Caused /\ Copying
  BY PipeAssumption, Zenon DEF Init, Held, Inside, Descriptors, WLabels, RLabels, Caused, Copying
<1>4. Ends
  BY PipeAssumption, Zenon DEF Init, Ends, EndOpen, CloseLabel
<1> QED  BY <1>1, <1>2, <1>3, <1>4, Zenon DEF IInv

(* Every step of every process keeps the invariant. *)
LEMMA NextInv == IInv /\ [Next]_vars => IInv'
<1> SUFFICES ASSUME IInv, [Next]_vars PROVE IInv'
  BY Zenon
<1>1. ASSUME NEW p \in Proc, Kernel(p)
      PROVE  IInv'
  BY <1>1, AcquireInv, SleepInv, WriteFullInv, WriteEndInv, WriteByteInv, ReadTestInv,
     ReadByteInv, ReadEndInv, PipeCloseInv, Zenon DEF Kernel
<1>2. ASSUME NEW p \in Proc, User(p)
      PROVE  IInv'
  <2>1. CASE Write(p)
    BY <2>1, CallInv, Zenon DEF Write
  <2>2. CASE Read(p)
    BY <2>2, CallInv, Zenon DEF Read
  <2>3. ASSUME NEW end \in {"r", "w"}, Close(p, end)
        PROVE  IInv'
    BY <2>3, CloseInv, Zenon
  <2> QED  BY <1>2, <2>1, <2>2, <2>3, Zenon DEF User
<1>3. ASSUME NEW p \in Proc, Kill(p)
      PROVE  IInv'
  BY <1>3, KillInv, Zenon
<1>4. CASE UNCHANGED vars
  <2>1. Count' = Count /\ (Empty' <=> Empty) /\ (Full' <=> Full)
    BY <1>4, SameCounters, Zenon DEF vars, pipe
  <2>2. TypeOK' /\ Held' /\ Descriptors' /\ Ends'
    BY <1>4, Zenon DEF vars, pipe, args, IInv, TypeOK, Held, Descriptors, Ends, EndOpen, CloseLabel
  <2>3. InRing' /\ Caused' /\ Copying'
    BY <1>4, <2>1, Zenon DEF vars, pipe, args, IInv, InRing, Caused, Copying, KilledWriter
  <2> QED  BY <2>2, <2>3, Zenon DEF IInv
<1> QED  BY <1>1, <1>2, <1>3, <1>4, Zenon DEF Next

(* The invariant of the pipe. *)
THEOREM PipeInvariant == Spec => []IInv
BY InitInv, NextInv, PTL DEF Spec

(* Whoever sleeps in piperead() or pipewrite() has a reason to, whatever   *)
(* the processes, the sizes and the kills: no wakeup() is missing but the  *)
(* one of a killed writer that gives up on a full pipe.                    *)
THEOREM SleepsWithCause == Spec => []SleepWithCause
<1>1. IInv => SleepWithCause
  BY PipeAssumption, Zenon DEF IInv, SleepWithCause, Caused, Held, Inside
<1> QED  BY <1>1, PipeInvariant, PTL

(* kfree(pi) in pipeclose() comes after the last use of the pipe. *)
THEOREM FreedIsUnused == Spec => []FreedUnused
<1>1. ASSUME IInv, freed = 1, NEW p \in Proc
      PROVE  pc[p] = "user" /\ fds[p] = {}
  <2>1. readopen # 1 /\ writeopen # 1
    BY <1>1 DEF IInv, Ends
  <2>2. /\ "r" \notin fds[p] /\ "w" \notin fds[p]
        /\ pc[p] # "close_r" /\ pc[p] # "close_w"
    BY <2>1, <1>1, Zenon DEF IInv, Ends, EndOpen, CloseLabel
  <2>3. fds[p] = {}
    BY <1>1, <2>2, Zenon DEF IInv, TypeOK
  <2>4. pc[p] \notin WLabels /\ pc[p] \notin RLabels
    BY <1>1, <2>2, Zenon DEF IInv, Descriptors
  <2>5. pc[p] \in Labels
    BY <1>1, Zenon DEF IInv, TypeOK
  <2> QED  BY <2>2, <2>3, <2>4, <2>5, Zenon DEF Labels
<1>2. IInv => FreedUnused
  BY <1>1, Zenon DEF FreedUnused
<1> QED  BY <1>2, PipeInvariant, PTL
-----------------------------------------------------------------------------
(* The ring implements the queue of Fifo. *)

Queue == [k \in 1..Count |-> data[(nread + k - 1) % PIPESIZE]]
Open == (IF readopen = 1 THEN {"r"} ELSE {}) \cup (IF writeopen = 1 THEN {"w"} ELSE {})

(* Sequences as functions. *)
LEMMA SeqFacts ==
  ASSUME NEW S, NEW s \in Seq(S)
  PROVE  /\ Len(s) \in Nat /\ s \in [1..Len(s) -> S]
         /\ Len(s) = 0 => s = << >>
         /\ Len(s) # 0 => s # << >> /\ Head(s) = s[1]
OBVIOUS

(* The elements of Append. *)
LEMMA AppendFacts ==
  ASSUME NEW S, NEW s \in Seq(S), NEW x \in S
  PROVE  /\ Append(s, x) \in [1..Len(s) + 1 -> S]
         /\ \A k \in 1..Len(s) : Append(s, x)[k] = s[k]
         /\ Append(s, x)[Len(s) + 1] = x
<1>1. Append(s, x) \in Seq(S) /\ Len(Append(s, x)) = Len(s) + 1
  OBVIOUS
<1>2. Append(s, x) \in [1..Len(s) + 1 -> S]
  BY <1>1, SeqFacts, Zenon
<1>3. \A k \in 1..Len(s) : Append(s, x)[k] = s[k]
  OBVIOUS
<1>4. Append(s, x)[Len(s) + 1] = x
  OBVIOUS
<1> QED  BY <1>2, <1>3, <1>4, Zenon

(* The elements of Tail. *)
LEMMA TailFacts ==
  ASSUME NEW S, NEW s \in Seq(S), Len(s) # 0
  PROVE  Tail(s) = [k \in 1..Len(s) - 1 |-> s[k + 1]]
<1>1. Tail(s) \in Seq(S) /\ Len(Tail(s)) = Len(s) - 1
  OBVIOUS
<1>2. Tail(s) \in [1..Len(s) - 1 -> S]
  BY <1>1, SeqFacts, Zenon
<1>3. \A k \in 1..Len(s) - 1 : Tail(s)[k] = s[k + 1]
  OBVIOUS
<1> QED  BY <1>2, <1>3, Zenon

(* The bytes between nread and nwrite are a sequence of Count bytes. *)
LEMMA QueueIsSeq ==
  ASSUME IInv
  PROVE  Queue \in Seq(Byte) /\ Len(Queue) = Count
<1>1. Count \in Nat /\ nread \in Nat
  BY Counters, PipeAssumption DEF IInv, TypeOK
<1>2. ASSUME NEW k \in 1..Count
      PROVE  data[(nread + k - 1) % PIPESIZE] \in Byte
  <2>1. (nread + k - 1) % PIPESIZE \in 0..PIPESIZE - 1
    <3>1. nread + k - 1 \in Int
      BY <1>1
    <3> QED  BY <3>1, DivMod, PipeAssumption, Zenon
  <2> QED  BY <2>1, Zenon DEF IInv, TypeOK
<1> QED  BY <1>1, <1>2 DEF Queue

(* pi->data[pi->nwrite++ % PIPESIZE] = ch appends: the slot it writes is   *)
(* the one after the last, and none that holds a byte.                     *)
LEMMA PutQueue ==
  ASSUME IInv, NEW p \in Proc, NEW b \in Byte, WriteByte(p, b)
  PROVE  Queue' = Append(Queue, b) /\ Len(Queue) < PIPESIZE
<1>1. /\ ~Full /\ data' = [data EXCEPT ![nwrite % PIPESIZE] = b]
      /\ nwrite' = (nwrite + 1) % UINT /\ nread' = nread
  BY Zenon DEF WriteByte
<1>2. Count' = Count + 1 /\ Count' <= PIPESIZE
  BY <1>1, OneMore, Zenon DEF IInv
<1>3. Count \in Nat /\ nread \in Nat /\ PIPESIZE \in Nat \ {0}
  BY Counters, PipeAssumption DEF IInv, TypeOK
<1>4. nwrite % PIPESIZE = (nread + Count) % PIPESIZE
  BY WriteSlot, Zenon DEF IInv
<1>5. ASSUME NEW k \in 1..Count
      PROVE  data'[(nread + k - 1) % PIPESIZE] = data[(nread + k - 1) % PIPESIZE]
  <2>1. /\ nread + k - 1 \in Int /\ nread + Count \in Int
        /\ nread + k - 1 < nread + Count
        /\ nread + Count < nread + k - 1 + PIPESIZE
    BY <1>2, <1>3
  <2>2. (nread + k - 1) % PIPESIZE # (nread + Count) % PIPESIZE
    BY <1>3, <2>1, ModApart, Zenon
  <2>3. (nread + k - 1) % PIPESIZE \in 0..PIPESIZE - 1
    BY <1>3, <2>1, DivMod, Zenon
  <2> QED  BY <1>1, <1>4, <2>2, <2>3, Zenon DEF IInv, TypeOK
<1>6. data'[(nread + (Count + 1) - 1) % PIPESIZE] = b
  <2>1. nread + (Count + 1) - 1 = nread + Count
    BY <1>3
  <2>2. (nread + Count) % PIPESIZE \in 0..PIPESIZE - 1
    <3>1. nread + Count \in Int
      BY <1>3
    <3> QED  BY <1>3, <3>1, DivMod, Zenon
  <2> QED  BY <1>1, <1>4, <2>1, <2>2, Zenon DEF IInv, TypeOK
<1>7. Queue' = [k \in 1..Count + 1 |-> data'[(nread + k - 1) % PIPESIZE]]
  BY <1>1, <1>2 DEF Queue
<1>8. Queue \in Seq(Byte) /\ Len(Queue) = Count
  BY QueueIsSeq, Zenon
<1>9. /\ Append(Queue, b) \in [1..Count + 1 -> Byte]
      /\ \A k \in 1..Count : Append(Queue, b)[k] = Queue[k]
      /\ Append(Queue, b)[Count + 1] = b
  BY <1>8, AppendFacts
<1>10. ASSUME NEW k \in 1..Count + 1
       PROVE  data'[(nread + k - 1) % PIPESIZE] = Append(Queue, b)[k]
  <2>1. CASE k \in 1..Count
    BY <1>5, <1>9, <2>1, Zenon DEF Queue
  <2>2. CASE k \notin 1..Count
    <3>1. k = Count + 1
      BY <1>3, <2>2
    <3> QED  BY <1>6, <1>9, <3>1, Zenon
  <2> QED  BY <2>1, <2>2, Zenon
<1>11. Queue' = Append(Queue, b)
  BY <1>7, <1>9, <1>10, Zenon
<1> QED  BY <1>2, <1>3, <1>8, <1>11

(* ch = pi->data[pi->nread++ % PIPESIZE] takes the head. *)
LEMMA GetQueue ==
  ASSUME IInv, NEW p \in Proc, ReadByte(p)
  PROVE  /\ Queue # << >> /\ Queue' = Tail(Queue)
         /\ ch' = [ch EXCEPT ![p] = Head(Queue)]
<1>1. /\ ~Empty /\ ch' = [ch EXCEPT ![p] = data[nread % PIPESIZE]]
      /\ nread' = (nread + 1) % UINT /\ UNCHANGED <<data, nwrite>>
  BY Zenon DEF ReadByte
<1>2. Count' = Count - 1
  BY <1>1, OneLess, Zenon DEF IInv
<1>3. Count \in Nat \ {0} /\ nread \in 0..UINT - 1 /\ nread \in Nat
  BY <1>1, Counters, PipeAssumption DEF IInv, TypeOK
<1>4. Queue \in Seq(Byte) /\ Len(Queue) = Count
  BY QueueIsSeq, Zenon
<1>5. Head(Queue) = data[nread % PIPESIZE]
  <2>1. nread + 1 - 1 = nread /\ 1 \in 1..Count
    BY <1>3
  <2>2. Queue[1] = data[nread % PIPESIZE]
    BY <2>1, Zenon DEF Queue
  <2> QED  BY <1>3, <1>4, <2>2, SeqFacts, Zenon
<1>6. Queue' = [k \in 1..Count - 1 |-> data[(((nread + 1) % UINT) + k - 1) % PIPESIZE]]
  BY <1>1, <1>2, Zenon DEF Queue
<1>7. Tail(Queue) = [k \in 1..Count - 1 |-> Queue[k + 1]]
  BY <1>3, <1>4, TailFacts, Zenon
<1>8. ASSUME NEW k \in 1..Count - 1
      PROVE  data[(((nread + 1) % UINT) + k - 1) % PIPESIZE] = Queue[k + 1]
  <2>1. k - 1 \in Nat /\ k + 1 \in 1..Count /\ (nread + 1) % UINT \in Int
    BY <1>3, Increment, PipeAssumption
  <2>2. /\ ((nread + 1) % UINT) + k - 1 = ((nread + 1) % UINT) + (k - 1)
        /\ nread + (k + 1) - 1 = nread + 1 + (k - 1)
    BY <1>3, <2>1
  <2>3. (((nread + 1) % UINT) + (k - 1)) % PIPESIZE = (nread + 1 + (k - 1)) % PIPESIZE
    BY <1>3, <2>1, ReadSlot, Zenon
  <2> QED  BY <2>1, <2>2, <2>3, Zenon DEF Queue
<1>9. Queue' = Tail(Queue)
  BY <1>6, <1>7, <1>8, Zenon
<1>10. Queue # << >>
  BY <1>3, <1>4, SeqFacts, Zenon
<1> QED  BY <1>1, <1>5, <1>9, <1>10, Zenon

(* The steps that move no byte, close no end and tell nobody of the end    *)
(* leave the queue as it is.                                               *)
LEMMA QueueStutters ==
  ASSUME UNCHANGED <<data, nread, nwrite, readopen, writeopen, ch, eof>>
  PROVE  UNCHANGED Abstract!vars
BY Zenon DEF Abstract!vars, Count

(* Each step of the ring is a step of the queue or leaves it alone: a byte *)
(* written is Put, a byte read is Get (also when copyout() fails after     *)
(* it), pipeclose() is Close, and a read() of 0 bytes is EndOfFile.        *)
LEMMA StepRefines ==
  ASSUME IInv, NEW p \in Proc, Kernel(p) \/ User(p) \/ Kill(p)
  PROVE  Abstract!Next \/ UNCHANGED Abstract!vars
<1>1. ASSUME NEW b \in Byte, WriteByte(p, b)
      PROVE  Abstract!Next
  <2>1. Queue' = Append(Queue, b) /\ Len(Queue) < PIPESIZE
    BY <1>1, PutQueue, Zenon
  <2>2. "w" \in Open /\ Open' = Open
    <3>1. pc[p] = "w_loop" /\ UNCHANGED <<readopen, writeopen>>
      BY <1>1, Zenon DEF WriteByte
    <3>2. writeopen = 1
      BY <3>1, Zenon DEF IInv, Descriptors, WLabels, Ends, EndOpen
    <3> QED  BY <3>1, <3>2, Zenon DEF Open
  <2>3. UNCHANGED <<ch, eof>>
    BY <1>1, Zenon DEF WriteByte
  <2>4. Abstract!Put(b)
    BY <2>1, <2>2, <2>3, Zenon DEF Abstract!Put, Queue, Open
  <2> QED  BY <2>4, Zenon DEF Abstract!Next
<1>2. CASE ReadByte(p)
  <2>1. /\ Queue # << >> /\ Queue' = Tail(Queue)
        /\ ch' = [ch EXCEPT ![p] = Head(Queue)]
    BY <1>2, GetQueue, Zenon
  <2>2. "r" \in Open /\ Open' = Open
    <3>1. pc[p] = "r_copy" /\ UNCHANGED <<readopen, writeopen>>
      BY <1>2, Zenon DEF ReadByte
    <3>2. readopen = 1
      BY <3>1, Zenon DEF IInv, Descriptors, RLabels, Ends, EndOpen
    <3> QED  BY <3>1, <3>2, Zenon DEF Open
  <2>3. UNCHANGED eof
    BY <1>2, Zenon DEF ReadByte
  <2>4. Abstract!Get(p)
    BY <2>1, <2>2, <2>3, Zenon DEF Abstract!Get, Queue, Open
  <2> QED  BY <2>4, Zenon DEF Abstract!Next
<1>3. CASE ReadEnd(p)
  <2>1. UNCHANGED <<data, nread, nwrite, readopen, writeopen, ch>>
    BY <1>3, Zenon DEF ReadEnd, pipe
  <2>2. CASE eof' = eof
    BY <2>1, <2>2, QueueStutters, Zenon
  <2>3. CASE eof' # eof
    <3>1. pc[p] = "r_copy" /\ i[p] = 0 /\ eof' = eof \cup {p}
      BY <1>3, <2>3, Zenon DEF ReadEnd
    <3>2. Empty
      <4>1. i[p] = n[p] \/ Empty
        BY <1>3, <3>1, Zenon DEF ReadEnd
      <4>2. n[p] > 0
        BY <3>1, Zenon DEF IInv, Descriptors, RLabels
      <4> QED  BY <3>1, <4>1, <4>2
    <3>3. Count = 0 /\ writeopen = 0
      BY <3>1, <3>2, Counters, Zenon DEF IInv, Copying
    <3>4. Queue = << >> /\ "w" \notin Open
      BY <3>3, QueueIsSeq, SeqFacts DEF Open
    <3>5. Queue' = Queue /\ Open' = Open
      BY <2>1, Zenon DEF Queue, Open, Count
    <3>6. Abstract!EndOfFile(p)
      BY <2>1, <3>1, <3>4, <3>5, Zenon DEF Abstract!EndOfFile, Queue, Open
    <3> QED  BY <3>6, Zenon DEF Abstract!Next
  <2> QED  BY <2>2, <2>3, Zenon
<1>4. CASE PipeClose(p)
  <2>1. UNCHANGED <<data, nread, nwrite, ch, eof>>
    BY <1>4, Zenon DEF PipeClose, args
  <2>2. Queue' = Queue
    BY <2>1, Zenon DEF Queue, Count
  <2>3. CASE pc[p] = "close_w"
    <3>1. "w" \in Open /\ Open' = Open \ {"w"}
      <4>1. writeopen' = 0 /\ readopen' = readopen
        BY <1>4, <2>3, Zenon DEF PipeClose
      <4>2. writeopen = 1
        BY <2>3, Zenon DEF IInv, Ends, EndOpen, CloseLabel
      <4> QED  BY <4>1, <4>2 DEF Open
    <3>2. Abstract!Close("w")
      BY <2>1, <2>2, <3>1, Zenon DEF Abstract!Close, Queue, Open
    <3> QED  BY <3>1, <3>2, Zenon DEF Abstract!Next, Open
  <2>4. CASE pc[p] = "close_r"
    <3>1. "r" \in Open /\ Open' = Open \ {"r"}
      <4>1. readopen' = 0 /\ writeopen' = writeopen
        BY <1>4, <2>4, Zenon DEF PipeClose
      <4>2. readopen = 1
        BY <2>4, Zenon DEF IInv, Ends, EndOpen, CloseLabel
      <4> QED  BY <4>1, <4>2 DEF Open
    <3>2. Abstract!Close("r")
      BY <2>1, <2>2, <3>1, Zenon DEF Abstract!Close, Queue, Open
    <3> QED  BY <3>1, <3>2, Zenon DEF Abstract!Next, Open
  <2> QED  BY <1>4, <2>3, <2>4, Zenon DEF PipeClose
<1>5. CASE Acquire(p) \/ Sleep(p) \/ WriteFull(p) \/ WriteEnd(p) \/ ReadTest(p)
  BY <1>5, QueueStutters, Zenon
     DEF Acquire, Sleep, WriteFull, WriteEnd, ReadTest, Return, pipe, args
<1>6. CASE User(p) \/ Kill(p)
  BY <1>6, QueueStutters, Zenon DEF User, Write, Read, Call, Close, Kill, pipe, args
<1> QED  BY <1>1, <1>2, <1>3, <1>4, <1>5, <1>6, Zenon DEF Kernel

(* pipewrite(), piperead() and pipeclose(), with the counters that wrap    *)
(* and with any number of readers and writers, implement the queue: no     *)
(* byte is lost, duplicated or reordered, and end of file is told only     *)
(* when nothing more can come.                                             *)
THEOREM RingIsFifo == Spec => InOrder
<1>1. Init => Abstract!Init
  <2> SUFFICES ASSUME Init PROVE Abstract!Init
    BY Zenon
  <2>1. IInv /\ Empty
    BY InitInv, Zenon DEF Init, Empty
  <2>2. Count = 0
    BY <2>1, Counters, Zenon DEF IInv
  <2>3. Queue = << >>
    BY <2>1, <2>2, QueueIsSeq, SeqFacts, Zenon
  <2>4. ch \in [Proc -> Byte] /\ eof = {} /\ readopen = 1 /\ writeopen = 1
    BY <2>1, Zenon DEF Init, IInv, TypeOK
  <2> QED  BY <2>3, <2>4, Zenon DEF Abstract!Init, Queue
<1>2. IInv /\ [Next]_vars => [Abstract!Next]_(Abstract!vars)
  <2> SUFFICES ASSUME IInv, [Next]_vars
               PROVE  Abstract!Next \/ UNCHANGED Abstract!vars
    BY Zenon
  <2>1. CASE Next
    BY <2>1, StepRefines, Zenon DEF Next
  <2>2. CASE UNCHANGED vars
    BY <2>2, QueueStutters, Zenon DEF vars, pipe, args
  <2> QED  BY <2>1, <2>2, Zenon
<1> QED  BY <1>1, <1>2, PipeInvariant, PTL DEF Spec, InOrder, Abstract!Spec
============================================================================
