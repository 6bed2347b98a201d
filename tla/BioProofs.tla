----------------------------- MODULE BioProofs -----------------------------
(***************************************************************************)
(* Bio implements Blocks, for any number of processes, blocks, buffers and *)
(* pins: the cache is invisible.                                           *)
(*                                                                         *)
(* Three facts carry the proof.  The list stays a ring through all buffers *)
(* (Ring), so that the first loop of bget() finds a block that is cached,  *)
(* and no block gets two buffers (Once).  The reference count of a buffer  *)
(* is the number of its users and one for the log (Counted), so that the   *)
(* second loop takes a buffer that nobody uses.  And a buffer that has     *)
(* been read and is not pinned agrees with the disk (Clean), so that it    *)
(* may be dropped.                                                         *)
(***************************************************************************)
EXTENDS Bio, TLAPS

(* Where a process has a reference, and where it has the lock. *)
Refers == {"lock", "read", "use", "unpin", "unref"}
Locked == {"read", "use", "unpin"}

TypeOK ==
  /\ nxt \in [Node -> Node] /\ prv \in [Node -> Node]
  /\ blk \in [Buf -> Block \cup {None}]
  /\ valid \in [Buf -> {0, 1}]
  /\ ref \in [Buf -> Nat]
  /\ data \in [Buf -> Data]
  /\ lock \in [Buf -> Proc \cup {None}]
  /\ disk \in [Block -> Data]
  /\ pinned \subseteq Block
  /\ pc \in [Proc -> Refers \cup {"idle", "panic"}]
  /\ want \in [Proc -> Block \cup {None}]
  /\ buf \in [Proc -> Node]

(* The pointers of the list l and m are inverse to each other, and pos     *)
(* numbers the nodes along l.                                              *)
Numbers(pos, l, m) ==
  /\ pos \in [Node -> Nat] /\ pos[head] = 0
  /\ \A x, y \in Node : pos[x] = pos[y] => x = y
  /\ \A x \in Node : l[x] # head => pos[l[x]] = pos[x] + 1
  /\ \A x, y \in Node : l[x] = head => pos[y] <= pos[x]
  /\ \A x \in Node : m[l[x]] = x /\ l[m[x]] = x

Ring == \E pos \in [Node -> Node] : Numbers(pos, nxt, prv)

(* A block has at most one buffer, and a pinned block has one. *)
Once ==
  /\ \A b, c \in Buf : blk[b] = blk[c] /\ blk[b] # None => b = c
  /\ \A k \in pinned : \E b \in Buf : blk[b] = k

(* What a process has got from bget(). *)
GotBy(p) ==
  /\ pc[p] \in Refers => buf[p] \in Buf /\ want[p] \in Block /\ blk[buf[p]] = want[p]
  /\ pc[p] \notin Refers => buf[p] = head
  /\ pc[p] \in Locked => lock[buf[p]] = p
  /\ pc[p] \in {"use", "unpin"} => valid[buf[p]] = 1
  /\ pc[p] = "read" => valid[buf[p]] = 0
  /\ pc[p] = "unpin" => blk[buf[p]] \in pinned /\ data[buf[p]] = disk[blk[buf[p]]]

Got == \A p \in Proc : GotBy(p)

Users(b) == {p \in Proc : buf[p] = b}
Pin(b) == IF blk[b] \in pinned THEN 1 ELSE 0

Counted ==
  \A b \in Buf : IsFiniteSet(Users(b)) /\ ref[b] = Cardinality(Users(b)) + Pin(b)

Clean ==
  \A b \in Buf : valid[b] = 1 =>
    blk[b] \in Block /\ (blk[b] \notin pinned => data[b] = disk[blk[b]])

IInv == TypeOK /\ Ring /\ Once /\ Got /\ Counted /\ Clean

(* Two facts about numbers that the end of this module proves. *)
NatWellOrdered == \A T \in SUBSET Nat : T # {} => \E m \in T : \A k \in T : m <= k

Counts(S) ==
  /\ Cardinality(S) \in Nat /\ (Cardinality(S) = 0 => S = {})
  /\ \A x : x \notin S =>
       IsFiniteSet(S \cup {x}) /\ Cardinality(S \cup {x}) = Cardinality(S) + 1
  /\ \A x \in S :
       IsFiniteSet(S \ {x}) /\ Cardinality(S \ {x}) = Cardinality(S) - 1

FiniteCounts == \A S : IsFiniteSet(S) => Counts(S)
-----------------------------------------------------------------------------
(* The loops of bget() *)

(* The order in which a loop meets the buffers. *)
Order(rank, step) ==
  /\ \A x, y \in Buf : rank[x] = rank[y] => x = y
  /\ \A x \in Buf : step[x] # head => rank[step[x]] = rank[x] + 1
  /\ \A x, y \in Buf : step[x] = head => rank[y] <= rank[x]
  /\ step[head] \in Buf /\ \A y \in Buf : rank[step[head]] <= rank[y]

After(x, rank, found) == {y \in found : rank[x] <= rank[y]}
First(T, rank) == CHOOSE y \in T : \A z \in T : rank[y] <= rank[z]
Found(rank, found) ==
  [x \in Node |-> IF x = head \/ After(x, rank, found) = {} THEN head
                  ELSE First(After(x, rank, found), rank)]

(* The nodes are the head and the buffers. *)
LEMMA Nodes == Node = Buf \cup {head} /\ head \notin Buf /\ Buf \subseteq Node
BY BioAssumption DEF Node, Buf, head, BioAssumption

(* The first buffer of a set in the order of the loop is in the set. *)
LEMMA FirstIs ==
  ASSUME NatWellOrdered, NEW rank \in [Node -> Node], NEW T \in SUBSET Buf, T # {}
  PROVE  First(T, rank) \in T /\ \A z \in T : rank[First(T, rank)] <= rank[z]
<1> DEFINE R == {rank[y] : y \in T}
<1>1. T \subseteq Node /\ Node \subseteq Nat
  BY Nodes, BioAssumption DEF Node, BioAssumption
<1>2. R \in SUBSET Nat /\ R # {}
  BY <1>1, Zenon
<1>3. PICK m \in R : \A k \in R : m <= k
  BY <1>2, Zenon DEF NatWellOrdered
<1>4. \E y \in T : \A z \in T : rank[y] <= rank[z]
  BY <1>3, Zenon
<1> QED  BY <1>4, Zenon DEF First

(* Where the loop stops when it starts at x. *)
LEMMA FoundStep ==
  ASSUME NatWellOrdered, NEW rank \in [Node -> Node], NEW step \in [Node -> Node],
         Order(rank, step), NEW found \in SUBSET Buf, NEW x \in Node
  PROVE  Found(rank, found)[x] =
           IF x \in found \cup {head} THEN x ELSE Found(rank, found)[step[x]]
<1> DEFINE g == Found(rank, found)
           A(z) == After(z, rank, found)
<1>1. \A z \in Node : g[z] = IF z = head \/ A(z) = {} THEN head ELSE First(A(z), rank)
  BY DEF Found
<1>2. \A z \in Node : rank[z] \in Nat
  <2>1. Node \subseteq Nat
    BY BioAssumption DEF Node, BioAssumption
  <2> QED  BY <2>1, Zenon
<1>3. \A z : A(z) \in SUBSET Buf /\ \A y : y \in A(z) <=> y \in found /\ rank[z] <= rank[y]
  BY Zenon DEF After
<1>4. step[x] \in Node /\ head \in Node
  BY Nodes, Zenon
<1> HIDE DEF g, A
<1>5. CASE x = head
  BY <1>1, <1>5 DEF g
<1>6. CASE x \in found
  <2>1. x \in Buf /\ x # head /\ x \in A(x)
    BY <1>2, <1>3, <1>6, Nodes
  <2>2. First(A(x), rank) \in A(x) /\ rank[First(A(x), rank)] <= rank[x]
    BY <1>3, <2>1, FirstIs
  <2>3. First(A(x), rank) \in Buf /\ rank[x] <= rank[First(A(x), rank)]
    BY <1>3, <2>2, Zenon
  <2>4. rank[First(A(x), rank)] = rank[x]
    BY <1>2, <2>1, <2>2, <2>3, Nodes
  <2>5. First(A(x), rank) = x
    BY <2>1, <2>3, <2>4, Zenon DEF Order
  <2> QED  BY <1>1, <1>6, <2>1, <2>5, Zenon DEF g
<1>7. CASE x \notin found \cup {head}
  <2>1. x \in Buf /\ x # head /\ x \notin found
    BY <1>7, Nodes, Zenon
  <2>2. \A y \in found : rank[y] # rank[x]
    BY <2>1, Zenon DEF Order
  <2>3. \A y \in found : rank[y] \in Nat
    BY <1>2, Nodes, Zenon
  <2>4. rank[x] \in Nat
    BY <1>2, Zenon
  <2>5. CASE step[x] = head
    <3>1. \A y \in Buf : rank[y] <= rank[x]
      BY <2>1, <2>5, Zenon DEF Order
    <3>2. \A y \in found : ~(rank[x] <= rank[y])
      BY <2>2, <2>3, <2>4, <3>1
    <3>3. A(x) = {}
      BY <1>3, <3>2, Zenon
    <3> QED  BY <1>1, <1>4, <1>7, <2>5, <3>3, Zenon DEF g
  <2>6. CASE step[x] # head
    <3>1. rank[step[x]] = rank[x] + 1
      BY <2>1, <2>6, Zenon DEF Order
    <3>2. \A y \in found : rank[x] <= rank[y] <=> rank[step[x]] <= rank[y]
      BY <2>2, <2>3, <2>4, <3>1
    <3>3. A(x) = A(step[x])
      BY <3>2, Zenon DEF A, After
    <3> QED  BY <1>1, <1>4, <1>7, <2>1, <2>6, <3>3, Zenon DEF g
  <2> QED  BY <2>5, <2>6, Zenon
<1> QED  BY <1>5, <1>6, <1>7, Zenon

(* The loop finds the first buffer of those it looks for, if there is one. *)
LEMMA ScanFinds ==
  ASSUME NatWellOrdered, NEW rank \in [Node -> Node], NEW step \in [Node -> Node],
         Order(rank, step), NEW found \in SUBSET Buf
  PROVE  /\ found = {} => Scan(step, found) = head
         /\ found # {} => Scan(step, found) \in found
<1> DEFINE F[x \in Node] == IF x \in found \cup {head} THEN x ELSE F[step[x]]
           g == Found(rank, found)
<1>1. Scan(step, found) = F[step[head]]
  BY Zenon DEF Scan
<1>2. g = [x \in Node |-> IF x \in found \cup {head} THEN x ELSE g[step[x]]]
  <2>1. \A x \in Node : g[x] = IF x \in found \cup {head} THEN x ELSE g[step[x]]
    <3>1. TAKE x \in Node
    <3> QED  BY FoundStep
  <2>2. g = [x \in Node |-> g[x]]
    BY DEF Found
  <2> HIDE DEF g
  <2> QED  BY <2>1, <2>2
<1>3. F = [x \in Node |-> IF x \in found \cup {head} THEN x ELSE F[step[x]]]
  <2> HIDE DEF g
  <2> QED  BY <1>2, Zenon
<1> HIDE DEF F, g
<1>4. \A x \in Node : F[x] = IF x \in found \cup {head} THEN x ELSE F[step[x]]
  BY <1>3
<1>5. \A x \in Node : g[x] = IF x \in found \cup {head} THEN x ELSE g[step[x]]
  BY <1>2
<1>6. NBUF \in Nat /\ \A x \in Node : rank[x] \in 0..NBUF
  BY BioAssumption DEF BioAssumption, Node
<1>7. \A x \in Buf : F[x] = g[x]
  <2> DEFINE B == {x \in Buf : F[x] # g[x]}
             T == {NBUF - rank[x] : x \in B}
  <2> SUFFICES ASSUME B # {} PROVE FALSE
    BY Zenon
  <2>1. \A x \in B : x \in Node /\ NBUF - rank[x] \in Nat
    BY <1>6, Nodes
  <2>2. T \in SUBSET Nat /\ T # {}
    BY <2>1, Zenon
  <2>3. PICK m \in T : \A k \in T : m <= k
    BY <2>2, Zenon DEF NatWellOrdered
  <2>4. PICK x \in B : \A y \in B : NBUF - rank[x] <= NBUF - rank[y]
    BY <2>3, Zenon
  <2>5. x \in Buf /\ x \in Node /\ F[x] # g[x] /\ step[x] \in Node
    BY Nodes, Zenon
  <2>6. x \notin found \cup {head} /\ F[step[x]] # g[step[x]]
    BY <1>4, <1>5, <2>5
  <2>7. step[x] # head
    <3>1. head \in Node /\ head \in found \cup {head}
      BY Nodes, Zenon
    <3>2. F[head] = head /\ g[head] = head
      BY <1>4, <1>5, <3>1
    <3> QED  BY <2>6, <3>2, Zenon
  <2>8. step[x] \in Buf
    BY <2>5, <2>7, Nodes, Zenon
  <2>9. NBUF - rank[x] <= NBUF - rank[step[x]]
    BY <2>4, <2>6, <2>8, Zenon
  <2>10. rank[step[x]] = rank[x] + 1
    BY <2>5, <2>7, Zenon DEF Order
  <2> QED  BY <1>6, <2>5, <2>9, <2>10
<1>8. step[head] \in Buf /\ \A y \in Buf : rank[step[head]] <= rank[y]
  BY Zenon DEF Order
<1>9. After(step[head], rank, found) = found
  BY <1>8, Zenon DEF After
<1>10. step[head] \in Node /\ step[head] # head
  BY <1>8, Nodes, Zenon
<1>11. g[step[head]] = IF found = {} THEN head ELSE First(found, rank)
  BY <1>9, <1>10 DEF g, Found
<1>12. Scan(step, found) = g[step[head]]
  BY <1>1, <1>7, <1>8, Zenon
<1>13. CASE found = {}
  BY <1>11, <1>12, <1>13, Zenon
<1>14. CASE found # {}
  <2>1. First(found, rank) \in found
    BY <1>14, FirstIs, Zenon
  <2> QED  BY <1>11, <1>12, <1>14, <2>1, Zenon
<1> QED  BY <1>13, <1>14, Zenon
-----------------------------------------------------------------------------
(* The list *)

(* What the numbers say, with their types. *)
LEMMA NumberFacts ==
  ASSUME NEW l \in [Node -> Node], NEW m \in [Node -> Node], NEW pos \in [Node -> Node],
         Numbers(pos, l, m)
  PROVE  /\ NBUF \in Nat \ {0} /\ 0 \in Node /\ head = 0
         /\ \A x \in Node : pos[x] \in Nat /\ pos[x] <= NBUF /\ l[x] \in Node /\ m[x] \in Node
         /\ \A x \in Buf : x \in Node /\ x # 0 /\ pos[x] >= 1
         /\ \A x \in Node : x # 0 => x \in Buf
         /\ l[0] \in Buf /\ pos[l[0]] = 1 /\ m[0] \in Buf
         /\ \A x \in Buf : l[x] # x /\ m[x] # x
<1>1. NBUF \in Nat \ {0} /\ 0 \in Node /\ head = 0 /\ 1 \in Node
  BY BioAssumption DEF BioAssumption, Node, head
<1>2. \A x \in Node : pos[x] \in Nat /\ pos[x] <= NBUF /\ l[x] \in Node /\ m[x] \in Node
  <2>1. \A x \in Node : x \in Nat /\ x <= NBUF
    BY <1>1 DEF Node
  <2> QED  BY <2>1, Zenon
<1>3. \A x \in Node : x # 0 => x \in Buf
  BY <1>1, Nodes, Zenon
<1>4. \A x \in Buf : x \in Node /\ x # 0
  BY <1>1, Nodes, Zenon
<1>5. pos[0] = 0 /\ \A x, y \in Node : pos[x] = pos[y] => x = y
  BY <1>1, Zenon DEF Numbers
<1>6. \A x \in Buf : pos[x] >= 1
  BY <1>1, <1>2, <1>4, <1>5
<1>7. l[0] # 0
  <2> SUFFICES ASSUME l[0] = 0 PROVE FALSE
    BY Zenon
  <2>1. pos[1] <= pos[0]
    BY <1>1, Zenon DEF Numbers
  <2> QED  BY <1>1, <1>2, <1>5, <2>1
<1>8. pos[l[0]] = 1
  <2>1. pos[l[0]] = pos[0] + 1
    BY <1>1, <1>7, Zenon DEF Numbers
  <2> QED  BY <1>5, <2>1
<1>9. \A x \in Node : m[l[x]] = x /\ l[m[x]] = x
  BY Zenon DEF Numbers
<1>10. l[0] \in Buf /\ m[0] \in Buf
  BY <1>1, <1>2, <1>3, <1>7, <1>9, Zenon
<1>11. ASSUME NEW x \in Buf PROVE l[x] # x /\ m[x] # x
  <2>1. l[x] # x
    <3>1. l[x] # 0 => pos[l[x]] = pos[x] + 1
      BY <1>1, <1>4, Zenon DEF Numbers
    <3> QED  BY <1>2, <1>4, <3>1
  <2> QED  BY <1>4, <1>9, <2>1, Zenon
<1> QED  BY <1>1, <1>2, <1>3, <1>4, <1>6, <1>8, <1>10, <1>11, Zenon

(* The numbers from the end of the list. *)
Back(pos) == [x \in Node |-> NBUF - pos[x]]

(* Both loops meet every buffer. *)
LEMMA Orders ==
  ASSUME NEW l \in [Node -> Node], NEW m \in [Node -> Node], NEW pos \in [Node -> Node],
         Numbers(pos, l, m)
  PROVE  /\ Order(pos, l)
         /\ Back(pos) \in [Node -> Node] /\ Order(Back(pos), m)
<1>1. /\ NBUF \in Nat \ {0} /\ 0 \in Node /\ head = 0
      /\ \A x \in Node : pos[x] \in Nat /\ pos[x] <= NBUF /\ l[x] \in Node /\ m[x] \in Node
      /\ \A x \in Buf : x \in Node /\ x # 0 /\ pos[x] >= 1
      /\ \A x \in Node : x # 0 => x \in Buf
      /\ l[0] \in Buf /\ pos[l[0]] = 1 /\ m[0] \in Buf
  BY NumberFacts, Zenon
<1>2. /\ pos[0] = 0
      /\ \A x, y \in Node : pos[x] = pos[y] => x = y
      /\ \A x \in Node : l[x] # 0 => pos[l[x]] = pos[x] + 1
      /\ \A x, y \in Node : l[x] = 0 => pos[y] <= pos[x]
      /\ \A x \in Node : m[l[x]] = x /\ l[m[x]] = x
  BY <1>1, Zenon DEF Numbers
<1>3. Order(pos, l)
  <2>1. \A y \in Buf : pos[l[0]] <= pos[y]
    BY <1>1
  <2> QED  BY <1>1, <1>2, <2>1, Zenon DEF Order
<1> DEFINE rank == [x \in Node |-> NBUF - pos[x]]
<1>4. \A x \in Node : rank[x] = NBUF - pos[x] /\ NBUF - pos[x] \in Node
  <2>1. \A x \in Node : rank[x] = NBUF - pos[x]
    BY Zenon
  <2>2. ASSUME NEW x \in Node PROVE NBUF - pos[x] \in Node
    <3>1. pos[x] \in Nat /\ pos[x] <= NBUF /\ NBUF \in Nat
      BY <1>1, Zenon
    <3>2. \A q \in Nat : q <= NBUF => NBUF - q \in 0..NBUF
      BY <3>1
    <3> QED  BY <3>1, <3>2, Zenon DEF Node
  <2> QED  BY <2>1, <2>2, Zenon
<1>5. rank \in [Node -> Node]
  BY <1>4, Zenon
<1> HIDE DEF rank
<1>6. ASSUME NEW x \in Buf, NEW y \in Buf, rank[x] = rank[y] PROVE x = y
  <2>1. x \in Node /\ y \in Node /\ pos[x] \in Nat /\ pos[y] \in Nat /\ NBUF \in Nat
    BY <1>1, Zenon
  <2>2. NBUF - pos[x] = NBUF - pos[y]
    BY <1>4, <1>6, <2>1, Zenon
  <2>3. pos[x] = pos[y]
    BY <2>1, <2>2
  <2> QED  BY <1>2, <2>1, <2>3, Zenon
<1>7. ASSUME NEW x \in Buf, m[x] # 0 PROVE rank[m[x]] = rank[x] + 1
  <2>1. l[m[x]] = x /\ x # 0 /\ m[x] \in Node /\ x \in Node
    BY <1>1, <1>2, Zenon
  <2>2. pos[x] = pos[m[x]] + 1
    BY <1>2, <2>1, Zenon
  <2> QED  BY <1>1, <1>4, <2>1, <2>2
<1>8. ASSUME NEW x \in Buf, NEW y \in Buf, m[x] = 0 PROVE rank[y] <= rank[x]
  <2>1. x = l[0]
    BY <1>1, <1>2, <1>8, Zenon
  <2>2. pos[x] = 1
    BY <1>1, <2>1, Zenon
  <2> QED  BY <1>1, <1>4, <2>2
<1>9. ASSUME NEW y \in Buf PROVE rank[m[0]] <= rank[y]
  <2>1. l[m[0]] = 0 /\ m[0] \in Node /\ y \in Node
    BY <1>1, <1>2, Zenon
  <2>2. pos[y] <= pos[m[0]]
    BY <1>2, <2>1, Zenon
  <2> QED  BY <1>1, <1>4, <2>1, <2>2
<1>10. Order(rank, m)
  BY <1>1, <1>6, <1>7, <1>8, <1>9, Zenon DEF Order
<1> QED  BY <1>3, <1>5, <1>10, Zenon DEF rank, Back

(* What one assignment through a pointer changes. *)
LEMMA Assigned ==
  ASSUME NEW S, NEW T, NEW g \in [S -> T], NEW h \in S, NEW v \in T,
         NEW g2, g2 = [g EXCEPT ![h] = v]
  PROVE  g2 \in [S -> T] /\ \A x \in S : g2[x] = IF x = h THEN v ELSE g[x]
OBVIOUS

(* What the six assignments of brelse() do to the pointers of the list. *)
FrontOf(l, m, b, l2, m2) ==
  LET p1 == [m EXCEPT ![l[b]] = m[b]]
      n1 == [l EXCEPT ![p1[b]] = l[b]]
      n2 == [n1 EXCEPT ![b] = n1[head]]
      p2 == [p1 EXCEPT ![b] = head]
  IN m2 = [p2 EXCEPT ![n2[head]] = b] /\ l2 = [n2 EXCEPT ![head] = b]

(* The list after them: nothing moves when the buffer is in front already. *)
InFront(l, m, b, l2, m2) ==
  /\ l2 \in [Node -> Node] /\ m2 \in [Node -> Node]
  /\ m[b] = 0 => l2 = l /\ m2 = m
  /\ m[b] # 0 =>
       /\ \A x \in Node : l2[x] = IF x = 0 THEN b ELSE IF x = b THEN l[0]
                                  ELSE IF x = m[b] THEN l[b] ELSE l[x]
       /\ \A x \in Node : m2[x] = IF x = l[b] THEN m[b] ELSE IF x = b THEN 0
                                  ELSE IF x = l[0] THEN b ELSE m[x]

(* The assignments one after the other. *)
LEMMA FrontPointers ==
  ASSUME NEW l \in [Node -> Node], NEW m \in [Node -> Node], NEW pos \in [Node -> Node],
         Numbers(pos, l, m), NEW b \in Buf, NEW l2, NEW m2, FrontOf(l, m, b, l2, m2)
  PROVE  InFront(l, m, b, l2, m2)
<1> USE DEF InFront
<1> DEFINE a == m[b]
           c == l[b]
           f == l[0]
           p1 == [m EXCEPT ![l[b]] = m[b]]
           n1 == [l EXCEPT ![p1[b]] = l[b]]
           n2 == [n1 EXCEPT ![b] = n1[head]]
           p2 == [p1 EXCEPT ![b] = head]
<1>1. /\ 0 \in Node /\ head = 0
      /\ \A x \in Node : l[x] \in Node /\ m[x] \in Node
      /\ b \in Node /\ b # 0 /\ f \in Buf /\ c # b /\ a # b
  BY NumberFacts, Zenon
<1>2. \A x \in Node : m[l[x]] = x /\ l[m[x]] = x
  BY Zenon DEF Numbers
<1>3. a \in Node /\ c \in Node /\ f \in Node /\ l[a] = b /\ m[c] = b /\ m[f] = 0
  BY <1>1, <1>2, Zenon
<1>4. c # f
  BY <1>1, <1>2, <1>3, Zenon
<1>5. m2 = [p2 EXCEPT ![n2[head]] = b] /\ l2 = [n2 EXCEPT ![head] = b]
  BY Zenon DEF FrontOf
<1>6. p1 = [m EXCEPT ![c] = a] /\ n1 = [l EXCEPT ![p1[b]] = c]
  BY Zenon
<1>7. n2 = [n1 EXCEPT ![b] = n1[0]] /\ p2 = [p1 EXCEPT ![b] = 0]
  BY <1>1
<1> HIDE DEF a, c, f, p1, n1, n2, p2
<1>8. p1 \in [Node -> Node] /\ \A x \in Node : p1[x] = IF x = c THEN a ELSE m[x]
  BY <1>3, <1>6, Assigned, Zenon
<1>9. p1[b] = a
  BY <1>1, <1>8, Zenon DEF a
<1>10. n1 \in [Node -> Node] /\ \A x \in Node : n1[x] = IF x = a THEN c ELSE l[x]
  <2>1. n1 = [l EXCEPT ![a] = c]
    BY <1>6, <1>9, Zenon
  <2> QED  BY <1>3, <2>1, Assigned, Zenon
<1>11. n1[0] \in Node /\ n1[0] = IF a = 0 THEN c ELSE f
  BY <1>1, <1>10, Zenon DEF f
<1>12. n2 \in [Node -> Node] /\ \A x \in Node : n2[x] = IF x = b THEN n1[0] ELSE n1[x]
  BY <1>1, <1>7, <1>10, <1>11, Assigned, Zenon
<1>13. p2 \in [Node -> Node] /\ \A x \in Node : p2[x] = IF x = b THEN 0 ELSE p1[x]
  BY <1>1, <1>7, <1>8, Assigned, Zenon
<1>14. n2[0] = n1[0]
  BY <1>1, <1>12, Zenon
<1>15. m2 \in [Node -> Node] /\ \A x \in Node : m2[x] = IF x = n1[0] THEN b ELSE p2[x]
  <2>1. m2 = [p2 EXCEPT ![n1[0]] = b]
    BY <1>1, <1>5, <1>14, Zenon
  <2> QED  BY <1>1, <1>11, <1>13, <2>1, Assigned, Zenon
<1>16. l2 \in [Node -> Node] /\ \A x \in Node : l2[x] = IF x = 0 THEN b ELSE n2[x]
  <2>1. l2 = [n2 EXCEPT ![0] = b]
    BY <1>1, <1>5, Zenon
  <2> QED  BY <1>1, <1>12, <2>1, Assigned, Zenon
<1>17. CASE a = 0
  <2>1. f = b
    BY <1>3, <1>17, Zenon DEF f
  <2>2. \A x \in Node : l2[x] = l[x]
    BY <1>1, <1>10, <1>11, <1>12, <1>16, <1>17, <2>1 DEF c, f
  <2>3. \A x \in Node : m2[x] = m[x]
    BY <1>1, <1>3, <1>8, <1>11, <1>13, <1>15, <1>17 DEF a
  <2>4. l2 = l
    BY <1>16, <2>2
  <2>5. m2 = m
    BY <1>15, <2>3
  <2> QED  BY <1>15, <1>16, <1>17, <2>4, <2>5, Zenon DEF a
<1>18. CASE a # 0
  <2>1. f # b
    BY <1>1, <1>2, <1>18, Zenon DEF a, f
  <2>2. \A x \in Node : l2[x] = IF x = 0 THEN b ELSE IF x = b THEN f
                                ELSE IF x = a THEN c ELSE l[x]
    BY <1>10, <1>11, <1>12, <1>16, <1>18
  <2>3. \A x \in Node : m2[x] = IF x = c THEN a ELSE IF x = b THEN 0
                                ELSE IF x = f THEN b ELSE m[x]
    BY <1>1, <1>4, <1>8, <1>11, <1>13, <1>15, <1>18, <2>1
  <2> QED  BY <1>15, <1>16, <1>18, <2>2, <2>3, Zenon DEF a, c, f
<1> QED  BY <1>17, <1>18, Zenon

(* brelse() moves the buffer to the front, and the list stays a ring. *)
LEMMA FrontNumbers ==
  ASSUME NEW l \in [Node -> Node], NEW m \in [Node -> Node], NEW pos \in [Node -> Node],
         Numbers(pos, l, m), NEW b \in Buf, NEW l2, NEW m2, FrontOf(l, m, b, l2, m2)
  PROVE  /\ l2 \in [Node -> Node] /\ m2 \in [Node -> Node]
         /\ \E q \in [Node -> Node] : Numbers(q, l2, m2)
<1>1. /\ l2 \in [Node -> Node] /\ m2 \in [Node -> Node]
      /\ m[b] = 0 => l2 = l /\ m2 = m
      /\ m[b] # 0 =>
           /\ \A x \in Node : l2[x] = IF x = 0 THEN b ELSE IF x = b THEN l[0]
                                      ELSE IF x = m[b] THEN l[b] ELSE l[x]
           /\ \A x \in Node : m2[x] = IF x = l[b] THEN m[b] ELSE IF x = b THEN 0
                                      ELSE IF x = l[0] THEN b ELSE m[x]
  <2>1. InFront(l, m, b, l2, m2)
    BY FrontPointers, Zenon
  <2> QED  BY <2>1, Zenon DEF InFront
<1>2. CASE m[b] = 0
  <2>1. l2 = l /\ m2 = m
    BY <1>1, <1>2, Zenon
  <2>2. Numbers(pos, l2, m2)
    BY <2>1, Zenon
  <2> QED  BY <1>1, <2>2, Zenon
<1>3. CASE m[b] # 0
  <2> DEFINE a == m[b]
             c == l[b]
             f == l[0]
             q == [x \in Node |-> IF x = 0 THEN 0 ELSE IF x = b THEN 1
                                  ELSE IF pos[x] < pos[b] THEN pos[x] + 1 ELSE pos[x]]
  <2>1. /\ NBUF \in Nat \ {0} /\ 0 \in Node /\ head = 0
        /\ \A x \in Node : pos[x] \in Nat /\ pos[x] <= NBUF /\ l[x] \in Node /\ m[x] \in Node
        /\ \A x \in Buf : x \in Node /\ x # 0 /\ pos[x] >= 1
        /\ \A x \in Node : x # 0 => x \in Buf
        /\ f \in Buf /\ pos[f] = 1
        /\ c # b /\ a # b
    BY NumberFacts, Zenon
  <2>2. /\ pos[0] = 0
        /\ \A x, y \in Node : pos[x] = pos[y] => x = y
        /\ \A x \in Node : l[x] # 0 => pos[l[x]] = pos[x] + 1
        /\ \A x, y \in Node : l[x] = 0 => pos[y] <= pos[x]
        /\ \A x \in Node : m[l[x]] = x /\ l[m[x]] = x
    BY <2>1, Zenon DEF Numbers
  <2>3. /\ b \in Node /\ b # 0 /\ a \in Node /\ a # 0 /\ c \in Node /\ f \in Node
        /\ l[a] = b /\ m[c] = b /\ m[f] = 0
    BY <1>3, <2>1, <2>2, Zenon
  <2>4. f # b /\ c # f /\ pos[b] = pos[a] + 1 /\ pos[a] >= 1
    <3>1. f # b /\ c # f
      BY <1>3, <2>2, <2>3, Zenon
    <3>2. pos[b] = pos[a] + 1
      BY <2>2, <2>3, Zenon
    <3>3. pos[a] >= 1
      BY <2>1, <2>3, Zenon
    <3> QED  BY <3>1, <3>2, <3>3, Zenon
  <2>5. /\ \A x \in Node : l2[x] = IF x = 0 THEN b ELSE IF x = b THEN f
                                   ELSE IF x = a THEN c ELSE l[x]
        /\ \A x \in Node : m2[x] = IF x = c THEN a ELSE IF x = b THEN 0
                                   ELSE IF x = f THEN b ELSE m[x]
    BY <1>1, <1>3, Zenon
  <2>6. \A x \in Node : q[x] = IF x = 0 THEN 0 ELSE IF x = b THEN 1
                               ELSE IF pos[x] < pos[b] THEN pos[x] + 1 ELSE pos[x]
    BY Zenon
  <2>7. q \in [Node -> Node]
    <3> SUFFICES ASSUME NEW x \in Node
                 PROVE  (IF x = 0 THEN 0 ELSE IF x = b THEN 1
                         ELSE IF pos[x] < pos[b] THEN pos[x] + 1 ELSE pos[x]) \in Node
      BY Zenon
    <3>1. /\ pos[x] \in Nat /\ pos[x] <= NBUF /\ pos[b] \in Nat /\ pos[b] <= NBUF
          /\ NBUF \in Nat \ {0}
      BY <2>1, <2>3, Zenon
    <3> HIDE DEF a, c, f, q
    <3>2. \A j, k \in 0..NBUF : 0 \in 0..NBUF /\ 1 \in 0..NBUF /\ (j < k => j + 1 \in 0..NBUF)
      BY <3>1
    <3>3. pos[x] \in 0..NBUF /\ pos[b] \in 0..NBUF
      BY <3>1
    <3> QED  BY <3>2, <3>3, Zenon DEF Node
  <2> HIDE DEF a, c, f, q
  <2>8. \A x \in Node : q[x] \in Nat /\ (x # 0 => q[x] >= 1)
    BY <2>1, <2>6
  <2>9. ASSUME NEW x \in Node, NEW y \in Node, q[x] = q[y] PROVE x = y
    <3> DEFINE S(j) == IF j < pos[b] THEN j + 1 ELSE j
    <3>1. pos[b] \in Nat /\ pos[b] >= 2
      BY <2>1, <2>3, <2>4
    <3>2. \A j, k \in Nat : j # pos[b] /\ k # pos[b] /\ S(j) = S(k) => j = k
      BY <3>1
    <3>3. \A j \in Nat : j >= 1 => S(j) >= 2 /\ S(j) \in Nat
      BY <3>1
    <3>4. ASSUME NEW z \in Node, z # 0, z # b
          PROVE  q[z] = S(pos[z]) /\ pos[z] \in Nat /\ pos[z] >= 1 /\ pos[z] # pos[b]
      BY <2>1, <2>2, <2>3, <2>6, <3>4, Zenon
    <3> HIDE DEF S
    <3>5. q[0] = 0 /\ q[b] = 1
      BY <2>1, <2>3, <2>6
    <3>6. \A z \in Node : z # 0 /\ z # b => q[z] # 0 /\ q[z] # 1
      BY <3>3, <3>4
    <3>7. CASE x \in {0, b} \/ y \in {0, b}
      BY <2>9, <3>5, <3>6, <3>7
    <3>8. CASE x \notin {0, b} /\ y \notin {0, b}
      <4>1. /\ pos[x] \in Nat /\ pos[y] \in Nat /\ pos[x] # pos[b] /\ pos[y] # pos[b]
            /\ S(pos[x]) = S(pos[y])
        BY <2>9, <3>4, <3>8, Zenon
      <4>2. pos[x] = pos[y]
        BY <3>2, <4>1, Zenon
      <4> QED  BY <2>2, <4>2, Zenon
    <3> QED  BY <3>7, <3>8, Zenon
  <2>10. ASSUME NEW x \in Node, l2[x] # 0 PROVE q[l2[x]] = q[x] + 1
    <3>1. CASE x = 0
      BY <2>3, <2>5, <2>6, <3>1
    <3>2. CASE x = b
      <4>1. l2[x] = f /\ f # 0 /\ q[x] = 1
        BY <2>1, <2>3, <2>5, <2>6, <3>2, Zenon
      <4>2. q[f] = 2
        BY <2>1, <2>3, <2>4, <2>6, <4>1
      <4> QED  BY <4>1, <4>2
    <3>3. CASE x = a
      <4>1. l2[x] = c /\ c # 0
        BY <2>1, <2>3, <2>5, <2>10, <3>3, Zenon
      <4>2. pos[c] = pos[b] + 1
        BY <2>2, <2>3, <4>1, Zenon DEF c
      <4>3. pos[a] \in Nat /\ pos[b] \in Nat /\ pos[c] \in Nat
        BY <2>1, <2>3, Zenon
      <4>4. q[c] = pos[c]
        BY <2>1, <2>3, <2>6, <4>1, <4>2, <4>3
      <4>5. q[a] = pos[a] + 1
        BY <2>1, <2>3, <2>4, <2>6, <4>3
      <4> QED  BY <2>4, <3>3, <4>1, <4>2, <4>3, <4>4, <4>5
    <3>4. CASE x \notin {0, a, b}
      <4>1. l2[x] = l[x] /\ l[x] # 0 /\ l[x] \in Node /\ pos[l[x]] = pos[x] + 1
        BY <2>1, <2>2, <2>5, <2>10, <3>4
      <4>2. l[x] # b
        BY <2>2, <2>3, <3>4, Zenon DEF a
      <4>3. pos[x] # pos[b] /\ pos[l[x]] # pos[b]
        BY <2>2, <2>3, <3>4, <4>1, <4>2
      <4>4. pos[x] \in Nat /\ pos[b] \in Nat
        BY <2>1, <2>3, Zenon
      <4>5. q[x] = IF pos[x] < pos[b] THEN pos[x] + 1 ELSE pos[x]
        BY <2>6, <3>4
      <4>6. q[l[x]] = IF pos[l[x]] < pos[b] THEN pos[l[x]] + 1 ELSE pos[l[x]]
        BY <2>6, <4>1, <4>2
      <4> QED  BY <4>1, <4>3, <4>4, <4>5, <4>6
    <3> QED  BY <3>1, <3>2, <3>3, <3>4, Zenon
  <2>11. ASSUME NEW x \in Node, NEW y \in Node, l2[x] = 0 PROVE q[y] <= q[x]
    <3>1. x # 0 /\ x # b
      BY <2>1, <2>3, <2>5, <2>11, Zenon
    <3>2. pos[x] \in Nat /\ pos[y] \in Nat /\ pos[a] \in Nat /\ pos[b] \in Nat
      BY <2>1, <2>3, Zenon
    <3>3. CASE x = a
      <4>1. l[b] = 0
        BY <2>5, <2>11, <3>1, <3>3, Zenon DEF c
      <4>2. pos[y] <= pos[b]
        BY <2>2, <2>3, <4>1, Zenon
      <4>3. q[x] = pos[b]
        BY <2>3, <2>4, <2>6, <3>1, <3>2, <3>3
      <4>4. y # b => pos[y] # pos[b]
        BY <2>2, <2>3, Zenon
      <4> QED  BY <2>4, <2>6, <3>2, <4>2, <4>3, <4>4
    <3>4. CASE x # a
      <4>1. l[x] = 0
        BY <2>5, <2>11, <3>1, <3>4, Zenon
      <4>2. pos[y] <= pos[x] /\ pos[b] <= pos[x]
        BY <2>2, <2>3, <4>1, Zenon
      <4>3. pos[b] # pos[x]
        BY <2>2, <2>3, <3>1, Zenon
      <4>4. q[x] = pos[x]
        BY <2>6, <3>1, <3>2, <4>2
      <4> QED  BY <2>4, <2>6, <3>2, <4>2, <4>3, <4>4
    <3> QED  BY <3>3, <3>4, Zenon
  <2>12. ASSUME NEW x \in Node PROVE m2[l2[x]] = x /\ l2[m2[x]] = x
    <3>1. m2[l2[x]] = x
      <4>1. CASE x = 0
        BY <2>1, <2>3, <2>5, <4>1, Zenon
      <4>2. CASE x = b
        BY <2>3, <2>4, <2>5, <4>2, Zenon
      <4>3. CASE x = a
        BY <2>1, <2>3, <2>5, <4>3, Zenon
      <4>4. CASE x \notin {0, a, b}
        <5>1. l2[x] = l[x] /\ l[x] \in Node /\ m[l[x]] = x
          BY <2>1, <2>2, <2>5, <4>4
        <5>2. l[x] # c /\ l[x] # b /\ l[x] # f
          BY <2>2, <2>3, <4>4, <5>1
        <5> QED  BY <2>5, <5>1, <5>2, Zenon
      <4> QED  BY <4>1, <4>2, <4>3, <4>4, Zenon
    <3>2. l2[m2[x]] = x
      <4>1. CASE x = c
        BY <2>1, <2>3, <2>5, <4>1, Zenon
      <4>2. CASE x = b
        BY <2>1, <2>3, <2>5, <4>2, Zenon
      <4>3. CASE x = f
        BY <2>3, <2>4, <2>5, <4>3, Zenon
      <4>4. CASE x \notin {c, b, f}
        <5>1. m2[x] = m[x] /\ m[x] \in Node /\ l[m[x]] = x
          BY <2>1, <2>2, <2>5, <4>4
        <5>2. m[x] # 0 /\ m[x] # b /\ m[x] # a
          BY <2>3, <4>4, <5>1 DEF c, f
        <5> QED  BY <2>5, <5>1, <5>2, Zenon
      <4> QED  BY <4>1, <4>2, <4>3, <4>4, Zenon
    <3> QED  BY <3>1, <3>2, Zenon
  <2>13. q[0] = 0
    BY <2>1, <2>6, Zenon
  <2>14. q \in [Node -> Nat]
    BY <2>7, <2>8
  <2>15. Numbers(q, l2, m2)
    BY <2>1, <2>9, <2>10, <2>11, <2>12, <2>13, <2>14, Zenon DEF Numbers
  <2> QED  BY <1>1, <2>7, <2>15, Zenon
<1> QED  BY <1>2, <1>3, Zenon
-----------------------------------------------------------------------------
(* What the invariant says of the two loops *)

(* The first loop stops at the buffer of the block, if it has one. *)
LEMMA CachedFacts ==
  ASSUME NatWellOrdered, TypeOK, Ring, NEW k
  PROVE  /\ Cached(k) = head => \A b \in Buf : blk[b] # k
         /\ Cached(k) # head => Cached(k) \in Buf /\ blk[Cached(k)] = k
<1> DEFINE found == {b \in Buf : blk[b] = k}
<1>1. nxt \in [Node -> Node] /\ prv \in [Node -> Node]
  BY Zenon DEF TypeOK
<1>2. PICK pos \in [Node -> Node] : Numbers(pos, nxt, prv)
  BY Zenon DEF Ring
<1>3. Order(pos, nxt)
  BY <1>1, <1>2, Orders, Zenon
<1>4. found \in SUBSET Buf
  BY Zenon
<1> HIDE DEF found
<1>5. /\ found = {} => Scan(nxt, found) = head
      /\ found # {} => Scan(nxt, found) \in found
  BY <1>1, <1>2, <1>3, <1>4, ScanFinds, Zenon
<1>6. Cached(k) = Scan(nxt, found)
  BY Zenon DEF Cached, found
<1> QED  BY <1>5, <1>6, Nodes, Zenon DEF found

(* The second loop stops at a buffer without users that is not pinned. *)
LEMMA UnusedFacts ==
  ASSUME NatWellOrdered, FiniteCounts, TypeOK, Ring, Counted, Unused # head
  PROVE  /\ Unused \in Buf /\ ref[Unused] = 0
         /\ Users(Unused) = {} /\ blk[Unused] \notin pinned
<1> DEFINE found == {b \in Buf : ref[b] = 0}
<1>1. nxt \in [Node -> Node] /\ prv \in [Node -> Node]
  BY Zenon DEF TypeOK
<1>2. PICK pos \in [Node -> Node] : Numbers(pos, nxt, prv)
  BY Zenon DEF Ring
<1> DEFINE rank == Back(pos)
<1>3. rank \in [Node -> Node] /\ Order(rank, prv)
  BY <1>1, <1>2, Orders, Zenon
<1>4. found \in SUBSET Buf
  BY Zenon
<1> HIDE DEF found, rank
<1>5. /\ found = {} => Scan(prv, found) = head
      /\ found # {} => Scan(prv, found) \in found
  BY <1>1, <1>3, <1>4, ScanFinds, Zenon
<1>6. Unused = Scan(prv, found)
  BY Zenon DEF Unused, found
<1>7. Unused \in Buf /\ ref[Unused] = 0
  BY <1>5, <1>6, Zenon DEF found
<1>8. /\ 0 = Cardinality(Users(Unused)) + Pin(Unused)
      /\ Counts(Users(Unused))
  BY <1>7, Zenon DEF Counted, FiniteCounts
<1>9. Pin(Unused) \in {0, 1} /\ Cardinality(Users(Unused)) \in Nat
  BY <1>8, Zenon DEF Pin, Counts
<1>10. Pin(Unused) = 0 /\ Cardinality(Users(Unused)) = 0
  BY <1>8, <1>9
<1>11. Users(Unused) = {}
  BY <1>8, <1>10, Zenon DEF Counts
<1>12. blk[Unused] \notin pinned
  BY <1>10 DEF Pin
<1> QED  BY <1>7, <1>11, <1>12, Zenon

(* A process that gets a buffer is one more of its users. *)
LEMMA JoinUsers ==
  ASSUME FiniteCounts, Counted, buf \in [Proc -> Node], NEW p \in Proc, buf[p] = head,
         NEW b \in Buf, buf' = [buf EXCEPT ![p] = b], NEW c \in Buf
  PROVE  /\ IsFiniteSet(Users(c)') /\ Cardinality(Users(c)) \in Nat
         /\ Cardinality(Users(c)') = Cardinality(Users(c)) + (IF c = b THEN 1 ELSE 0)
<1>1. b \in Node /\ b # head /\ c # head
  BY Nodes, Zenon
<1>2. \A q \in Proc : buf'[q] = IF q = p THEN b ELSE buf[q]
  BY <1>1
<1>3. IsFiniteSet(Users(c)) /\ Counts(Users(c))
  BY Zenon DEF Counted, FiniteCounts
<1>4. CASE c = b
  <2>1. Users(c)' = Users(c) \cup {p} /\ p \notin Users(c)
    BY <1>1, <1>2, <1>4 DEF Users
  <2>2. /\ IsFiniteSet(Users(c) \cup {p}) /\ Cardinality(Users(c)) \in Nat
        /\ Cardinality(Users(c) \cup {p}) = Cardinality(Users(c)) + 1
    BY <1>3, <2>1, Zenon DEF Counts
  <2> QED  BY <1>4, <2>1, <2>2, Zenon
<1>5. CASE c # b
  <2>1. Users(c)' = Users(c)
    BY <1>1, <1>2, <1>5 DEF Users
  <2>2. Cardinality(Users(c)) \in Nat
    BY <1>3, Zenon DEF Counts
  <2>3. Cardinality(Users(c)) = Cardinality(Users(c)) + 0
    BY <2>2
  <2> QED  BY <1>3, <1>5, <2>1, <2>2, <2>3, Zenon
<1> QED  BY <1>4, <1>5, Zenon

(* A process that gives up its buffer was one of its users. *)
LEMMA LeaveUsers ==
  ASSUME FiniteCounts, Counted, buf \in [Proc -> Node], NEW p \in Proc, buf[p] \in Buf,
         buf' = [buf EXCEPT ![p] = head], NEW c \in Buf
  PROVE  /\ IsFiniteSet(Users(c)') /\ Cardinality(Users(c)) \in Nat
         /\ Cardinality(Users(c)') \in Nat
         /\ Cardinality(Users(c)') = Cardinality(Users(c)) - (IF c = buf[p] THEN 1 ELSE 0)
<1>1. head \in Node /\ c # head
  BY Nodes, Zenon
<1>2. \A q \in Proc : buf'[q] = IF q = p THEN head ELSE buf[q]
  BY <1>1
<1>3. IsFiniteSet(Users(c)) /\ Counts(Users(c)) /\ Cardinality(Users(c)) \in Nat
  BY Zenon DEF Counted, FiniteCounts, Counts
<1>4. CASE c = buf[p]
  <2>1. Users(c)' = Users(c) \ {p} /\ p \in Users(c)
    BY <1>1, <1>2, <1>4 DEF Users
  <2>2. /\ IsFiniteSet(Users(c) \ {p})
        /\ Cardinality(Users(c) \ {p}) = Cardinality(Users(c)) - 1
    BY <1>3, <2>1, Zenon DEF Counts
  <2>3. Cardinality(Users(c) \ {p}) \in Nat
    BY <2>2, Zenon DEF FiniteCounts, Counts
  <2> QED  BY <1>3, <1>4, <2>1, <2>2, <2>3, Zenon
<1>5. CASE c # buf[p]
  <2>1. Users(c)' = Users(c)
    BY <1>1, <1>2, <1>5 DEF Users
  <2>2. Cardinality(Users(c)) = Cardinality(Users(c)) - 0
    BY <1>3
  <2> QED  BY <1>3, <1>5, <2>1, <2>2, Zenon
<1> QED  BY <1>4, <1>5, Zenon
-----------------------------------------------------------------------------
(* Init *)

(* Before and after each node of the list that binit() makes. *)
LEMMA InitList ==
  ASSUME NEW x \in Node
  PROVE  /\ (x + NBUF) % (NBUF + 1) = IF x = 0 THEN NBUF ELSE x - 1
         /\ (x + 1) % (NBUF + 1) = IF x = NBUF THEN 0 ELSE x + 1
<1>1. NBUF \in Nat /\ x \in 0..NBUF
  BY BioAssumption DEF BioAssumption, Node
<1> DEFINE d == NBUF + 1
<1>2. d \in Nat \ {0}
  BY <1>1
<1>3. ASSUME NEW r \in 0..d - 1 PROVE r % d = r /\ (d + r) % d = r
  <2> HIDE DEF d
  <2> QED  BY <1>2, <1>3
<1>4. x + NBUF = IF x = 0 THEN NBUF ELSE d + (x - 1)
  BY <1>1
<1>5. x + 1 = IF x = NBUF THEN d + 0 ELSE x + 1
  BY <1>1
<1>6. /\ NBUF \in 0..d - 1 /\ 0 \in 0..d - 1
      /\ x # 0 => x - 1 \in 0..d - 1
      /\ x # NBUF => x + 1 \in 0..d - 1
  BY <1>1
<1> HIDE DEF d
<1>7. (x + NBUF) % d = IF x = 0 THEN NBUF ELSE x - 1
  BY <1>3, <1>4, <1>6, Zenon
<1>8. (x + 1) % d = IF x = NBUF THEN 0 ELSE x + 1
  BY <1>3, <1>5, <1>6, Zenon
<1> QED  BY <1>7, <1>8, Zenon DEF d

(* binit() makes a ring of all buffers that nobody uses. *)
LEMMA IInvInit ==
  ASSUME FiniteCounts, IsFiniteSet({}), Cardinality({}) = 0, Init
  PROVE  IInv
<1>1. NBUF \in Nat \ {0} /\ 0 \in Data /\ None \notin Proc \cup Block
  BY BioAssumption DEF BioAssumption
<1>2. \A x \in Node : /\ nxt[x] = IF x = 0 THEN NBUF ELSE x - 1
                      /\ prv[x] = IF x = NBUF THEN 0 ELSE x + 1
  BY InitList DEF Init
<1>3. nxt \in [Node -> Node] /\ prv \in [Node -> Node]
  <2>1. nxt = [x \in Node |-> nxt[x]] /\ prv = [x \in Node |-> prv[x]]
    BY DEF Init
  <2>2. \A x \in Node : nxt[x] \in Node /\ prv[x] \in Node
    BY <1>1, <1>2 DEF Node
  <2> QED  BY <2>1, <2>2, Zenon
<1>4. TypeOK
  <2>1. /\ blk \in [Buf -> Block \cup {None}]
        /\ disk \in [Block -> Data]
        /\ pinned \subseteq Block
        /\ lock \in [Buf -> Proc \cup {None}]
        /\ want \in [Proc -> Block \cup {None}]
    BY Zenon DEF Init
  <2>2. valid \in [Buf -> {0, 1}] /\ ref \in [Buf -> Nat] /\ data \in [Buf -> Data]
    BY <1>1 DEF Init
  <2>3. pc \in [Proc -> Refers \cup {"idle", "panic"}] /\ buf \in [Proc -> Node]
    BY Nodes DEF Init, Refers
  <2> QED  BY <1>3, <2>1, <2>2, <2>3, Zenon DEF TypeOK
<1>5. Ring
  <2> DEFINE pos == [x \in Node |-> IF x = 0 THEN 0 ELSE NBUF + 1 - x]
  <2>1. \A x \in Node : pos[x] = IF x = 0 THEN 0 ELSE NBUF + 1 - x
    BY Zenon
  <2>2. \A x \in Node : x \in 0..NBUF /\ pos[x] \in 0..NBUF
    BY <1>1, <2>1 DEF Node
  <2>3. pos \in [Node -> Node] /\ pos \in [Node -> Nat]
    <3>1. pos = [x \in Node |-> pos[x]]
      BY Zenon
    <3>2. \A x \in Node : pos[x] \in Node /\ pos[x] \in Nat
      BY <1>1, <2>2 DEF Node
    <3> QED  BY <3>1, <3>2, Zenon
  <2> HIDE DEF pos
  <2>4. 0 \in Node /\ pos[0] = 0 /\ NBUF \in Node
    BY <1>1, <2>1 DEF Node
  <2>5. \A x, y \in Node : pos[x] = pos[y] => x = y
    BY <1>1, <2>1, <2>2
  <2>6. ASSUME NEW x \in Node
        PROVE  /\ nxt[x] # 0 => pos[nxt[x]] = pos[x] + 1
               /\ prv[nxt[x]] = x /\ nxt[prv[x]] = x
    <3>1. nxt[x] \in Node /\ prv[x] \in Node
      BY <1>3, Zenon
    <3>2. nxt[x] = (IF x = 0 THEN NBUF ELSE x - 1) /\ prv[x] = (IF x = NBUF THEN 0 ELSE x + 1)
      BY <1>2, Zenon
    <3>3. pos[nxt[x]] = (IF nxt[x] = 0 THEN 0 ELSE NBUF + 1 - nxt[x])
          /\ pos[x] = (IF x = 0 THEN 0 ELSE NBUF + 1 - x)
      BY <2>1, <3>1, Zenon
    <3>4. prv[nxt[x]] = (IF nxt[x] = NBUF THEN 0 ELSE nxt[x] + 1)
          /\ nxt[prv[x]] = (IF prv[x] = 0 THEN NBUF ELSE prv[x] - 1)
      BY <1>2, <3>1, Zenon
    <3>5. x \in 0..NBUF
      BY <2>2, Zenon
    <3> QED  BY <1>1, <3>2, <3>3, <3>4, <3>5
  <2>7. ASSUME NEW x \in Node, NEW y \in Node, nxt[x] = 0 PROVE pos[y] <= pos[x]
    <3>1. x = 1
      BY <1>1, <1>2, <2>2, <2>7
    <3> QED  BY <1>1, <2>1, <2>2, <3>1
  <2>8. Numbers(pos, nxt, prv)
    BY <2>3, <2>4, <2>5, <2>6, <2>7, Zenon DEF Numbers, head
  <2> QED  BY <2>3, <2>8, Zenon DEF Ring
<1>6. \A b \in Buf : blk[b] = None /\ valid[b] = 0 /\ ref[b] = 0
  BY DEF Init
<1>7. pinned = {} /\ \A p \in Proc : pc[p] = "idle" /\ buf[p] = head
  BY DEF Init
<1>8. Once /\ Clean
  BY <1>6, <1>7 DEF Once, Clean
<1>9. Got
  BY <1>7 DEF Got, GotBy, Refers, Locked
<1>10. Counted
  <2>1. ASSUME NEW b \in Buf PROVE Users(b) = {} /\ Pin(b) = 0
    <3>1. b # head
      BY Nodes, Zenon
    <3> QED  BY <1>7, <3>1 DEF Users, Pin
  <2>2. 0 = 0 + 0
    OBVIOUS
  <2> QED  BY <1>6, <2>1, <2>2, Zenon DEF Counted
<1> QED  BY <1>4, <1>5, <1>8, <1>9, <1>10, Zenon DEF IInv
-----------------------------------------------------------------------------
(* The steps preserve the invariant *)

(* What a process that has the lock of a buffer has to itself. *)
LEMMA HasBuffer ==
  ASSUME IInv, NEW p \in Proc, pc[p] \in Refers
  PROVE  /\ buf[p] \in Buf /\ blk[buf[p]] \in Block /\ blk[buf[p]] = want[p]
         /\ \A c \in Buf : blk[c] = blk[buf[p]] => c = buf[p]
         /\ pc[p] \in Locked =>
              \A q \in Proc : pc[q] \in Locked /\ buf[q] = buf[p] => q = p
<1>1. buf[p] \in Buf /\ want[p] \in Block /\ blk[buf[p]] = want[p]
  BY Zenon DEF IInv, Got, GotBy
<1>2. want[p] # None
  BY <1>1, BioAssumption, Zenon DEF BioAssumption
<1>3. \A c \in Buf : blk[c] = blk[buf[p]] => c = buf[p]
  BY <1>1, <1>2, Zenon DEF IInv, Once
<1>4. ASSUME pc[p] \in Locked, NEW q \in Proc, pc[q] \in Locked, buf[q] = buf[p]
      PROVE  q = p
  <2>1. lock[buf[p]] = p /\ lock[buf[q]] = q
    BY <1>4, Zenon DEF IInv, Got, GotBy
  <2> QED  BY <1>4, <2>1, Zenon
<1> QED  BY <1>1, <1>3, <1>4, Zenon

(* A step of p changes the program counter of p only. *)
LEMMA PcStep ==
  ASSUME pc \in [Proc -> Refers \cup {"idle", "panic"}], NEW p \in Proc,
         NEW label \in Refers \cup {"idle", "panic"}, Goto(p, label)
  PROVE  /\ pc' \in [Proc -> Refers \cup {"idle", "panic"}]
         /\ \A q \in Proc : pc'[q] = IF q = p THEN label ELSE pc[q]
<1>1. pc' = [pc EXCEPT ![p] = label]
  BY Zenon DEF Goto
<1> QED  BY <1>1, Assigned, Zenon

(* acquiresleep() in bget(): the lock was free, so nobody else is in       *)
(* the part of bread(), bwrite() or a caller that needs it.                *)
LEMMA LockStep ==
  ASSUME IInv, NEW p \in Proc, Lock(p)
  PROVE  IInv'
<1> DEFINE b == buf[p]
           label == IF valid[b] = 1 THEN "use" ELSE "read"
<1>1. /\ pc[p] = "lock" /\ lock[b] = None /\ lock' = [lock EXCEPT ![b] = p] /\ Goto(p, label)
      /\ UNCHANGED <<list, blk, valid, ref, data, disk, pinned, want, buf>>
  BY Zenon DEF Lock
<1>2. /\ nxt' = nxt /\ prv' = prv /\ blk' = blk /\ valid' = valid /\ ref' = ref
      /\ data' = data /\ disk' = disk /\ pinned' = pinned /\ want' = want /\ buf' = buf
  BY <1>1, Zenon DEF list
<1>3. pc[p] \in Refers /\ b \in Buf
  <2>1. pc[p] \in Refers
    BY <1>1 DEF Refers
  <2> QED  BY <2>1, HasBuffer, Zenon
<1>4. label \in {"use", "read"} /\ label \in Refers \cup {"idle", "panic"}
  BY DEF Refers
<1>5. TypeOK
  BY Zenon DEF IInv
<1>6. /\ pc' \in [Proc -> Refers \cup {"idle", "panic"}]
      /\ \A q \in Proc : pc'[q] = IF q = p THEN label ELSE pc[q]
  <2> HIDE DEF label
  <2> QED  BY <1>1, <1>4, <1>5, PcStep, Zenon DEF TypeOK
<1>7. lock' \in [Buf -> Proc \cup {None}] /\ \A c \in Buf : lock'[c] = IF c = b THEN p ELSE lock[c]
  BY <1>1, <1>3, <1>5 DEF TypeOK
<1>8. TypeOK'
  BY <1>2, <1>5, <1>6, <1>7, Zenon DEF TypeOK
<1>9. (Ring /\ Once /\ Counted /\ Clean)'
  BY <1>2, Zenon DEF IInv, Ring, Once, Counted, Clean, Users, Pin
<1>10. Got'
  <2> SUFFICES ASSUME NEW q \in Proc
      PROVE /\ pc'[q] \in Refers => buf[q] \in Buf /\ want[q] \in Block /\ blk[buf[q]] = want[q]
            /\ pc'[q] \notin Refers => buf[q] = head
            /\ pc'[q] \in Locked => lock'[buf[q]] = q
            /\ pc'[q] \in {"use", "unpin"} => valid[buf[q]] = 1
            /\ pc'[q] = "read" => valid[buf[q]] = 0
            /\ pc'[q] = "unpin" => blk[buf[q]] \in pinned /\ data[buf[q]] = disk[blk[buf[q]]]
    BY <1>2, Zenon DEF Got, GotBy
  <2>1. CASE q = p
    <3>1. pc'[q] = label /\ buf[q] = b /\ label \in Refers /\ label # "unpin" /\ lock'[b] = q
      BY <1>3, <1>4, <1>6, <1>7, <2>1 DEF Refers
    <3>2. b \in Buf /\ want[q] \in Block /\ blk[b] = want[q]
      BY <1>3, <2>1, Zenon DEF IInv, Got, GotBy
    <3>3. /\ label \in {"use", "unpin"} => valid[b] = 1
          /\ label = "read" => valid[b] = 0
      BY <1>3, <1>5 DEF TypeOK
    <3> HIDE DEF label, b
    <3> QED  BY <3>1, <3>2, <3>3, Zenon
  <2>2. CASE q # p
    <3>1. pc'[q] = pc[q]
      BY <1>6, <2>2, Zenon
    <3>2. pc[q] \in Locked => lock[buf[q]] = q /\ buf[q] \in Buf
      BY Zenon DEF IInv, Got, GotBy, Locked, Refers
    <3>3. q # None
      BY BioAssumption, Zenon DEF BioAssumption
    <3>4. pc[q] \in Locked => lock'[buf[q]] = q
      BY <1>1, <1>7, <3>2, <3>3, Zenon
    <3> QED  BY <3>1, <3>4, Zenon DEF IInv, Got, GotBy
  <2> QED  BY <2>1, <2>2, Zenon
<1> QED  BY <1>8, <1>9, <1>10, Zenon DEF IInv

(* virtio_disk_rw() in bread() fills the buffer. *)
LEMMA ReadStep ==
  ASSUME IInv, NEW p \in Proc, Read(p)
  PROVE  IInv'
<1> DEFINE b == buf[p]
<1>1. /\ pc[p] = "read" /\ data' = [data EXCEPT ![b] = disk[blk[b]]]
      /\ valid' = [valid EXCEPT ![b] = 1] /\ Goto(p, "use")
      /\ UNCHANGED <<list, blk, ref, lock, disk, pinned, want, buf>>
  BY Zenon DEF Read
<1>2. /\ nxt' = nxt /\ prv' = prv /\ blk' = blk /\ ref' = ref /\ lock' = lock
      /\ disk' = disk /\ pinned' = pinned /\ want' = want /\ buf' = buf
  BY <1>1, Zenon DEF list
<1>3. pc[p] \in Refers /\ pc[p] \in Locked
  BY <1>1 DEF Refers, Locked
<1>4. /\ b \in Buf /\ blk[b] \in Block
      /\ \A q \in Proc : pc[q] \in Locked /\ buf[q] = b => q = p
  BY <1>3, HasBuffer, Zenon
<1>5. TypeOK
  BY Zenon DEF IInv
<1>6. /\ pc' \in [Proc -> Refers \cup {"idle", "panic"}]
      /\ \A q \in Proc : pc'[q] = IF q = p THEN "use" ELSE pc[q]
  <2>1. "use" \in Refers \cup {"idle", "panic"}
    BY DEF Refers
  <2> QED  BY <1>1, <1>5, <2>1, PcStep, Zenon DEF TypeOK
<1>7. data' \in [Buf -> Data] /\ \A c \in Buf : data'[c] = IF c = b THEN disk[blk[b]] ELSE data[c]
  BY <1>1, <1>4, <1>5 DEF TypeOK
<1>8. valid' \in [Buf -> {0, 1}] /\ \A c \in Buf : valid'[c] = IF c = b THEN 1 ELSE valid[c]
  BY <1>1, <1>4, <1>5 DEF TypeOK
<1>9. TypeOK'
  BY <1>2, <1>5, <1>6, <1>7, <1>8, Zenon DEF TypeOK
<1>10. (Ring /\ Once /\ Counted)'
  BY <1>2, Zenon DEF IInv, Ring, Once, Counted, Users, Pin
<1>11. Clean'
  <2>1. ASSUME NEW c \in Buf, valid'[c] = 1
        PROVE  blk[c] \in Block /\ (blk[c] \notin pinned => data'[c] = disk[blk[c]])
    <3>1. CASE c = b
      BY <1>4, <1>7, <3>1, Zenon
    <3>2. CASE c # b
      <4>1. valid[c] = 1 /\ data'[c] = data[c]
        BY <1>7, <1>8, <2>1, <3>2, Zenon
      <4> QED  BY <4>1, Zenon DEF IInv, Clean
    <3> QED  BY <3>1, <3>2, Zenon
  <2> QED  BY <1>2, <2>1, Zenon DEF Clean
<1>12. Got'
  <2> SUFFICES ASSUME NEW q \in Proc PROVE GotBy(q)'
    BY Zenon DEF Got
  <2>1. GotBy(q)
    BY Zenon DEF IInv, Got
  <2>2. CASE q = p
    <3>1. pc'[q] = "use" /\ valid'[b] = 1 /\ lock[b] = q
      BY <1>3, <1>4, <1>6, <1>8, <2>1, <2>2, Zenon DEF GotBy
    <3>2. b \in Buf /\ want[q] \in Block /\ blk[b] = want[q]
      BY <1>3, <2>1, <2>2, Zenon DEF GotBy
    <3> QED  BY <1>2, <2>2, <3>1, <3>2 DEF GotBy, Refers
  <2>3. CASE q # p
    <3>1. pc'[q] = pc[q]
      BY <1>6, <2>3, Zenon
    <3>2. pc[q] \in Locked => buf[q] \in Buf /\ buf[q] # b
      BY <1>4, <2>1, <2>3, Zenon DEF GotBy, Locked, Refers
    <3>3. pc[q] \in Locked => valid'[buf[q]] = valid[buf[q]] /\ data'[buf[q]] = data[buf[q]]
      BY <1>7, <1>8, <3>2, Zenon
    <3> QED  BY <1>2, <2>1, <3>1, <3>3, Zenon DEF GotBy, Locked
  <2> QED  BY <2>2, <2>3, Zenon
<1> QED  BY <1>9, <1>10, <1>11, <1>12, Zenon DEF IInv

(* log_write() and the change before it: the block is pinned afterwards,   *)
(* with one reference for the log.                                         *)
LEMMA LogWriteStep ==
  ASSUME IInv, FiniteCounts, NEW p \in Proc, NEW d \in Data, LogWrite(p, d)
  PROVE  IInv'
<1> DEFINE b == buf[p]
           n == IF blk[b] \in pinned THEN ref[b] ELSE ref[b] + 1
<1>1. /\ pc[p] = "use" /\ data' = [data EXCEPT ![b] = d]
      /\ ref' = [ref EXCEPT ![b] = IF blk[b] \in pinned THEN @ ELSE @ + 1]
      /\ pinned' = pinned \cup {blk[b]}
      /\ UNCHANGED <<list, blk, valid, lock, disk, pc, want, buf>>
  BY Zenon DEF LogWrite
<1>2. /\ nxt' = nxt /\ prv' = prv /\ blk' = blk /\ valid' = valid /\ lock' = lock
      /\ disk' = disk /\ pc' = pc /\ want' = want /\ buf' = buf
  BY <1>1, Zenon DEF list
<1>3. pc[p] \in Refers /\ pc[p] \in Locked
  BY <1>1 DEF Refers, Locked
<1>4. /\ b \in Buf /\ blk[b] \in Block
      /\ \A c \in Buf : blk[c] = blk[b] => c = b
      /\ \A q \in Proc : pc[q] \in Locked /\ buf[q] = b => q = p
  BY <1>3, HasBuffer, Zenon
<1>5. TypeOK
  BY Zenon DEF IInv
<1>6. data' \in [Buf -> Data] /\ \A c \in Buf : data'[c] = IF c = b THEN d ELSE data[c]
  BY <1>1, <1>4, <1>5 DEF TypeOK
<1>7. ref' \in [Buf -> Nat] /\ \A c \in Buf : ref'[c] = IF c = b THEN n ELSE ref[c]
  BY <1>1, <1>4, <1>5 DEF TypeOK
<1>8. TypeOK'
  BY <1>1, <1>2, <1>4, <1>5, <1>6, <1>7, Zenon DEF TypeOK
<1>9. Ring'
  BY <1>2, Zenon DEF IInv, Ring
<1>10. Once'
  BY <1>1, <1>2, <1>4, Zenon DEF IInv, Once
<1>11. Counted'
  <2> SUFFICES ASSUME NEW c \in Buf
               PROVE  IsFiniteSet(Users(c)) /\ ref'[c] = Cardinality(Users(c)) + Pin(c)'
    BY <1>2, Zenon DEF Counted, Users
  <2>1. IsFiniteSet(Users(c)) /\ ref[c] = Cardinality(Users(c)) + Pin(c)
    BY Zenon DEF IInv, Counted
  <2>2. CASE c = b
    <3>1. Pin(c)' = 1 /\ ref'[c] = n
      BY <1>1, <1>2, <1>4, <1>7, <2>2, Zenon DEF Pin
    <3>2. Pin(c) = IF blk[b] \in pinned THEN 1 ELSE 0
      BY <2>2, Zenon DEF Pin
    <3>3. Cardinality(Users(c)) \in Nat
      BY <2>1, Zenon DEF FiniteCounts, Counts
    <3> QED  BY <2>1, <2>2, <3>1, <3>2, <3>3
  <2>3. CASE c # b
    <3>1. Pin(c)' = Pin(c) /\ ref'[c] = ref[c]
      BY <1>1, <1>2, <1>4, <1>7, <2>3, Zenon DEF Pin
    <3> QED  BY <2>1, <3>1, Zenon
  <2> QED  BY <2>2, <2>3, Zenon
<1>12. Clean'
  BY <1>1, <1>2, <1>4, <1>6, Zenon DEF IInv, Clean
<1>13. Got'
  <2> SUFFICES ASSUME NEW q \in Proc PROVE GotBy(q)'
    BY Zenon DEF Got
  <2>1. GotBy(q)
    BY Zenon DEF IInv, Got
  <2>2. pc[q] = "unpin" => buf[q] \in Buf /\ buf[q] # b
    <3>1. pc[q] = "unpin" => pc[q] \in Locked /\ pc[q] \in Refers /\ q # p
      BY <1>1 DEF Locked, Refers
    <3> QED  BY <1>4, <2>1, <3>1, Zenon DEF GotBy
  <2>3. pc[q] = "unpin" => data'[buf[q]] = data[buf[q]]
    BY <1>6, <2>2, Zenon
  <2> QED  BY <1>1, <1>2, <2>1, <2>3, Zenon DEF GotBy
<1> QED  BY <1>8, <1>9, <1>10, <1>11, <1>12, <1>13, Zenon DEF IInv

(* The log writes a pinned block home: nobody else has its buffer. *)
LEMMA BwriteStep ==
  ASSUME IInv, NEW p \in Proc, Bwrite(p)
  PROVE  IInv'
<1> DEFINE b == buf[p]
<1>1. /\ pc[p] = "use" /\ blk[b] \in pinned
      /\ disk' = [disk EXCEPT ![blk[b]] = data[b]] /\ Goto(p, "unpin")
      /\ UNCHANGED <<list, blk, valid, ref, data, lock, pinned, want, buf>>
  BY Zenon DEF Bwrite
<1>2. /\ nxt' = nxt /\ prv' = prv /\ blk' = blk /\ valid' = valid /\ ref' = ref
      /\ data' = data /\ lock' = lock /\ pinned' = pinned /\ want' = want /\ buf' = buf
  BY <1>1, Zenon DEF list
<1>3. pc[p] \in Refers /\ pc[p] \in Locked
  BY <1>1 DEF Refers, Locked
<1>4. /\ b \in Buf /\ blk[b] \in Block
      /\ \A c \in Buf : blk[c] = blk[b] => c = b
      /\ \A q \in Proc : pc[q] \in Locked /\ buf[q] = b => q = p
  BY <1>3, HasBuffer, Zenon
<1>5. TypeOK
  BY Zenon DEF IInv
<1>6. /\ pc' \in [Proc -> Refers \cup {"idle", "panic"}]
      /\ \A q \in Proc : pc'[q] = IF q = p THEN "unpin" ELSE pc[q]
  <2>1. "unpin" \in Refers \cup {"idle", "panic"}
    BY DEF Refers
  <2> QED  BY <1>1, <1>5, <2>1, PcStep, Zenon DEF TypeOK
<1>7. disk' \in [Block -> Data] /\ \A k \in Block : disk'[k] = IF k = blk[b] THEN data[b] ELSE disk[k]
  BY <1>1, <1>4, <1>5 DEF TypeOK
<1>8. TypeOK'
  BY <1>2, <1>5, <1>6, <1>7, Zenon DEF TypeOK
<1>9. (Ring /\ Once /\ Counted)'
  BY <1>2, Zenon DEF IInv, Ring, Once, Counted, Users, Pin
<1>10. Clean'
  <2>1. ASSUME NEW c \in Buf, valid[c] = 1
        PROVE  blk[c] \in Block /\ (blk[c] \notin pinned => data[c] = disk'[blk[c]])
    <3>1. blk[c] \in Block /\ (blk[c] \notin pinned => data[c] = disk[blk[c]])
      BY <2>1, Zenon DEF IInv, Clean
    <3> QED  BY <1>1, <1>7, <3>1, Zenon
  <2> QED  BY <1>2, <2>1, Zenon DEF Clean
<1>11. Got'
  <2> SUFFICES ASSUME NEW q \in Proc PROVE GotBy(q)'
    BY Zenon DEF Got
  <2>1. GotBy(q)
    BY Zenon DEF IInv, Got
  <2>2. CASE q = p
    <3>1. pc'[q] = "unpin" /\ disk'[blk[b]] = data[b]
      BY <1>4, <1>6, <1>7, <2>2, Zenon
    <3>2. b \in Buf /\ want[q] \in Block /\ blk[b] = want[q] /\ lock[b] = q /\ valid[b] = 1
      BY <1>1, <1>3, <2>1, <2>2, Zenon DEF GotBy
    <3> QED  BY <1>1, <1>2, <2>2, <3>1, <3>2 DEF GotBy, Refers
  <2>3. CASE q # p
    <3>1. pc'[q] = pc[q]
      BY <1>6, <2>3, Zenon
    <3>2. pc[q] = "unpin" => blk[buf[q]] \in Block /\ blk[buf[q]] # blk[b]
      <4>1. pc[q] = "unpin" => pc[q] \in Locked /\ pc[q] \in Refers
        BY DEF Locked, Refers
      <4>2. pc[q] = "unpin" => buf[q] \in Buf /\ buf[q] # b /\ blk[buf[q]] \in Block
        BY <1>4, <2>1, <2>3, <4>1, Zenon DEF GotBy
      <4> QED  BY <1>4, <4>2, Zenon
    <3>3. pc[q] = "unpin" => disk'[blk[buf[q]]] = disk[blk[buf[q]]]
      BY <1>7, <3>2, Zenon
    <3> QED  BY <1>2, <2>1, <3>1, <3>3, Zenon DEF GotBy
  <2> QED  BY <2>2, <2>3, Zenon
<1> QED  BY <1>8, <1>9, <1>10, <1>11, Zenon DEF IInv

(* bunpin() gives up the reference of the log to a block that is home. *)
LEMMA BunpinStep ==
  ASSUME IInv, FiniteCounts, NEW p \in Proc, Bunpin(p)
  PROVE  IInv'
<1> DEFINE b == buf[p]
<1>1. /\ pc[p] = "unpin" /\ ref' = [ref EXCEPT ![b] = @ - 1]
      /\ pinned' = pinned \ {blk[b]} /\ Goto(p, "use")
      /\ UNCHANGED <<list, blk, valid, data, lock, disk, want, buf>>
  BY Zenon DEF Bunpin
<1>2. /\ nxt' = nxt /\ prv' = prv /\ blk' = blk /\ valid' = valid /\ data' = data
      /\ lock' = lock /\ disk' = disk /\ want' = want /\ buf' = buf
  BY <1>1, Zenon DEF list
<1>3. pc[p] \in Refers /\ pc[p] \in Locked
  BY <1>1 DEF Refers, Locked
<1>4. /\ b \in Buf /\ blk[b] \in Block
      /\ \A c \in Buf : blk[c] = blk[b] => c = b
      /\ \A q \in Proc : pc[q] \in Locked /\ buf[q] = b => q = p
  BY <1>3, HasBuffer, Zenon
<1>5. TypeOK /\ GotBy(p)
  BY Zenon DEF IInv, Got
<1>6. /\ pc' \in [Proc -> Refers \cup {"idle", "panic"}]
      /\ \A q \in Proc : pc'[q] = IF q = p THEN "use" ELSE pc[q]
  <2>1. "use" \in Refers \cup {"idle", "panic"}
    BY DEF Refers
  <2> QED  BY <1>1, <1>5, <2>1, PcStep, Zenon DEF TypeOK
<1>7. blk[b] \in pinned /\ data[b] = disk[blk[b]]
  BY <1>1, <1>5, Zenon DEF GotBy
<1>8. ref[b] - 1 \in Nat /\ ref[b] - 1 = Cardinality(Users(b)) + 0
  <2>1. IsFiniteSet(Users(b)) /\ ref[b] = Cardinality(Users(b)) + 1
    BY <1>4, <1>7, Zenon DEF IInv, Counted, Pin
  <2>2. Cardinality(Users(b)) \in Nat
    BY <2>1, Zenon DEF FiniteCounts, Counts
  <2> QED  BY <2>1, <2>2
<1>9. ref' \in [Buf -> Nat] /\ \A c \in Buf : ref'[c] = IF c = b THEN ref[b] - 1 ELSE ref[c]
  BY <1>1, <1>4, <1>5, <1>8 DEF TypeOK
<1>10. TypeOK'
  BY <1>1, <1>2, <1>5, <1>6, <1>9, Zenon DEF TypeOK
<1>11. (Ring /\ Once)'
  BY <1>1, <1>2, Zenon DEF IInv, Ring, Once
<1>12. Counted'
  <2> SUFFICES ASSUME NEW c \in Buf
               PROVE  IsFiniteSet(Users(c)) /\ ref'[c] = Cardinality(Users(c)) + Pin(c)'
    BY <1>2, Zenon DEF Counted, Users
  <2>1. IsFiniteSet(Users(c)) /\ ref[c] = Cardinality(Users(c)) + Pin(c)
    BY Zenon DEF IInv, Counted
  <2>2. CASE c = b
    <3>1. Pin(c)' = 0 /\ ref'[c] = ref[b] - 1
      BY <1>1, <1>2, <1>9, <2>2, Zenon DEF Pin
    <3> QED  BY <1>8, <2>1, <2>2, <3>1, Zenon
  <2>3. CASE c # b
    <3>1. Pin(c)' = Pin(c) /\ ref'[c] = ref[c]
      BY <1>1, <1>2, <1>4, <1>9, <2>3, Zenon DEF Pin
    <3> QED  BY <2>1, <3>1, Zenon
  <2> QED  BY <2>2, <2>3, Zenon
<1>13. Clean'
  BY <1>1, <1>2, <1>4, <1>7, Zenon DEF IInv, Clean
<1>14. Got'
  <2> SUFFICES ASSUME NEW q \in Proc PROVE GotBy(q)'
    BY Zenon DEF Got
  <2>1. GotBy(q)
    BY Zenon DEF IInv, Got
  <2>2. CASE q = p
    <3>1. b \in Buf /\ want[q] \in Block /\ blk[b] = want[q] /\ lock[b] = q /\ valid[b] = 1
      BY <1>1, <1>3, <2>1, <2>2, Zenon DEF GotBy
    <3> QED  BY <1>2, <1>6, <2>2, <3>1 DEF GotBy, Refers
  <2>3. CASE q # p
    <3>1. pc'[q] = pc[q]
      BY <1>6, <2>3, Zenon
    <3>2. pc[q] = "unpin" => blk[buf[q]] \in pinned'
      <4>1. pc[q] = "unpin" => pc[q] \in Locked /\ pc[q] \in Refers
        BY DEF Locked, Refers
      <4>2. pc[q] = "unpin" => buf[q] \in Buf /\ buf[q] # b /\ blk[buf[q]] \in pinned
        BY <1>4, <2>1, <2>3, <4>1, Zenon DEF GotBy
      <4> QED  BY <1>1, <1>4, <4>2, Zenon
    <3> QED  BY <1>2, <2>1, <3>1, <3>2, Zenon DEF GotBy
  <2> QED  BY <2>2, <2>3, Zenon
<1> QED  BY <1>10, <1>11, <1>12, <1>13, <1>14, Zenon DEF IInv

(* releasesleep() in brelse(): the caller had the lock. *)
LEMMA UnlockStep ==
  ASSUME IInv, NEW p \in Proc, Unlock(p)
  PROVE  IInv'
<1> DEFINE b == buf[p]
<1>1. /\ pc[p] = "use" /\ lock' = [lock EXCEPT ![b] = None] /\ Goto(p, "unref")
      /\ UNCHANGED <<list, blk, valid, ref, data, disk, pinned, want, buf>>
  BY Zenon DEF Unlock
<1>2. /\ nxt' = nxt /\ prv' = prv /\ blk' = blk /\ valid' = valid /\ ref' = ref
      /\ data' = data /\ disk' = disk /\ pinned' = pinned /\ want' = want /\ buf' = buf
  BY <1>1, Zenon DEF list
<1>3. pc[p] \in Refers /\ pc[p] \in Locked
  BY <1>1 DEF Refers, Locked
<1>4. b \in Buf /\ \A q \in Proc : pc[q] \in Locked /\ buf[q] = b => q = p
  BY <1>3, HasBuffer, Zenon
<1>5. TypeOK
  BY Zenon DEF IInv
<1>6. /\ pc' \in [Proc -> Refers \cup {"idle", "panic"}]
      /\ \A q \in Proc : pc'[q] = IF q = p THEN "unref" ELSE pc[q]
  <2>1. "unref" \in Refers \cup {"idle", "panic"}
    BY DEF Refers
  <2> QED  BY <1>1, <1>5, <2>1, PcStep, Zenon DEF TypeOK
<1>7. lock' \in [Buf -> Proc \cup {None}] /\ \A c \in Buf : lock'[c] = IF c = b THEN None ELSE lock[c]
  BY <1>1, <1>4, <1>5 DEF TypeOK
<1>8. TypeOK'
  BY <1>2, <1>5, <1>6, <1>7, Zenon DEF TypeOK
<1>9. (Ring /\ Once /\ Counted /\ Clean)'
  BY <1>2, Zenon DEF IInv, Ring, Once, Counted, Clean, Users, Pin
<1>10. Got'
  <2> SUFFICES ASSUME NEW q \in Proc PROVE GotBy(q)'
    BY Zenon DEF Got
  <2>1. GotBy(q)
    BY Zenon DEF IInv, Got
  <2>2. CASE q = p
    <3>1. b \in Buf /\ want[q] \in Block /\ blk[b] = want[q]
      BY <1>3, <2>1, <2>2, Zenon DEF GotBy
    <3> QED  BY <1>2, <1>6, <2>2, <3>1 DEF GotBy, Refers, Locked
  <2>3. CASE q # p
    <3>1. pc'[q] = pc[q]
      BY <1>6, <2>3, Zenon
    <3>2. pc[q] \in Locked => lock'[buf[q]] = lock[buf[q]]
      <4>1. pc[q] \in Locked => buf[q] \in Buf /\ buf[q] # b
        BY <1>4, <2>1, <2>3, Zenon DEF GotBy, Locked, Refers
      <4> QED  BY <1>7, <4>1, Zenon
    <3> QED  BY <1>2, <2>1, <3>1, <3>2, Zenon DEF GotBy
  <2> QED  BY <2>2, <2>3, Zenon
<1> QED  BY <1>8, <1>9, <1>10, Zenon DEF IInv

(* The rest of brelse(): one user less, and the list may change. *)
LEMMA UnrefStep ==
  ASSUME IInv, FiniteCounts, NEW p \in Proc, Unref(p)
  PROVE  IInv'
<1> DEFINE b == buf[p]
<1>1. /\ pc[p] = "unref" /\ ref' = [ref EXCEPT ![b] = @ - 1]
      /\ IF ref[b] = 1 THEN ToFront(b) ELSE UNCHANGED list
      /\ Goto(p, "idle") /\ want' = [want EXCEPT ![p] = None]
      /\ buf' = [buf EXCEPT ![p] = head]
      /\ UNCHANGED <<blk, valid, data, lock, disk, pinned>>
  BY Zenon DEF Unref
<1>2. /\ blk' = blk /\ valid' = valid /\ data' = data /\ lock' = lock
      /\ disk' = disk /\ pinned' = pinned
  BY <1>1, Zenon
<1>3. pc[p] \in Refers
  BY <1>1 DEF Refers
<1>4. b \in Buf
  BY <1>3, HasBuffer, Zenon
<1>5. TypeOK /\ Counted
  BY Zenon DEF IInv
<1>6. /\ pc' \in [Proc -> Refers \cup {"idle", "panic"}]
      /\ \A q \in Proc : pc'[q] = IF q = p THEN "idle" ELSE pc[q]
  <2>1. "idle" \in Refers \cup {"idle", "panic"}
    BY Zenon
  <2> QED  BY <1>1, <1>5, <2>1, PcStep, Zenon DEF TypeOK
<1>7. want' \in [Proc -> Block \cup {None}] /\ \A q \in Proc : q # p => want'[q] = want[q]
  BY <1>1, <1>5 DEF TypeOK
<1>8. buf' \in [Proc -> Node] /\ \A q \in Proc : buf'[q] = IF q = p THEN head ELSE buf[q]
  BY <1>1, <1>5, Nodes DEF TypeOK
<1>9. ASSUME NEW c \in Buf
      PROVE  /\ IsFiniteSet(Users(c)') /\ Cardinality(Users(c)) \in Nat
             /\ Cardinality(Users(c)') \in Nat
             /\ Cardinality(Users(c)') = Cardinality(Users(c)) - (IF c = b THEN 1 ELSE 0)
  BY <1>1, <1>4, <1>5, LeaveUsers, Zenon DEF TypeOK
<1>10. \A c \in Buf : ref[c] = Cardinality(Users(c)) + Pin(c) /\ Pin(c)' = Pin(c) /\ Pin(c) \in {0, 1}
  BY <1>2, <1>5, Zenon DEF Counted, Pin
<1>11. ref[b] - 1 \in Nat
  <2>1. PICK c \in Buf : c = b
    BY <1>4, Zenon
  <2>2. /\ Cardinality(Users(c)) \in Nat /\ Cardinality(Users(c)') \in Nat
        /\ Cardinality(Users(c)') = Cardinality(Users(c)) - 1
    BY <1>9, <2>1, Zenon
  <2>3. Pin(c) \in {0, 1} /\ ref[c] = Cardinality(Users(c)) + Pin(c)
    BY <1>10, Zenon
  <2>4. ref[c] - 1 \in Nat
    BY <2>2, <2>3
  <2> QED  BY <2>1, <2>4, Zenon
<1>12. ref' \in [Buf -> Nat] /\ \A c \in Buf : ref'[c] = IF c = b THEN ref[b] - 1 ELSE ref[c]
  BY <1>1, <1>4, <1>5, <1>11 DEF TypeOK
<1>13. nxt' \in [Node -> Node] /\ prv' \in [Node -> Node] /\ Ring'
  <2>1. nxt \in [Node -> Node] /\ prv \in [Node -> Node]
    BY <1>5, Zenon DEF TypeOK
  <2>2. PICK pos \in [Node -> Node] : Numbers(pos, nxt, prv)
    BY Zenon DEF IInv, Ring
  <2>3. CASE ref[b] = 1
    <3>1. FrontOf(nxt, prv, b, nxt', prv')
      BY <1>1, <2>3, Zenon DEF ToFront, FrontOf
    <3> DEFINE l2 == nxt'
               m2 == prv'
    <3>2. FrontOf(nxt, prv, b, l2, m2)
      BY <3>1, Zenon
    <3> HIDE DEF l2, m2, b
    <3>3. /\ l2 \in [Node -> Node] /\ m2 \in [Node -> Node]
          /\ \E q \in [Node -> Node] : Numbers(q, l2, m2)
      BY <1>4, <2>1, <2>2, <3>2, FrontNumbers, Zenon
    <3> QED  BY <3>3, Zenon DEF Ring, l2, m2
  <2>4. CASE ref[b] # 1
    <3>1. nxt' = nxt /\ prv' = prv
      BY <1>1, <2>4, Zenon DEF list
    <3> QED  BY <2>1, <3>1, Zenon DEF IInv, Ring
  <2> QED  BY <2>3, <2>4, Zenon
<1>14. TypeOK'
  BY <1>2, <1>5, <1>6, <1>7, <1>8, <1>12, <1>13, Zenon DEF TypeOK
<1>15. (Once /\ Clean)'
  BY <1>2, Zenon DEF IInv, Once, Clean
<1>16. Counted'
  <2> SUFFICES ASSUME NEW c \in Buf
               PROVE  IsFiniteSet(Users(c)') /\ ref'[c] = Cardinality(Users(c)') + Pin(c)'
    BY Zenon DEF Counted
  <2>1. /\ IsFiniteSet(Users(c)') /\ Cardinality(Users(c)) \in Nat
        /\ Cardinality(Users(c)') = Cardinality(Users(c)) - (IF c = b THEN 1 ELSE 0)
    BY <1>9, Zenon
  <2>2. ref[c] = Cardinality(Users(c)) + Pin(c) /\ Pin(c)' = Pin(c) /\ Pin(c) \in {0, 1}
    BY <1>10, Zenon
  <2>3. ref'[c] = IF c = b THEN ref[c] - 1 ELSE ref[c]
    BY <1>12, Zenon
  <2>4. ref'[c] = Cardinality(Users(c)') + Pin(c)
    <3> HIDE DEF b
    <3> QED  BY <2>1, <2>2, <2>3
  <2> QED  BY <2>1, <2>2, <2>4, Zenon
<1>17. Got'
  <2> SUFFICES ASSUME NEW q \in Proc PROVE GotBy(q)'
    BY Zenon DEF Got
  <2>1. GotBy(q)
    BY Zenon DEF IInv, Got
  <2>2. CASE q = p
    <3>1. pc'[q] = "idle" /\ buf'[q] = head
      BY <1>6, <1>8, <2>2, Zenon
    <3> QED  BY <3>1 DEF GotBy, Refers, Locked
  <2>3. CASE q # p
    <3>1. pc'[q] = pc[q] /\ buf'[q] = buf[q] /\ want'[q] = want[q]
      BY <1>6, <1>7, <1>8, <2>3, Zenon
    <3> QED  BY <1>2, <2>1, <3>1, Zenon DEF GotBy
  <2> QED  BY <2>2, <2>3, Zenon
<1> QED  BY <1>13, <1>14, <1>15, <1>16, <1>17, Zenon DEF IInv

(* bget() finds the block: one user more. *)
LEMMA HitStep ==
  ASSUME IInv, NatWellOrdered, FiniteCounts, NEW p \in Proc, NEW k \in Block,
         pc[p] = "idle", want' = [want EXCEPT ![p] = k], Hit(p, k),
         buf' = [buf EXCEPT ![p] = Cached(k)], Goto(p, "lock"),
         UNCHANGED <<list, blk, valid, data, lock, disk, pinned>>
  PROVE  IInv'
<1> DEFINE b == Cached(k)
<1>1. TypeOK /\ Ring /\ Counted
  BY Zenon DEF IInv
<1>2. b \in Buf /\ blk[b] = k
  BY <1>1, CachedFacts, Zenon DEF Hit
<1>3. ref' = [ref EXCEPT ![b] = @ + 1] /\ buf' = [buf EXCEPT ![p] = b]
  BY Zenon DEF Hit
<1> HIDE DEF b
<1>4. /\ nxt' = nxt /\ prv' = prv /\ blk' = blk /\ valid' = valid /\ data' = data
      /\ lock' = lock /\ disk' = disk /\ pinned' = pinned
  BY Zenon DEF list
<1>5. buf[p] = head
  <2>1. pc[p] \notin Refers
    BY DEF Refers
  <2> QED  BY <2>1, Zenon DEF IInv, Got, GotBy
<1>6. /\ pc' \in [Proc -> Refers \cup {"idle", "panic"}]
      /\ \A q \in Proc : pc'[q] = IF q = p THEN "lock" ELSE pc[q]
  <2>1. "lock" \in Refers \cup {"idle", "panic"}
    BY DEF Refers
  <2> QED  BY <1>1, <2>1, PcStep, Zenon DEF TypeOK
<1>7. want' \in [Proc -> Block \cup {None}] /\ \A q \in Proc : want'[q] = IF q = p THEN k ELSE want[q]
  BY <1>1 DEF TypeOK
<1>8. buf' \in [Proc -> Node] /\ \A q \in Proc : buf'[q] = IF q = p THEN b ELSE buf[q]
  BY <1>1, <1>2, <1>3, Nodes DEF TypeOK
<1>9. ref' \in [Buf -> Nat] /\ \A c \in Buf : ref'[c] = IF c = b THEN ref[c] + 1 ELSE ref[c]
  BY <1>1, <1>2, <1>3 DEF TypeOK
<1>10. TypeOK'
  BY <1>1, <1>4, <1>6, <1>7, <1>8, <1>9, Zenon DEF TypeOK
<1>11. (Ring /\ Once /\ Clean)'
  BY <1>4, Zenon DEF IInv, Ring, Once, Clean
<1>12. Counted'
  <2> SUFFICES ASSUME NEW c \in Buf
               PROVE  IsFiniteSet(Users(c)') /\ ref'[c] = Cardinality(Users(c)') + Pin(c)'
    BY Zenon DEF Counted
  <2>0. PICK b0 \in Buf : b0 = b
    BY <1>2, Zenon
  <2>1. /\ IsFiniteSet(Users(c)') /\ Cardinality(Users(c)) \in Nat
        /\ Cardinality(Users(c)') = Cardinality(Users(c)) + (IF c = b0 THEN 1 ELSE 0)
    BY <1>1, <1>3, <1>5, <2>0, JoinUsers, Zenon DEF TypeOK
  <2>2. ref[c] = Cardinality(Users(c)) + Pin(c) /\ Pin(c)' = Pin(c) /\ Pin(c) \in {0, 1}
    BY <1>1, <1>4, Zenon DEF Counted, Pin
  <2>3. ref'[c] = IF c = b0 THEN ref[c] + 1 ELSE ref[c]
    BY <1>9, <2>0, Zenon
  <2>4. ref'[c] = Cardinality(Users(c)') + Pin(c)
    BY <2>1, <2>2, <2>3
  <2> QED  BY <2>1, <2>2, <2>4, Zenon
<1>13. Got'
  <2> SUFFICES ASSUME NEW q \in Proc PROVE GotBy(q)'
    BY Zenon DEF Got
  <2>1. GotBy(q)
    BY Zenon DEF IInv, Got
  <2>2. CASE q = p
    <3>1. pc'[q] = "lock" /\ buf'[q] = b /\ want'[q] = k
      BY <1>6, <1>7, <1>8, <2>2, Zenon
    <3> QED  BY <1>2, <1>4, <3>1 DEF GotBy, Refers, Locked
  <2>3. CASE q # p
    <3>1. pc'[q] = pc[q] /\ buf'[q] = buf[q] /\ want'[q] = want[q]
      BY <1>6, <1>7, <1>8, <2>3, Zenon
    <3> QED  BY <1>4, <2>1, <3>1, Zenon DEF GotBy
  <2> QED  BY <2>2, <2>3, Zenon
<1> QED  BY <1>10, <1>11, <1>12, <1>13, Zenon DEF IInv

(* bget() takes a buffer that nobody uses: no process has it, it is not    *)
(* pinned, and no other buffer has the block.                              *)
LEMMA RecycleStep ==
  ASSUME IInv, NatWellOrdered, FiniteCounts, NEW p \in Proc, NEW k \in Block,
         pc[p] = "idle", want' = [want EXCEPT ![p] = k], Recycle(p, k),
         buf' = [buf EXCEPT ![p] = Unused], Goto(p, "lock"),
         UNCHANGED <<list, data, lock, disk, pinned>>
  PROVE  IInv'
<1> DEFINE b == Unused
<1>1. TypeOK /\ Ring /\ Counted
  BY Zenon DEF IInv
<1>2. b \in Buf /\ Users(b) = {} /\ blk[b] \notin pinned
  BY <1>1, UnusedFacts, Zenon DEF Recycle
<1>3. /\ blk' = [blk EXCEPT ![b] = k] /\ valid' = [valid EXCEPT ![b] = 0]
      /\ ref' = [ref EXCEPT ![b] = 1] /\ buf' = [buf EXCEPT ![p] = b]
  BY Zenon DEF Recycle
<1>4. \A c \in Buf : blk[c] # k
  BY <1>1, CachedFacts, Zenon DEF Recycle
<1> HIDE DEF b
<1>5. /\ nxt' = nxt /\ prv' = prv /\ data' = data
      /\ lock' = lock /\ disk' = disk /\ pinned' = pinned
  BY Zenon DEF list
<1>6. buf[p] = head
  <2>1. pc[p] \notin Refers
    BY DEF Refers
  <2> QED  BY <2>1, Zenon DEF IInv, Got, GotBy
<1>7. /\ pc' \in [Proc -> Refers \cup {"idle", "panic"}]
      /\ \A q \in Proc : pc'[q] = IF q = p THEN "lock" ELSE pc[q]
  <2>1. "lock" \in Refers \cup {"idle", "panic"}
    BY DEF Refers
  <2> QED  BY <1>1, <2>1, PcStep, Zenon DEF TypeOK
<1>8. want' \in [Proc -> Block \cup {None}] /\ \A q \in Proc : want'[q] = IF q = p THEN k ELSE want[q]
  BY <1>1 DEF TypeOK
<1>9. buf' \in [Proc -> Node] /\ \A q \in Proc : buf'[q] = IF q = p THEN b ELSE buf[q]
  BY <1>1, <1>2, <1>3, Nodes DEF TypeOK
<1>10. /\ ref' \in [Buf -> Nat] /\ \A c \in Buf : ref'[c] = IF c = b THEN 1 ELSE ref[c]
       /\ valid' \in [Buf -> {0, 1}] /\ \A c \in Buf : valid'[c] = IF c = b THEN 0 ELSE valid[c]
  BY <1>1, <1>2, <1>3 DEF TypeOK
<1>11. /\ blk' \in [Buf -> Block \cup {None}]
       /\ \A c \in Buf : blk'[c] = IF c = b THEN k ELSE blk[c]
  BY <1>1, <1>2, <1>3 DEF TypeOK
<1>12. TypeOK'
  BY <1>1, <1>5, <1>7, <1>8, <1>9, <1>10, <1>11, Zenon DEF TypeOK
<1>13. Ring'
  BY <1>5, Zenon DEF IInv, Ring
<1>14. k \notin pinned
  BY <1>4, Zenon DEF IInv, Once
<1>15. Once'
  <2>1. ASSUME NEW c \in Buf, NEW e \in Buf, blk'[c] = blk'[e], blk'[c] # None PROVE c = e
    BY <1>4, <1>11, <2>1, Zenon DEF IInv, Once
  <2>2. ASSUME NEW j \in pinned PROVE \E c \in Buf : blk'[c] = j
    <3>1. PICK c \in Buf : blk[c] = j
      BY Zenon DEF IInv, Once
    <3> QED  BY <1>2, <1>11, <3>1, Zenon
  <2> QED  BY <1>5, <2>1, <2>2, Zenon DEF Once
<1>16. Clean'
  <2>1. \A c \in Buf : valid'[c] = 1 => c # b
    BY <1>10
  <2>2. \A c \in Buf : c # b => valid'[c] = valid[c] /\ blk'[c] = blk[c]
    BY <1>10, <1>11, Zenon
  <2> QED  BY <1>5, <2>1, <2>2, Zenon DEF IInv, Clean
<1>17. Counted'
  <2> SUFFICES ASSUME NEW c \in Buf
               PROVE  IsFiniteSet(Users(c)') /\ ref'[c] = Cardinality(Users(c)') + Pin(c)'
    BY Zenon DEF Counted
  <2>0. PICK b0 \in Buf : b0 = b
    BY <1>2, Zenon
  <2>1. /\ IsFiniteSet(Users(c)') /\ Cardinality(Users(c)) \in Nat
        /\ Cardinality(Users(c)') = Cardinality(Users(c)) + (IF c = b0 THEN 1 ELSE 0)
    BY <1>1, <1>3, <1>6, <2>0, JoinUsers, Zenon DEF TypeOK
  <2>2. IsFiniteSet(Users(c)) /\ ref[c] = Cardinality(Users(c)) + Pin(c)
    BY <1>1, Zenon DEF Counted
  <2>3. CASE c = b0
    <3>1. Pin(c)' = 0 /\ ref'[c] = 1
      BY <1>5, <1>10, <1>11, <1>14, <2>0, <2>3, Zenon DEF Pin
    <3>2. ref[c] = 0
      BY <1>1, <2>0, <2>3, UnusedFacts, Zenon DEF b, Recycle
    <3>3. Pin(c) \in {0, 1}
      BY Zenon DEF Pin
    <3>4. Cardinality(Users(c)) = 0
      BY <2>1, <2>2, <3>2, <3>3
    <3>5. ref'[c] = Cardinality(Users(c)') + 0
      BY <2>1, <2>3, <3>1, <3>4
    <3> QED  BY <2>1, <3>1, <3>5, Zenon
  <2>4. CASE c # b0
    <3>1. Pin(c)' = Pin(c) /\ ref'[c] = ref[c]
      BY <1>5, <1>10, <1>11, <2>0, <2>4, Zenon DEF Pin
    <3>2. Cardinality(Users(c)') = Cardinality(Users(c))
      BY <2>1, <2>4
    <3> QED  BY <2>1, <2>2, <3>1, <3>2, Zenon
  <2> QED  BY <2>3, <2>4, Zenon
<1>18. Got'
  <2> SUFFICES ASSUME NEW q \in Proc PROVE GotBy(q)'
    BY Zenon DEF Got
  <2>1. GotBy(q)
    BY Zenon DEF IInv, Got
  <2>2. CASE q = p
    <3>1. pc'[q] = "lock" /\ buf'[q] = b /\ want'[q] = k /\ blk'[b] = k
      BY <1>2, <1>7, <1>8, <1>9, <1>11, <2>2, Zenon
    <3> QED  BY <1>2, <3>1 DEF GotBy, Refers, Locked
  <2>3. CASE q # p
    <3>1. pc'[q] = pc[q] /\ buf'[q] = buf[q] /\ want'[q] = want[q]
      BY <1>7, <1>8, <1>9, <2>3, Zenon
    <3>2. buf[q] # b
      BY <1>2, Zenon DEF Users
    <3>3. pc[q] \in Refers => blk'[buf[q]] = blk[buf[q]] /\ valid'[buf[q]] = valid[buf[q]]
      BY <1>10, <1>11, <2>1, <3>2, Zenon DEF GotBy
    <3>4. /\ pc[q] \in {"use", "unpin"} => pc[q] \in Refers
          /\ pc[q] = "read" => pc[q] \in Refers
          /\ pc[q] = "unpin" => pc[q] \in Refers
      BY Zenon DEF Refers
    <3> QED  BY <1>5, <2>1, <3>1, <3>3, <3>4, Zenon DEF GotBy
  <2> QED  BY <2>2, <2>3, Zenon
<1> QED  BY <1>12, <1>13, <1>15, <1>16, <1>17, <1>18, Zenon DEF IInv

(* bget() panics when every buffer is in use. *)
LEMMA PanicStep ==
  ASSUME IInv, NEW p \in Proc, NEW k \in Block,
         pc[p] = "idle", want' = [want EXCEPT ![p] = k], Goto(p, "panic"),
         UNCHANGED <<buf, blk, valid, ref>>, UNCHANGED <<list, data, lock, disk, pinned>>
  PROVE  IInv'
<1>1. TypeOK
  BY Zenon DEF IInv
<1>2. /\ nxt' = nxt /\ prv' = prv /\ blk' = blk /\ valid' = valid /\ ref' = ref
      /\ data' = data /\ lock' = lock /\ disk' = disk /\ pinned' = pinned /\ buf' = buf
  BY Zenon DEF list
<1>3. /\ pc' \in [Proc -> Refers \cup {"idle", "panic"}]
      /\ \A q \in Proc : pc'[q] = IF q = p THEN "panic" ELSE pc[q]
  <2>1. "panic" \in Refers \cup {"idle", "panic"}
    BY Zenon
  <2> QED  BY <1>1, <2>1, PcStep, Zenon DEF TypeOK
<1>4. want' \in [Proc -> Block \cup {None}] /\ \A q \in Proc : q # p => want'[q] = want[q]
  BY <1>1 DEF TypeOK
<1>5. TypeOK'
  BY <1>1, <1>2, <1>3, <1>4, Zenon DEF TypeOK
<1>6. (Ring /\ Once /\ Counted /\ Clean)'
  <2>1. (Ring /\ Once /\ Clean)'
    BY <1>2, Zenon DEF IInv, Ring, Once, Clean
  <2>2. Counted'
    BY <1>2, Zenon DEF IInv, Counted, Users, Pin
  <2> QED  BY <2>1, <2>2, Zenon
<1>7. Got'
  <2> SUFFICES ASSUME NEW q \in Proc PROVE GotBy(q)'
    BY Zenon DEF Got
  <2>1. GotBy(q)
    BY Zenon DEF IInv, Got
  <2>2. CASE q = p
    <3>1. pc[q] \notin Refers
      BY <2>2 DEF Refers
    <3>2. pc'[q] = "panic" /\ buf'[q] = head
      BY <1>2, <1>3, <2>1, <2>2, <3>1, Zenon DEF GotBy
    <3> QED  BY <3>2 DEF GotBy, Refers, Locked
  <2>3. CASE q # p
    <3>1. pc'[q] = pc[q] /\ want'[q] = want[q]
      BY <1>3, <1>4, <2>3, Zenon
    <3> QED  BY <1>2, <2>1, <3>1, Zenon DEF GotBy
  <2> QED  BY <2>2, <2>3, Zenon
<1> QED  BY <1>5, <1>6, <1>7, Zenon DEF IInv

(* Every step of the buffer cache. *)
LEMMA IInvNext ==
  ASSUME NatWellOrdered, FiniteCounts, IInv, [Next]_vars
  PROVE  IInv'
<1>1. ASSUME NEW p \in Proc, NEW k \in Block, Bget(p, k) PROVE IInv'
  <2>1. /\ pc[p] = "idle" /\ want' = [want EXCEPT ![p] = k]
        /\ UNCHANGED <<list, data, lock, disk, pinned>>
    BY <1>1, Zenon DEF Bget
  <2>2. CASE /\ Hit(p, k) /\ buf' = [buf EXCEPT ![p] = Cached(k)]
             /\ Goto(p, "lock") /\ UNCHANGED <<blk, valid>>
    <3>1. UNCHANGED <<list, blk, valid, data, lock, disk, pinned>>
      BY <2>1, <2>2, Zenon
    <3> QED  BY <2>1, <2>2, <3>1, HitStep, Zenon
  <2>3. CASE Recycle(p, k) /\ buf' = [buf EXCEPT ![p] = Unused] /\ Goto(p, "lock")
    BY <2>1, <2>3, RecycleStep, Zenon
  <2>4. CASE Goto(p, "panic") /\ UNCHANGED <<buf, blk, valid, ref>>
    BY <2>1, <2>4, PanicStep, Zenon
  <2> QED  BY <1>1, <2>2, <2>3, <2>4, Zenon DEF Bget
<1>2. CASE UNCHANGED vars
  <2>1. /\ nxt' = nxt /\ prv' = prv /\ blk' = blk /\ valid' = valid /\ ref' = ref
        /\ data' = data /\ lock' = lock /\ disk' = disk /\ pinned' = pinned
        /\ pc' = pc /\ want' = want /\ buf' = buf
    BY <1>2, Zenon DEF vars, list
  <2>2. (TypeOK /\ Ring /\ Once /\ Clean)'
    BY <2>1, Zenon DEF IInv, TypeOK, Ring, Once, Clean
  <2>3. Counted'
    BY <2>1, Zenon DEF IInv, Counted, Users, Pin
  <2>4. Got'
    BY <2>1, Zenon DEF IInv, Got, GotBy
  <2> QED  BY <2>2, <2>3, <2>4, Zenon DEF IInv
<1>3. ASSUME NEW p \in Proc, Lock(p) \/ Read(p) \/ Bwrite(p) PROVE IInv'
  BY <1>3, LockStep, ReadStep, BwriteStep, Zenon
<1>4. ASSUME NEW p \in Proc, Bunpin(p) \/ Unlock(p) \/ Unref(p) PROVE IInv'
  BY <1>4, BunpinStep, UnlockStep, UnrefStep, Zenon
<1>5. ASSUME NEW p \in Proc, NEW d \in Data, LogWrite(p, d) PROVE IInv'
  BY <1>5, LogWriteStep, Zenon
<1> QED  BY <1>1, <1>2, <1>3, <1>4, <1>5, Zenon DEF Next
-----------------------------------------------------------------------------
(* What the users see *)

Uses(p, k) == want[p] = k /\ pc[p] \in {"use", "unpin"}

Viewed ==
  \A k \in Block :
    /\ \A b \in Buf : blk[b] = k /\ valid[b] = 1 => View(k) = data[b]
    /\ (\A b \in Buf : ~(blk[b] = k /\ valid[b] = 1)) => View(k) = disk[k]

Held ==
  \A k \in Block :
    /\ \A p \in Proc : Uses(p, k) => Holder(k) = p
    /\ (\A p \in Proc : ~Uses(p, k)) => Holder(k) = None

(* The value of a block is in its buffer, or on the disk. *)
LEMMA ViewIs == IInv => Viewed
<1> SUFFICES ASSUME IInv, NEW k \in Block
    PROVE /\ \A b \in Buf : blk[b] = k /\ valid[b] = 1 => View(k) = data[b]
          /\ (\A b \in Buf : ~(blk[b] = k /\ valid[b] = 1)) => View(k) = disk[k]
  BY Zenon DEF Viewed
<1>1. ASSUME NEW b \in Buf, blk[b] = k, valid[b] = 1 PROVE View(k) = data[b]
  <2> DEFINE c == CHOOSE c \in Buf : blk[c] = k /\ valid[c] = 1
  <2>1. c \in Buf /\ blk[c] = k
    BY <1>1, Zenon
  <2>2. k # None
    BY BioAssumption, Zenon DEF BioAssumption
  <2>3. c = b
    <3> HIDE DEF c
    <3> QED  BY <1>1, <2>1, <2>2, Zenon DEF IInv, Once
  <2>4. View(k) = data[c]
    BY <1>1, Zenon DEF View
  <2> HIDE DEF c
  <2> QED  BY <2>3, <2>4, Zenon
<1> QED  BY <1>1, Zenon DEF View

(* At most one process has a block: the one with the lock of its buffer. *)
LEMMA HolderIs == IInv => Held
<1> SUFFICES ASSUME IInv, NEW k \in Block
    PROVE /\ \A p \in Proc : Uses(p, k) => Holder(k) = p
          /\ (\A p \in Proc : ~Uses(p, k)) => Holder(k) = None
  BY Zenon DEF Held
<1>1. ASSUME NEW p \in Proc, Uses(p, k) PROVE Holder(k) = p
  <2> DEFINE q == CHOOSE q \in Proc : want[q] = k /\ pc[q] \in {"use", "unpin"}
  <2>1. q \in Proc /\ Uses(q, k)
    BY <1>1, Zenon DEF Uses
  <2>2. Holder(k) = q
    BY <1>1, Zenon DEF Holder, Uses
  <2> HIDE DEF q
  <2>3. /\ pc[p] \in Refers /\ pc[p] \in Locked /\ want[p] = k
        /\ pc[q] \in Refers /\ pc[q] \in Locked /\ want[q] = k
    BY <1>1, <2>1 DEF Uses, Refers, Locked
  <2>4. /\ buf[p] \in Buf /\ blk[buf[p]] = k /\ buf[q] \in Buf /\ blk[buf[q]] = k
    BY <2>1, <2>3, HasBuffer, Zenon
  <2>5. buf[p] = buf[q]
    BY <2>3, <2>4, HasBuffer, Zenon
  <2>6. p = q
    BY <2>1, <2>3, <2>5, HasBuffer, Zenon
  <2> QED  BY <2>2, <2>6, Zenon
<1> QED  BY <1>1, Zenon DEF Holder, Uses

Val == [k \in Block |-> View(k)]
Hold == [k \in Block |-> Holder(k)]
SameVal == \A k \in Block : View(k)' = View(k)
SameHold == \A k \in Block : Holder(k)' = Holder(k)

(* Both sides of a step *)
LEMMA BothSides ==
  ASSUME IInv, IInv'
  PROVE  Viewed /\ Viewed' /\ Held /\ Held'
<1>1. IInv' => Viewed' /\ Held'
  BY ViewIs, HolderIs, PTL
<1> QED  BY <1>1, ViewIs, HolderIs, Zenon

(* Nothing happens for the users. *)
LEMMA Stutters ==
  ASSUME SameVal, SameHold
  PROVE  UNCHANGED <<Val, Hold>>
<1>1. Val' = Val
  BY Zenon DEF SameVal, Val
<1>2. Hold' = Hold
  BY Zenon DEF SameHold, Hold
<1> QED  BY <1>1, <1>2, Zenon

(* A block changes hands, or its value. *)
LEMMA Gets ==
  ASSUME NEW k \in Block, NEW p \in Proc, Holder(k) = None, SameVal,
         \A j \in Block : Holder(j)' = IF j = k THEN p ELSE Holder(j)
  PROVE  Promise!Get(p, k)
<1>1. Val' = Val
  BY Zenon DEF SameVal, Val
<1>2. Hold' = [Hold EXCEPT ![k] = p]
  BY DEF Hold
<1>3. Hold[k] = None
  BY Zenon DEF Hold
<1> QED  BY <1>1, <1>2, <1>3, Zenon DEF Promise!Get, Val, Hold

(* log_write() after a change: the holder gives the block a value. *)
LEMMA Sets ==
  ASSUME NEW k \in Block, NEW d \in Data, Holder(k) # None, SameHold,
         \A j \in Block : View(j)' = IF j = k THEN d ELSE View(j)
  PROVE  Promise!Set(k, d)
<1>1. Hold' = Hold
  BY Zenon DEF SameHold, Hold
<1>2. Val' = [Val EXCEPT ![k] = d]
  BY DEF Val
<1>3. Hold[k] # None
  BY Zenon DEF Hold
<1> QED  BY <1>1, <1>2, <1>3, Zenon DEF Promise!Set, Val, Hold

(* brelse(): the holder gives up the block. *)
LEMMA Puts ==
  ASSUME NEW k \in Block, Holder(k) # None, SameVal,
         \A j \in Block : Holder(j)' = IF j = k THEN None ELSE Holder(j)
  PROVE  Promise!Put(k)
<1>1. Val' = Val
  BY Zenon DEF SameVal, Val
<1>2. Hold' = [Hold EXCEPT ![k] = None]
  BY DEF Hold
<1>3. Hold[k] # None
  BY Zenon DEF Hold
<1> QED  BY <1>1, <1>2, <1>3, Zenon DEF Promise!Put, Val, Hold

(* The same buffers have the same contents. *)
LEMMA ValFrame ==
  ASSUME blk' = blk, valid' = valid, data' = data, disk' = disk
  PROVE  SameVal
BY Zenon DEF SameVal, View

(* The same processes have the same blocks. *)
LEMMA HoldFrame ==
  ASSUME Held, Held', NEW k \in Block, \A q \in Proc : Uses(q, k)' <=> Uses(q, k)
  PROVE  Holder(k)' = Holder(k)
<1>1. CASE \E q \in Proc : Uses(q, k)
  <2>1. PICK q \in Proc : Uses(q, k)
    BY <1>1, Zenon
  <2>2. Holder(k) = q
    BY <2>1, Zenon DEF Held
  <2>3. Uses(q, k)'
    BY <2>1, Zenon
  <2>4. Holder(k)' = q
    BY <2>3, Zenon DEF Held
  <2> QED  BY <2>2, <2>4, Zenon
<1>2. CASE \A q \in Proc : ~Uses(q, k)
  <2>1. Holder(k) = None
    BY <1>2, Zenon DEF Held
  <2>2. \A q \in Proc : ~(Uses(q, k)')
    BY <1>2, Zenon
  <2>3. Holder(k)' = None
    BY <2>2, Zenon DEF Held
  <2> QED  BY <2>1, <2>3, Zenon
<1> QED  BY <1>1, <1>2, Zenon

(* A process that starts to use its block: nobody else has it. *)
LEMMA StartsUse ==
  ASSUME IInv, IInv', NEW p \in Proc, pc[p] \in {"lock", "read"}, pc'[p] = "use",
         want' = want, \A q \in Proc : q # p => pc'[q] = pc[q],
         lock[buf[p]] \in {p, None}, NEW k \in Block, k = want[p]
  PROVE  /\ Holder(k) = None
         /\ \A j \in Block : Holder(j)' = IF j = k THEN p ELSE Holder(j)
<1>1. Viewed /\ Viewed' /\ Held /\ Held'
  BY BothSides, Zenon
<1>2. pc[p] \in Refers
  BY DEF Refers
<1>3. buf[p] \in Buf /\ blk[buf[p]] = k /\ \A c \in Buf : blk[c] = k => c = buf[p]
  <2>1. /\ buf[p] \in Buf /\ blk[buf[p]] = want[p]
        /\ \A c \in Buf : blk[c] = blk[buf[p]] => c = buf[p]
    BY <1>2, HasBuffer, Zenon
  <2> QED  BY <2>1, Zenon
<1>4. ASSUME NEW q \in Proc, Uses(q, k) PROVE FALSE
  <2>1. pc[q] \in Refers /\ pc[q] \in Locked /\ want[q] = k /\ q # p
    BY <1>4 DEF Uses, Refers, Locked
  <2>2. buf[q] \in Buf /\ blk[buf[q]] = k
    BY <2>1, HasBuffer, Zenon
  <2>3. buf[q] = buf[p]
    BY <1>3, <2>2, Zenon
  <2>4. lock[buf[q]] = q
    BY <2>1, Zenon DEF IInv, Got, GotBy
  <2>5. q # None
    BY BioAssumption, Zenon DEF BioAssumption
  <2> QED  BY <2>1, <2>3, <2>4, <2>5, Zenon
<1>5. Holder(k) = None
  BY <1>1, <1>4, Zenon DEF Held
<1>6. Holder(k)' = p
  <2>1. Uses(p, k)'
    BY Zenon DEF Uses
  <2> QED  BY <1>1, <2>1, Zenon DEF Held
<1>7. ASSUME NEW j \in Block, j # k PROVE Holder(j)' = Holder(j)
  <2>1. \A q \in Proc : Uses(q, j)' <=> Uses(q, j)
    BY <1>7, Zenon DEF Uses
  <2> QED  BY <1>1, <2>1, HoldFrame, Zenon
<1> QED  BY <1>5, <1>6, <1>7, Zenon

(* A step that lets nobody start or stop to use a block. *)
LEMMA UseFrame ==
  ASSUME IInv, IInv', NEW p \in Proc,
         \A q \in Proc : q # p => pc'[q] = pc[q] /\ want'[q] = want[q],
         \/ pc[p] \notin {"use", "unpin"} /\ pc'[p] \notin {"use", "unpin"}
         \/ pc[p] \in {"use", "unpin"} /\ pc'[p] \in {"use", "unpin"} /\ want'[p] = want[p]
  PROVE  SameHold
<1>1. Held /\ Held'
  BY BothSides, Zenon
<1>2. ASSUME NEW k \in Block PROVE Holder(k)' = Holder(k)
  <2>1. ASSUME NEW q \in Proc PROVE Uses(q, k)' <=> Uses(q, k)
    <3>1. CASE q = p
      BY <3>1, Zenon DEF Uses
    <3>2. CASE q # p
      <4>1. pc'[q] = pc[q] /\ want'[q] = want[q]
        BY <3>2, Zenon
      <4> QED  BY <4>1, Zenon DEF Uses
    <3> QED  BY <3>1, <3>2, Zenon
  <2> QED  BY <1>1, <2>1, HoldFrame, Zenon
<1> QED  BY <1>2, Zenon DEF SameHold

(* Where the step of p leaves the others. *)
LEMMA Others ==
  ASSUME IInv, NEW p \in Proc, NEW label, Goto(p, label)
  PROVE  pc'[p] = label /\ \A q \in Proc : q # p => pc'[q] = pc[q]
<1>1. pc \in [Proc -> Refers \cup {"idle", "panic"}]
  BY Zenon DEF IInv, TypeOK
<1> QED  BY <1>1 DEF Goto

(* A recycled buffer was clean: its old block has the same value on disk. *)
LEMMA RecycleHides ==
  ASSUME IInv, IInv', NatWellOrdered, FiniteCounts, NEW p \in Proc, NEW k \in Block,
         Recycle(p, k), data' = data, disk' = disk
  PROVE  SameVal
<1> DEFINE b == Unused
<1>1. TypeOK /\ Ring /\ Counted
  BY Zenon DEF IInv
<1>2. b \in Buf /\ blk[b] \notin pinned
  BY <1>1, UnusedFacts, Zenon DEF Recycle
<1>3. \A c \in Buf : /\ blk'[c] = IF c = b THEN k ELSE blk[c]
                     /\ valid'[c] = IF c = b THEN 0 ELSE valid[c]
  BY <1>1, <1>2 DEF Recycle, TypeOK
<1>4. Viewed /\ Viewed'
  BY BothSides, Zenon
<1> HIDE DEF b
<1>5. ASSUME NEW j \in Block PROVE View(j)' = View(j)
  <2>1. CASE \E c \in Buf : c # b /\ blk[c] = j /\ valid[c] = 1
    <3>1. PICK c \in Buf : c # b /\ blk[c] = j /\ valid[c] = 1
      BY <2>1, Zenon
    <3>2. View(j) = data[c]
      BY <1>4, <3>1, Zenon DEF Viewed
    <3>3. blk'[c] = j /\ valid'[c] = 1
      BY <1>3, <3>1, Zenon
    <3>4. View(j)' = data'[c]
      BY <1>4, <3>3, Zenon DEF Viewed
    <3> QED  BY <3>2, <3>4, Zenon
  <2>2. CASE ~\E c \in Buf : c # b /\ blk[c] = j /\ valid[c] = 1
    <3>1. \A c \in Buf : ~(blk'[c] = j /\ valid'[c] = 1)
      BY <1>3, <2>2
    <3>2. View(j)' = disk[j]
      BY <1>4, <3>1, Zenon DEF Viewed
    <3>3. CASE blk[b] = j /\ valid[b] = 1
      <4>1. View(j) = data[b]
        BY <1>2, <1>4, <3>3, Zenon DEF Viewed
      <4>2. data[b] = disk[j]
        BY <1>2, <3>3, Zenon DEF IInv, Clean
      <4> QED  BY <3>2, <4>1, <4>2, Zenon
    <3>4. CASE ~(blk[b] = j /\ valid[b] = 1)
      <4>1. View(j) = disk[j]
        BY <1>4, <2>2, <3>4, Zenon DEF Viewed
      <4> QED  BY <3>2, <4>1, Zenon
    <3> QED  BY <3>3, <3>4, Zenon
  <2> QED  BY <2>1, <2>2, Zenon
<1> QED  BY <1>5, Zenon DEF SameVal

(* bread() fills the buffer with what the block had. *)
LEMMA ReadHides ==
  ASSUME IInv, IInv', NEW p \in Proc, Read(p)
  PROVE  SameVal
<1> DEFINE b == buf[p]
<1>1. /\ pc[p] = "read" /\ data' = [data EXCEPT ![b] = disk[blk[b]]]
      /\ valid' = [valid EXCEPT ![b] = 1] /\ disk' = disk /\ blk' = blk
  BY Zenon DEF Read
<1>2. pc[p] \in Refers
  BY <1>1 DEF Refers
<1>3. b \in Buf /\ blk[b] \in Block /\ \A c \in Buf : blk[c] = blk[b] => c = b
  BY <1>2, HasBuffer, Zenon
<1>4. \A c \in Buf : /\ data'[c] = IF c = b THEN disk[blk[b]] ELSE data[c]
                     /\ valid'[c] = IF c = b THEN 1 ELSE valid[c]
  BY <1>1, <1>3 DEF IInv, TypeOK
<1>5. valid[b] # 1
  <2>1. valid[b] = 0
    BY <1>1, Zenon DEF IInv, Got, GotBy
  <2> QED  BY <2>1
<1>6. Viewed /\ Viewed'
  BY BothSides, Zenon
<1> HIDE DEF b
<1>7. ASSUME NEW j \in Block PROVE View(j)' = View(j)
  <2>1. CASE j = blk[b]
    <3>1. View(j) = disk[j]
      BY <1>3, <1>5, <1>6, <2>1, Zenon DEF Viewed
    <3>2. blk'[b] = j /\ valid'[b] = 1 /\ data'[b] = disk[j]
      BY <1>1, <1>3, <1>4, <2>1, Zenon
    <3>3. \A c \in Buf : blk'[c] = j /\ valid'[c] = 1 => View(j)' = data'[c]
      BY <1>6, Zenon DEF Viewed
    <3>4. View(j)' = data'[b]
      BY <1>3, <3>2, <3>3, Zenon
    <3> QED  BY <3>1, <3>2, <3>4, Zenon
  <2>2. CASE j # blk[b]
    <3>1. \A c \in Buf : blk[c] = j => data'[c] = data[c] /\ valid'[c] = valid[c]
      BY <1>4, <2>2, Zenon
    <3>2. CASE \E c \in Buf : blk[c] = j /\ valid[c] = 1
      <4>1. PICK c \in Buf : blk[c] = j /\ valid[c] = 1
        BY <3>2, Zenon
      <4>2. blk'[c] = j /\ valid'[c] = 1 /\ data'[c] = data[c]
        BY <1>1, <3>1, <4>1, Zenon
      <4>3. View(j) = data[c]
        BY <1>6, <4>1, Zenon DEF Viewed
      <4>4. View(j)' = data'[c]
        BY <1>6, <4>2, Zenon DEF Viewed
      <4> QED  BY <4>2, <4>3, <4>4, Zenon
    <3>3. CASE \A c \in Buf : ~(blk[c] = j /\ valid[c] = 1)
      <4>1. \A c \in Buf : ~(blk'[c] = j /\ valid'[c] = 1)
        BY <1>1, <3>1, <3>3, Zenon
      <4>2. View(j) = disk[j]
        BY <1>6, <3>3, Zenon DEF Viewed
      <4>3. View(j)' = disk[j]
        BY <1>1, <1>6, <4>1, Zenon DEF Viewed
      <4> QED  BY <4>2, <4>3, Zenon
    <3> QED  BY <3>2, <3>3, Zenon
  <2> QED  BY <2>1, <2>2, Zenon
<1> QED  BY <1>7, Zenon DEF SameVal

(* A change of a buffer in use is a change of its block. *)
LEMMA LogWriteShows ==
  ASSUME IInv, IInv', NEW p \in Proc, NEW d \in Data, LogWrite(p, d), NEW k \in Block, k = want[p]
  PROVE  \A j \in Block : View(j)' = IF j = k THEN d ELSE View(j)
<1> DEFINE b == buf[p]
<1>1. /\ pc[p] = "use" /\ data' = [data EXCEPT ![b] = d]
      /\ valid' = valid /\ disk' = disk /\ blk' = blk
  BY Zenon DEF LogWrite
<1>2. pc[p] \in Refers
  BY <1>1 DEF Refers
<1>3. b \in Buf /\ blk[b] = k
  <2>1. b \in Buf /\ blk[b] = want[p]
    BY <1>2, HasBuffer, Zenon
  <2> QED  BY <2>1, Zenon
<1>4. valid[b] = 1
  BY <1>1, Zenon DEF IInv, Got, GotBy
<1>5. \A c \in Buf : data'[c] = IF c = b THEN d ELSE data[c]
  BY <1>1, <1>3 DEF IInv, TypeOK
<1>6. Viewed /\ Viewed'
  BY BothSides, Zenon
<1> HIDE DEF b
<1>7. View(k)' = d
  <2>1. \A c \in Buf : blk[c] = k /\ valid[c] = 1 => View(k)' = data'[c]
    BY <1>1, <1>6, Zenon DEF Viewed
  <2>2. View(k)' = data'[b]
    BY <1>3, <1>4, <2>1, Zenon
  <2> QED  BY <1>3, <1>5, <2>2, Zenon
<1>8. ASSUME NEW j \in Block, j # k PROVE View(j)' = View(j)
  <2>1. CASE \E c \in Buf : blk[c] = j /\ valid[c] = 1
    <3>1. PICK c \in Buf : blk[c] = j /\ valid[c] = 1
      BY <2>1, Zenon
    <3>2. View(j) = data[c]
      BY <1>6, <3>1, Zenon DEF Viewed
    <3>3. blk'[c] = j /\ valid'[c] = 1 /\ data'[c] = data[c]
      BY <1>1, <1>3, <1>5, <1>8, <3>1, Zenon
    <3>4. View(j)' = data'[c]
      BY <1>6, <3>3, Zenon DEF Viewed
    <3> QED  BY <3>2, <3>3, <3>4, Zenon
  <2>2. CASE \A c \in Buf : ~(blk[c] = j /\ valid[c] = 1)
    <3>1. View(j) = disk[j]
      BY <1>6, <2>2, Zenon DEF Viewed
    <3>2. View(j)' = disk[j]
      BY <1>1, <1>6, <2>2, Zenon DEF Viewed
    <3> QED  BY <3>1, <3>2, Zenon
  <2> QED  BY <2>1, <2>2, Zenon
<1> QED  BY <1>7, <1>8, Zenon

(* The log writes home what the buffer has. *)
LEMMA BwriteHides ==
  ASSUME IInv, IInv', NEW p \in Proc, Bwrite(p)
  PROVE  SameVal
<1> DEFINE b == buf[p]
<1>1. /\ pc[p] = "use" /\ disk' = [disk EXCEPT ![blk[b]] = data[b]]
      /\ valid' = valid /\ data' = data /\ blk' = blk
  BY Zenon DEF Bwrite
<1>2. pc[p] \in Refers
  BY <1>1 DEF Refers
<1>3. b \in Buf /\ blk[b] \in Block
  BY <1>2, HasBuffer, Zenon
<1>4. valid[b] = 1
  BY <1>1, Zenon DEF IInv, Got, GotBy
<1>5. \A j \in Block : j # blk[b] => disk'[j] = disk[j]
  BY <1>1, <1>3 DEF IInv, TypeOK
<1>6. Viewed /\ Viewed'
  BY BothSides, Zenon
<1> HIDE DEF b
<1>7. ASSUME NEW j \in Block PROVE View(j)' = View(j)
  <2>1. CASE \E c \in Buf : blk[c] = j /\ valid[c] = 1
    <3>1. PICK c \in Buf : blk[c] = j /\ valid[c] = 1
      BY <2>1, Zenon
    <3>2. View(j) = data[c]
      BY <1>6, <3>1, Zenon DEF Viewed
    <3>3. blk'[c] = j /\ valid'[c] = 1
      BY <1>1, <3>1, Zenon
    <3>4. View(j)' = data'[c]
      BY <1>6, <3>3, Zenon DEF Viewed
    <3> QED  BY <1>1, <3>2, <3>4, Zenon
  <2>2. CASE \A c \in Buf : ~(blk[c] = j /\ valid[c] = 1)
    <3>1. View(j) = disk[j] /\ j # blk[b]
      BY <1>3, <1>4, <1>6, <2>2, Zenon DEF Viewed
    <3>2. View(j)' = disk'[j]
      BY <1>1, <1>6, <2>2, Zenon DEF Viewed
    <3> QED  BY <1>5, <3>1, <3>2, Zenon
  <2> QED  BY <2>1, <2>2, Zenon
<1> QED  BY <1>7, Zenon DEF SameVal

(* bget() changes nothing for the users. *)
LEMMA BgetRefines ==
  ASSUME IInv, IInv', NatWellOrdered, FiniteCounts, NEW p \in Proc, NEW k \in Block, Bget(p, k)
  PROVE  SameVal /\ SameHold
<1>1. /\ pc[p] = "idle" /\ want' = [want EXCEPT ![p] = k] /\ data' = data /\ disk' = disk
  BY Zenon DEF Bget
<1>2. \A q \in Proc : q # p => want'[q] = want[q]
  BY <1>1 DEF IInv, TypeOK
<1>3. Goto(p, "lock") \/ Goto(p, "panic")
  BY Zenon DEF Bget
<1>4. /\ pc'[p] = "lock" \/ pc'[p] = "panic"
      /\ \A q \in Proc : q # p => pc'[q] = pc[q]
  BY <1>3, Others, Zenon
<1>5. pc[p] \notin {"use", "unpin"} /\ pc'[p] \notin {"use", "unpin"}
  BY <1>1, <1>4
<1>6. SameHold
  BY <1>2, <1>4, <1>5, UseFrame, Zenon
<1>7. (blk' = blk /\ valid' = valid) \/ Recycle(p, k)
  BY Zenon DEF Bget
<1>8. SameVal
  BY <1>1, <1>7, ValFrame, RecycleHides, Zenon
<1> QED  BY <1>6, <1>8, Zenon

(* Each step of the cache is one of Blocks, or nothing. *)
LEMMA StepRefines ==
  ASSUME IInv, IInv', NatWellOrdered, FiniteCounts, [Next]_vars
  PROVE  Promise!Next \/ UNCHANGED <<Val, Hold>>
<1>1. ASSUME NEW p \in Proc, NEW k \in Block, Bget(p, k) PROVE UNCHANGED <<Val, Hold>>
  BY <1>1, BgetRefines, Stutters, Zenon
<1>2. ASSUME NEW p \in Proc, Lock(p) PROVE Promise!Next \/ UNCHANGED <<Val, Hold>>
  <2>1. /\ pc[p] = "lock" /\ lock[buf[p]] = None /\ want' = want
        /\ Goto(p, IF valid[buf[p]] = 1 THEN "use" ELSE "read")
        /\ blk' = blk /\ valid' = valid /\ data' = data /\ disk' = disk
    BY <1>2, Zenon DEF Lock
  <2>2. SameVal
    BY <2>1, ValFrame, Zenon
  <2>3. pc[p] \in Refers
    BY <2>1 DEF Refers
  <2>4. PICK k \in Block : k = want[p]
    BY <2>3, Zenon DEF IInv, Got, GotBy
  <2>5. /\ pc'[p] = IF valid[buf[p]] = 1 THEN "use" ELSE "read"
        /\ \A q \in Proc : q # p => pc'[q] = pc[q]
    BY <2>1, Others, Zenon
  <2>6. CASE valid[buf[p]] = 1
    <3>1. pc[p] \in {"lock", "read"} /\ pc'[p] = "use" /\ lock[buf[p]] \in {p, None}
      BY <2>1, <2>5, <2>6, Zenon
    <3>2. /\ Holder(k) = None
          /\ \A j \in Block : Holder(j)' = IF j = k THEN p ELSE Holder(j)
      BY <2>1, <2>4, <2>5, <3>1, StartsUse, Zenon
    <3>3. Promise!Get(p, k)
      BY <2>2, <3>2, Gets, Zenon
    <3> QED  BY <3>3, Zenon DEF Promise!Next
  <2>7. CASE valid[buf[p]] # 1
    <3>1. pc[p] \notin {"use", "unpin"} /\ pc'[p] \notin {"use", "unpin"}
      BY <2>1, <2>5, <2>7
    <3>2. SameHold
      BY <2>1, <2>5, <3>1, UseFrame, Zenon
    <3> QED  BY <2>2, <3>2, Stutters, Zenon
  <2> QED  BY <2>6, <2>7, Zenon
<1>3. ASSUME NEW p \in Proc, Read(p) PROVE Promise!Next
  <2>1. pc[p] = "read" /\ want' = want /\ Goto(p, "use")
    BY <1>3, Zenon DEF Read
  <2>2. SameVal
    BY <1>3, ReadHides, Zenon
  <2>3. pc[p] \in Refers /\ pc[p] \in Locked
    BY <2>1 DEF Refers, Locked
  <2>4. PICK k \in Block : k = want[p]
    BY <2>3, Zenon DEF IInv, Got, GotBy
  <2>5. pc'[p] = "use" /\ \A q \in Proc : q # p => pc'[q] = pc[q]
    BY <2>1, Others, Zenon
  <2>6. pc[p] \in {"lock", "read"} /\ lock[buf[p]] \in {p, None}
    BY <2>1, <2>3, Zenon DEF IInv, Got, GotBy
  <2>7. /\ Holder(k) = None
        /\ \A j \in Block : Holder(j)' = IF j = k THEN p ELSE Holder(j)
    BY <2>1, <2>4, <2>5, <2>6, StartsUse, Zenon
  <2>8. Promise!Get(p, k)
    BY <2>2, <2>7, Gets, Zenon
  <2> QED  BY <2>8, Zenon DEF Promise!Next
<1>4. ASSUME NEW p \in Proc, NEW d \in Data, LogWrite(p, d) PROVE Promise!Next
  <2>1. pc[p] = "use" /\ pc' = pc /\ want' = want
    BY <1>4, Zenon DEF LogWrite
  <2>2. pc[p] \in Refers
    BY <2>1 DEF Refers
  <2>3. PICK k \in Block : k = want[p]
    BY <2>2, Zenon DEF IInv, Got, GotBy
  <2>4. \A j \in Block : View(j)' = IF j = k THEN d ELSE View(j)
    BY <1>4, <2>3, LogWriteShows, Zenon
  <2>5. SameHold
    BY <2>1, UseFrame, Zenon
  <2>6. Holder(k) # None
    <3>1. Uses(p, k)
      BY <2>1, <2>3, Zenon DEF Uses
    <3>2. Holder(k) = p
      BY <3>1, HolderIs, Zenon DEF Held
    <3> QED  BY <3>2, BioAssumption, Zenon DEF BioAssumption
  <2>7. Promise!Set(k, d)
    BY <2>4, <2>5, <2>6, Sets, Zenon
  <2> QED  BY <2>7, Zenon DEF Promise!Next
<1>5. ASSUME NEW p \in Proc, Bwrite(p) PROVE UNCHANGED <<Val, Hold>>
  <2>1. pc[p] = "use" /\ want' = want /\ Goto(p, "unpin")
    BY <1>5, Zenon DEF Bwrite
  <2>2. pc'[p] = "unpin" /\ \A q \in Proc : q # p => pc'[q] = pc[q]
    BY <2>1, Others, Zenon
  <2>3. SameHold
    BY <2>1, <2>2, UseFrame, Zenon
  <2>4. SameVal
    BY <1>5, BwriteHides, Zenon
  <2> QED  BY <2>3, <2>4, Stutters, Zenon
<1>6. ASSUME NEW p \in Proc, Bunpin(p) PROVE UNCHANGED <<Val, Hold>>
  <2>1. /\ pc[p] = "unpin" /\ want' = want /\ Goto(p, "use")
        /\ blk' = blk /\ valid' = valid /\ data' = data /\ disk' = disk
    BY <1>6, Zenon DEF Bunpin
  <2>2. pc'[p] = "use" /\ \A q \in Proc : q # p => pc'[q] = pc[q]
    BY <2>1, Others, Zenon
  <2>3. SameHold
    BY <2>1, <2>2, UseFrame, Zenon
  <2>4. SameVal
    BY <2>1, ValFrame, Zenon
  <2> QED  BY <2>3, <2>4, Stutters, Zenon
<1>7. ASSUME NEW p \in Proc, Unlock(p) PROVE Promise!Next
  <2>1. /\ pc[p] = "use" /\ want' = want /\ Goto(p, "unref")
        /\ blk' = blk /\ valid' = valid /\ data' = data /\ disk' = disk
    BY <1>7, Zenon DEF Unlock
  <2>2. pc'[p] = "unref" /\ \A q \in Proc : q # p => pc'[q] = pc[q]
    BY <2>1, Others, Zenon
  <2>3. pc[p] \in Refers
    BY <2>1 DEF Refers
  <2>4. PICK k \in Block : k = want[p]
    BY <2>3, Zenon DEF IInv, Got, GotBy
  <2>5. SameVal
    BY <2>1, ValFrame, Zenon
  <2>6. Held /\ Held'
    BY BothSides, Zenon
  <2>7. Uses(p, k)
    BY <2>1, <2>4, Zenon DEF Uses
  <2>8. Holder(k) = p /\ p # None
    BY <2>6, <2>7, BioAssumption, Zenon DEF Held, BioAssumption
  <2>9. Holder(k)' = None
    <3>1. \A q \in Proc : q # p => ~Uses(q, k)
      <4>1. \A q \in Proc : Uses(q, k) => Holder(k) = q
        BY <2>6, Zenon DEF Held
      <4> QED  BY <2>8, <4>1, Zenon
    <3>2. \A q \in Proc : ~(want'[q] = k /\ pc'[q] \in {"use", "unpin"})
      BY <2>1, <2>2, <3>1 DEF Uses
    <3>3. \A q \in Proc : ~(Uses(q, k)')
      BY <3>2, Zenon DEF Uses
    <3> QED  BY <2>6, <3>3, Zenon DEF Held
  <2>10. ASSUME NEW j \in Block, j # k PROVE Holder(j)' = Holder(j)
    <3>1. ASSUME NEW q \in Proc PROVE Uses(q, j)' <=> Uses(q, j)
      BY <2>1, <2>2, <2>4, <2>10, Zenon DEF Uses
    <3> QED  BY <2>6, <3>1, HoldFrame, Zenon
  <2>11. Promise!Put(k)
    BY <2>5, <2>8, <2>9, <2>10, Puts, Zenon
  <2> QED  BY <2>11, Zenon DEF Promise!Next
<1>8. ASSUME NEW p \in Proc, Unref(p) PROVE UNCHANGED <<Val, Hold>>
  <2>1. /\ pc[p] = "unref" /\ want' = [want EXCEPT ![p] = None] /\ Goto(p, "idle")
        /\ blk' = blk /\ valid' = valid /\ data' = data /\ disk' = disk
    BY <1>8, Zenon DEF Unref
  <2>2. pc'[p] = "idle" /\ \A q \in Proc : q # p => pc'[q] = pc[q]
    BY <2>1, Others, Zenon
  <2>3. \A q \in Proc : q # p => want'[q] = want[q]
    BY <2>1 DEF IInv, TypeOK
  <2>4. pc[p] \notin {"use", "unpin"} /\ pc'[p] \notin {"use", "unpin"}
    BY <2>1, <2>2
  <2>5. SameHold
    BY <2>2, <2>3, <2>4, UseFrame, Zenon
  <2>6. SameVal
    BY <2>1, ValFrame, Zenon
  <2> QED  BY <2>5, <2>6, Stutters, Zenon
<1>9. CASE UNCHANGED vars
  <2>1. /\ blk' = blk /\ valid' = valid /\ data' = data /\ disk' = disk
        /\ pc' = pc /\ want' = want
    BY <1>9, Zenon DEF vars
  <2>2. SameVal
    BY <2>1, ValFrame, Zenon
  <2>3. SameHold
    BY <2>1, Zenon DEF SameHold, Holder
  <2> QED  BY <2>2, <2>3, Stutters, Zenon
<1> QED  BY <1>1, <1>2, <1>3, <1>4, <1>5, <1>6, <1>7, <1>8, <1>9, Zenon DEF Next
-----------------------------------------------------------------------------
(* From here on with the theorems about finite sets and well-founded       *)
(* relations.  FS!Cardinality and Cardinality have the same definition.    *)
FS == INSTANCE FiniteSetTheorems

(* Finite for FS is finite. *)
LEMMA SameFinite == ASSUME NEW S PROVE FS!IsFiniteSet(S) = IsFiniteSet(S)
  BY Zenon DEF FS!IsFiniteSet, IsFiniteSet

(* FS counts as the model does. *)
LEMMA SameCardinality == ASSUME NEW S PROVE FS!Cardinality(S) = Cardinality(S)
  BY Zenon DEF FS!Cardinality, Cardinality, FS!IsFiniteSet, IsFiniteSet

(* A set of natural numbers that is not empty has a least element. *)
LEMMA LeastNumber == NatWellOrdered
<1> SUFFICES ASSUME NEW T \in SUBSET Nat, T # {}
             PROVE  \E m \in T : \A k \in T : m <= k
  BY Zenon DEF NatWellOrdered
<1>1. PICK m \in T : \A k \in T : ~(<<k, m>> \in FS!OpToRel(<, Nat))
  BY FS!NatLessThanWellFounded, FS!WFMin, Zenon
<1>2. \A k \in T : ~(k < m)
  BY <1>1, Zenon DEF FS!OpToRel
<1> QED  BY <1>2

(* The number of users of a buffer goes up and down by one. *)
LEMMA CountsUsers == FiniteCounts /\ IsFiniteSet({}) /\ Cardinality({}) = 0
<1>1. FS!IsFiniteSet({}) /\ FS!Cardinality({}) = 0
  BY FS!FS_EmptySet, Zenon
<1>2. ASSUME NEW S, IsFiniteSet(S) PROVE Counts(S)
  <2>1. FS!IsFiniteSet(S)
    BY <1>2, SameFinite, Zenon
  <2>2. FS!Cardinality(S) \in Nat /\ (FS!Cardinality(S) = 0 => S = {})
    BY <2>1, FS!FS_CardinalityType, FS!FS_EmptySet, Zenon
  <2>3. ASSUME NEW x, x \notin S
        PROVE  /\ FS!IsFiniteSet(S \cup {x})
               /\ FS!Cardinality(S \cup {x}) = FS!Cardinality(S) + 1
    BY <2>1, <2>3, FS!FS_AddElement, Zenon
  <2>4. ASSUME NEW x \in S
        PROVE  /\ FS!IsFiniteSet(S \ {x})
               /\ FS!Cardinality(S \ {x}) = FS!Cardinality(S) - 1
    BY <2>1, <2>4, FS!FS_RemoveElement, Zenon
  <2> QED  BY <2>2, <2>3, <2>4, SameFinite, SameCardinality, Zenon DEF Counts
<1> QED  BY <1>1, <1>2, SameFinite, SameCardinality, Zenon DEF FiniteCounts

(* The list is a ring of all buffers, no block has two buffers, a buffer's *)
(* reference count is the number of its users, and a buffer that was read  *)
(* and is not in the log is as on disk.                                    *)
THEOREM CacheInvariant == Spec => []IInv
<1>1. Init => IInv
  BY IInvInit, CountsUsers, Zenon
<1>2. IInv /\ [Next]_vars => IInv'
  BY IInvNext, LeastNumber, CountsUsers, Zenon
<1> QED  BY <1>1, <1>2, PTL DEF Spec

(* Whatever buffers bget() recycles and however the log pins and writes    *)
(* them, the users of bread(), log_write() and brelse() see one value for  *)
(* each block, and have it to themselves between bread() and brelse().     *)
THEOREM CacheIsInvisible == Spec => Implements
<1>1. Init => Promise!Init
  <2> SUFFICES ASSUME Init PROVE Promise!Init
    BY Zenon
  <2>1. IInv
    BY IInvInit, CountsUsers, Zenon
  <2>2. Viewed /\ Held
    BY <2>1, ViewIs, HolderIs, Zenon
  <2>3. disk \in [Block -> Data]
    BY Zenon DEF Init
  <2>4. \A b \in Buf : valid[b] # 1
    BY DEF Init
  <2>5. \A k \in Block : View(k) = disk[k]
    BY <2>2, <2>4, Zenon DEF Viewed
  <2>6. \A p \in Proc : pc[p] \notin {"use", "unpin"}
    BY DEF Init
  <2>7. \A k \in Block : Holder(k) = None
    BY <2>2, <2>6, Zenon DEF Held, Uses
  <2>8. Val \in [Block -> Data]
    BY <2>3, <2>5 DEF Val
  <2>9. Hold = [k \in Block |-> None]
    BY <2>7 DEF Hold
  <2> QED  BY <2>8, <2>9, Zenon DEF Promise!Init, Val, Hold
<1>2. IInv /\ IInv' /\ [Next]_vars => [Promise!Next]_<<Val, Hold>>
  BY StepRefines, LeastNumber, CountsUsers, Zenon
<1> QED  BY <1>1, <1>2, CacheInvariant, PTL DEF Spec, Implements, Promise!Spec, Val, Hold
===========================================================================
