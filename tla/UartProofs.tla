---------------------------- MODULE UartProofs ----------------------------
(***************************************************************************)
(* Proofs about Uart, for any number of writers, any ring size and any     *)
(* number of characters typed: the output of write() calls leaves the port *)
(* complete, in order and unmixed, although two locks, the interrupt, the  *)
(* echo and printf() meet at the port.                                     *)
(***************************************************************************)
EXTENDS Uart, TLAPS

Chars == (Proc \cup {None, Intr, Printer}) \X Nat
Busy == {"put", "start", "write", "panic"}

TypeOK ==
  /\ buf \in [0..UART_TX_BUF_SIZE - 1 -> Chars]
  /\ w \in 0..UART_TX_BUF_SIZE - 1 /\ r \in 0..UART_TX_BUF_SIZE - 1
  /\ fifo \in Seq(Chars) /\ out \in Seq(Chars)
  /\ DOMAIN pc = Proc \cup {Intr, Printer}
  /\ \A p \in Proc : pc[p] \in Busy \cup {"user", "done"}
  /\ pc[Intr] \notin {"user", "done"}
  /\ pc[Printer] \in {"idle", "sync", "done"}
  /\ i \in [Proc -> Nat]

(* consolewrite() holds cons.lock from its start to its end, and who is in *)
(* uartstart() holds uart_tx_lock.                                         *)
Held ==
  /\ \A p \in Proc : pc[p] \in Busy => conslock = p
  /\ pc[Intr] \in {"consputc", "sync"} => conslock = Intr
  /\ \A x \in Starters : pc[x] \in {"start", "write"} => txlock = x

(* Nothing is passed on before the call. *)
Fresh == \A p \in Proc : pc[p] = "user" => i[p] = 0

(* What Unmixed says of a sequence of characters F when cnt tells how many *)
(* each write() has passed on; and a write() that has another one's        *)
(* characters behind its own is over.                                      *)
Sound(F, cnt, over) ==
  /\ \A p \in Proc : \A j \in 1..cnt[p] : \E a \in 1..Len(F) : F[a][1] = p /\ F[a][2] = j
  /\ \A a \in 1..Len(F) : F[a][1] \in Proc => F[a][2] \in 1..cnt[F[a][1]]
  /\ \A a, b \in 1..Len(F) :
       a < b /\ F[a][1] = F[b][1] /\ F[a][1] \in Proc => F[a][2] < F[b][2]
  /\ \A a, b \in 1..Len(F) :
       a < b /\ F[a][1] # F[b][1] /\ F[a][1] \in Proc /\ F[b][1] \in Proc =>
         F[a][1] \in over /\ \A c \in 1..Len(F) : b < c => F[c][1] # F[a][1]

Over == {p \in Proc : pc[p] = "done"}

IInv == TypeOK /\ Held /\ Fresh /\ Sound(Flow, i, Over)
-----------------------------------------------------------------------------
(* Sequences *)

(* Sequences as functions. *)
LEMMA SeqFacts ==
  ASSUME NEW S, NEW s \in Seq(S)
  PROVE  /\ Len(s) \in Nat /\ s \in [1..Len(s) -> S]
         /\ Len(s) = 0 => s = << >>
         /\ s # << >> => Len(s) # 0
OBVIOUS

(* A function on 1..m is a sequence of length m. *)
LEMMA FunctionIsSeq ==
  ASSUME NEW S, NEW m \in Nat, NEW f \in [1..m -> S]
  PROVE  f \in Seq(S) /\ Len(f) = m
OBVIOUS

(* Two sequences with the same elements are the same. *)
LEMMA SameSeq ==
  ASSUME NEW S, NEW s \in Seq(S), NEW t \in Seq(S), Len(s) = Len(t),
         \A k \in 1..Len(s) : s[k] = t[k]
  PROVE  s = t
<1>1. s \in [1..Len(s) -> S]
  BY SeqFacts, Zenon
<1>2. t \in [1..Len(t) -> S]
  BY SeqFacts, Zenon
<1>3. t \in [1..Len(s) -> S]
  BY <1>2, Zenon
<1> QED  BY <1>1, <1>3

(* A sequence of one element. *)
LEMMA OneFacts ==
  ASSUME NEW S, NEW x \in S
  PROVE  <<x>> \in Seq(S) /\ Len(<<x>>) = 1 /\ <<x>>[1] = x
OBVIOUS

(* The elements of a concatenation. *)
LEMMA ConcatFacts ==
  ASSUME NEW S, NEW s \in Seq(S), NEW t \in Seq(S)
  PROVE  /\ s \o t \in Seq(S) /\ Len(s \o t) = Len(s) + Len(t)
         /\ \A k \in 1..Len(s) : (s \o t)[k] = s[k]
         /\ \A k \in 1..Len(t) : (s \o t)[Len(s) + k] = t[k]
<1>1. s \o t \in Seq(S) /\ Len(s \o t) = Len(s) + Len(t)
  OBVIOUS
<1>2. \A k \in 1..Len(s) : (s \o t)[k] = s[k]
  OBVIOUS
<1>3. \A k \in 1..Len(t) : (s \o t)[Len(s) + k] = t[k]
  OBVIOUS
<1> QED  BY <1>1, <1>2, <1>3, Zenon

(* Append is concatenation with a sequence of one element. *)
LEMMA AppendIsConcat ==
  ASSUME NEW S, NEW s \in Seq(S), NEW x \in S
  PROVE  Append(s, x) = s \o <<x>>
<1>1. Append(s, x) \in Seq(S) /\ Len(Append(s, x)) = Len(s) + 1
  OBVIOUS
<1>2. <<x>> \in Seq(S) /\ Len(<<x>>) = 1
  BY OneFacts, Zenon
<1>3. s \o <<x>> \in Seq(S) /\ Len(s \o <<x>>) = Len(s) + 1
  BY <1>2, ConcatFacts
<1>4. ASSUME NEW k \in 1..Len(s) + 1
      PROVE  Append(s, x)[k] = (s \o <<x>>)[k]
  OBVIOUS
<1> QED  BY <1>1, <1>3, <1>4, SameSeq

(* Concatenation is associative. *)
LEMMA ConcatAssoc ==
  ASSUME NEW S, NEW s \in Seq(S), NEW t \in Seq(S), NEW u \in Seq(S)
  PROVE  (s \o t) \o u = s \o (t \o u)
<1>1. /\ s \o t \in Seq(S) /\ Len(s \o t) = Len(s) + Len(t)
      /\ t \o u \in Seq(S) /\ Len(t \o u) = Len(t) + Len(u)
  BY ConcatFacts
<1>2. /\ (s \o t) \o u \in Seq(S) /\ s \o (t \o u) \in Seq(S)
      /\ Len((s \o t) \o u) = Len(s) + Len(t) + Len(u)
      /\ Len(s \o (t \o u)) = Len(s) + Len(t) + Len(u)
  BY <1>1, ConcatFacts
<1>3. ASSUME NEW k \in 1..Len(s) + Len(t) + Len(u)
      PROVE  ((s \o t) \o u)[k] = (s \o (t \o u))[k]
  OBVIOUS
<1> QED  BY <1>2, <1>3, SameSeq

(* The empty sequence adds nothing. *)
LEMMA ConcatEmpty ==
  ASSUME NEW S, NEW s \in Seq(S)
  PROVE  s \o << >> = s
<1>1. << >> \in Seq(S) /\ Len(<< >>) = 0
  OBVIOUS
<1>2. s \o << >> \in Seq(S) /\ Len(s \o << >>) = Len(s)
  OBVIOUS
<1>3. ASSUME NEW k \in 1..Len(s)
      PROVE  (s \o << >>)[k] = s[k]
  OBVIOUS
<1> QED  BY <1>2, <1>3, SameSeq

(* A sequence is its head and its tail. *)
LEMMA HeadTail ==
  ASSUME NEW S, NEW s \in Seq(S), s # << >>
  PROVE  Head(s) \in S /\ Tail(s) \in Seq(S) /\ s = <<Head(s)>> \o Tail(s)
<1>1. Len(s) \in Nat \ {0} /\ Head(s) \in S /\ Tail(s) \in Seq(S) /\ Len(Tail(s)) = Len(s) - 1
  OBVIOUS
<1>2. <<Head(s)>> \o Tail(s) \in Seq(S) /\ Len(<<Head(s)>> \o Tail(s)) = Len(s)
  BY <1>1
<1>3. ASSUME NEW k \in 1..Len(s)
      PROVE  s[k] = (<<Head(s)>> \o Tail(s))[k]
  BY <1>1
<1> QED  BY <1>1, <1>2, <1>3, SameSeq
-----------------------------------------------------------------------------
(* What happens to the output on its way *)

(* A write() that is the only one not over passes on its next character. *)
LEMMA SoundAppend ==
  ASSUME NEW F \in Seq(Chars), NEW cnt \in [Proc -> Nat], NEW over, NEW p \in Proc,
         Sound(F, cnt, over), p \notin over,
         \A q \in Proc \ {p} : q \in over \/ cnt[q] = 0
  PROVE  Sound(F \o << <<p, cnt[p] + 1>> >>, [cnt EXCEPT ![p] = @ + 1], over)
<1> DEFINE c == <<p, cnt[p] + 1>>
           G == F \o <<c>>
           cnt2 == [cnt EXCEPT ![p] = @ + 1]
           L == Len(F)
<1>1. c \in Chars /\ c[1] = p /\ c[2] = cnt[p] + 1
  BY DEF Chars
<1>2. /\ L \in Nat /\ G \in Seq(Chars) /\ Len(G) = L + 1
      /\ \A k \in 1..L : G[k] = F[k]
      /\ G[L + 1] = c
  <2> HIDE DEF c
  <2>1. <<c>> \in Seq(Chars) /\ Len(<<c>>) = 1 /\ <<c>>[1] = c
    BY <1>1, OneFacts, Zenon
  <2> QED  BY <2>1, SeqFacts, ConcatFacts
<1>3. /\ cnt2[p] = cnt[p] + 1 /\ \A q \in Proc \ {p} : cnt2[q] = cnt[q]
  BY Zenon
<1>4. cnt[p] \in Nat
  OBVIOUS
<1> HIDE DEF c, G, cnt2, L
<1>5. \A k \in 1..L + 1 : k \in 1..L \/ k = L + 1
  BY <1>2
<1>6. \A k \in 1..L : k \in 1..L + 1 /\ k < L + 1 /\ ~(L + 1 < k)
  BY <1>2
<1>7. L + 1 \in 1..L + 1 /\ ~(L + 1 < L + 1)
  BY <1>2
<1>8. /\ \A q \in Proc : \A j \in 1..cnt[q] : \E a \in 1..L : F[a][1] = q /\ F[a][2] = j
      /\ \A a \in 1..L : F[a][1] \in Proc => F[a][2] \in 1..cnt[F[a][1]]
      /\ \A a, b \in 1..L :
           a < b /\ F[a][1] = F[b][1] /\ F[a][1] \in Proc => F[a][2] < F[b][2]
      /\ \A a, b \in 1..L :
           a < b /\ F[a][1] # F[b][1] /\ F[a][1] \in Proc /\ F[b][1] \in Proc =>
             F[a][1] \in over /\ \A d \in 1..L : b < d => F[d][1] # F[a][1]
  BY Zenon DEF Sound, L
<1>9. ASSUME NEW q \in Proc, NEW j \in 1..cnt2[q]
      PROVE  \E a \in 1..L + 1 : G[a][1] = q /\ G[a][2] = j
  <2>1. CASE j \in 1..cnt[q]
    <3>1. PICK a \in 1..L : F[a][1] = q /\ F[a][2] = j
      BY <1>8, <2>1
    <3> QED  BY <1>2, <1>6, <3>1, Zenon
  <2>2. CASE j \notin 1..cnt[q]
    <3>1. q = p
      BY <1>3, <2>2, Zenon
    <3>2. j = cnt[p] + 1
      BY <1>3, <1>4, <2>2, <3>1
    <3> QED  BY <1>1, <1>2, <1>7, <3>1, <3>2, Zenon
  <2> QED  BY <2>1, <2>2, Zenon
<1>10. ASSUME NEW a \in 1..L + 1, G[a][1] \in Proc
       PROVE  G[a][2] \in 1..cnt2[G[a][1]]
  <2>1. CASE a = L + 1
    BY <1>1, <1>2, <1>3, <1>4, <2>1
  <2>2. CASE a \in 1..L
    <3>1. F[a][1] \in Proc /\ F[a][2] \in 1..cnt[F[a][1]] /\ G[a] = F[a]
      BY <1>2, <1>8, <1>10, <2>2, Zenon
    <3>2. CASE F[a][1] = p
      BY <1>3, <1>4, <3>1, <3>2
    <3>3. CASE F[a][1] # p
      BY <1>3, <3>1, <3>3, Zenon
    <3> QED  BY <3>2, <3>3, Zenon
  <2> QED  BY <1>5, <2>1, <2>2, Zenon
<1>11. ASSUME NEW a \in 1..L + 1, NEW b \in 1..L + 1,
              a < b, G[a][1] = G[b][1], G[a][1] \in Proc
       PROVE  G[a][2] < G[b][2]
  <2>1. a \in 1..L
    BY <1>2, <1>11
  <2>2. CASE b \in 1..L
    BY <1>2, <1>8, <1>11, <2>1, <2>2, Zenon
  <2>3. CASE b = L + 1
    <3>1. F[a][1] = p /\ G[a] = F[a] /\ G[b][2] = cnt[p] + 1
      BY <1>1, <1>2, <1>11, <2>1, <2>3, Zenon
    <3>2. F[a][2] \in 1..cnt[p]
      BY <1>8, <2>1, <3>1, Zenon
    <3> QED  BY <1>4, <3>1, <3>2
  <2> QED  BY <1>5, <2>2, <2>3, Zenon
<1>12. ASSUME NEW a \in 1..L + 1, NEW b \in 1..L + 1,
              a < b, G[a][1] # G[b][1], G[a][1] \in Proc, G[b][1] \in Proc
       PROVE  G[a][1] \in over /\ \A d \in 1..L + 1 : b < d => G[d][1] # G[a][1]
  <2>1. a \in 1..L /\ G[a] = F[a]
    BY <1>2, <1>12
  <2>2. CASE b \in 1..L
    <3>1. F[a][1] \in over /\ \A d \in 1..L : b < d => F[d][1] # F[a][1]
      BY <1>2, <1>8, <1>12, <2>1, <2>2
    <3>2. \A d \in 1..L + 1 : b < d => G[d][1] # G[a][1]
      BY <1>1, <1>2, <1>5, <2>1, <3>1, Zenon
    <3> QED  BY <2>1, <3>1, <3>2, Zenon
  <2>3. CASE b = L + 1
    <3>1. G[a][1] \in Proc \ {p}
      BY <1>1, <1>2, <1>12, <2>3, Zenon
    <3>2. cnt[G[a][1]] # 0
      BY <1>8, <2>1, <3>1
    <3>3. \A d \in 1..L + 1 : ~(b < d)
      BY <1>2, <2>3
    <3> QED  BY <3>1, <3>2, <3>3, Zenon
  <2> QED  BY <1>5, <2>2, <2>3, Zenon
<1>13. Sound(G, cnt2, over)
  BY <1>2, <1>9, <1>10, <1>11, <1>12 DEF Sound
<1> QED  BY <1>13, Zenon DEF G, c, cnt2

(* G holds what F holds of the write() calls, in the order of F: up and dn *)
(* tell where the characters of each are in the other.                     *)
Image(F, G, up, dn) ==
  /\ \A a \in 1..Len(F) : up[a] \in 1..Len(G) /\ G[up[a]] = F[a]
  /\ \A a \in 1..Len(G) :
       G[a][1] \in Proc => dn[a] \in 1..Len(F) /\ F[dn[a]] = G[a]
  /\ \A a, b \in 1..Len(G) :
       G[a][1] \in Proc /\ G[b][1] \in Proc /\ a < b => dn[a] < dn[b]

(* Such a G is as sound as F. *)
LEMMA SoundImage ==
  ASSUME NEW F, NEW G, NEW cnt, NEW over, Sound(F, cnt, over),
         NEW up, NEW dn, Image(F, G, up, dn)
  PROVE  Sound(G, cnt, over)
<1> USE DEF Image
<1>1. /\ \A q \in Proc : \A j \in 1..cnt[q] :
           \E a \in 1..Len(F) : F[a][1] = q /\ F[a][2] = j
      /\ \A a \in 1..Len(F) : F[a][1] \in Proc => F[a][2] \in 1..cnt[F[a][1]]
      /\ \A a, b \in 1..Len(F) :
           a < b /\ F[a][1] = F[b][1] /\ F[a][1] \in Proc => F[a][2] < F[b][2]
      /\ \A a, b \in 1..Len(F) :
           a < b /\ F[a][1] # F[b][1] /\ F[a][1] \in Proc /\ F[b][1] \in Proc =>
             F[a][1] \in over /\ \A d \in 1..Len(F) : b < d => F[d][1] # F[a][1]
  BY Zenon DEF Sound
<1>2. ASSUME NEW q \in Proc, NEW j \in 1..cnt[q]
      PROVE  \E a \in 1..Len(G) : G[a][1] = q /\ G[a][2] = j
  <2>1. PICK a \in 1..Len(F) : F[a][1] = q /\ F[a][2] = j
    BY <1>1
  <2> QED  BY <2>1, Zenon
<1>3. ASSUME NEW a \in 1..Len(G), G[a][1] \in Proc
      PROVE  G[a][2] \in 1..cnt[G[a][1]]
  BY <1>1, <1>3, Zenon
<1>4. ASSUME NEW a \in 1..Len(G), NEW b \in 1..Len(G),
             a < b, G[a][1] = G[b][1], G[a][1] \in Proc
      PROVE  G[a][2] < G[b][2]
  <2>1. G[b][1] \in Proc
    BY <1>4, Zenon
  <2>2. /\ dn[a] \in 1..Len(F) /\ F[dn[a]] = G[a]
        /\ dn[b] \in 1..Len(F) /\ F[dn[b]] = G[b] /\ dn[a] < dn[b]
    BY <1>4, <2>1, Zenon
  <2> QED  BY <1>1, <1>4, <2>2
<1>5. ASSUME NEW a \in 1..Len(G), NEW b \in 1..Len(G),
             a < b, G[a][1] # G[b][1], G[a][1] \in Proc, G[b][1] \in Proc
      PROVE  G[a][1] \in over /\ \A d \in 1..Len(G) : b < d => G[d][1] # G[a][1]
  <2>1. /\ dn[a] \in 1..Len(F) /\ F[dn[a]] = G[a]
        /\ dn[b] \in 1..Len(F) /\ F[dn[b]] = G[b] /\ dn[a] < dn[b]
    BY <1>5, Zenon
  <2>2. G[a][1] \in over /\ \A d \in 1..Len(F) : dn[b] < d => F[d][1] # G[a][1]
    BY <1>1, <1>5, <2>1
  <2>3. ASSUME NEW d \in 1..Len(G), b < d, G[d][1] = G[a][1]
        PROVE  FALSE
    <3>1. G[d][1] \in Proc
      BY <1>5, <2>3, Zenon
    <3>2. dn[d] \in 1..Len(F) /\ F[dn[d]] = G[d] /\ dn[b] < dn[d]
      BY <1>5, <2>3, <3>1, Zenon
    <3> QED  BY <2>2, <2>3, <3>2, Zenon
  <2> QED  BY <2>2, <2>3, Zenon
<1> QED  BY <1>2, <1>3, <1>4, <1>5, Zenon DEF Sound

(* A character of printf() or of the echo goes in between. *)
LEMMA SoundInsert ==
  ASSUME NEW A \in Seq(Chars), NEW B \in Seq(Chars), NEW c \in Chars, c[1] \notin Proc,
         NEW cnt, NEW over, Sound(A \o B, cnt, over)
  PROVE  Sound((A \o <<c>>) \o B, cnt, over)
<1> DEFINE F == A \o B
           C == A \o <<c>>
           G == C \o B
           m == Len(A)
           k == Len(B)
           up == [a \in 1..m + k |-> IF a <= m THEN a ELSE a + 1]
           dn == [a \in 1..m + 1 + k |-> IF a <= m THEN a ELSE a - 1]
<1>1. m \in Nat /\ k \in Nat
  BY SeqFacts
<1>2. <<c>> \in Seq(Chars) /\ Len(<<c>>) = 1 /\ <<c>>[1] = c
  BY OneFacts, Zenon
<1>3. /\ Len(F) = m + k
      /\ \A a \in 1..m : F[a] = A[a]
      /\ \A a \in 1..k : F[m + a] = B[a]
  BY ConcatFacts
<1>4. /\ C \in Seq(Chars) /\ Len(C) = m + 1
      /\ \A a \in 1..m : C[a] = A[a]
      /\ C[m + 1] = c
  <2>1. /\ C \in Seq(Chars) /\ Len(C) = m + Len(<<c>>)
        /\ \A a \in 1..m : C[a] = A[a]
        /\ \A a \in 1..Len(<<c>>) : C[m + a] = <<c>>[a]
    BY <1>2, ConcatFacts
  <2> HIDE DEF C, m
  <2> QED  BY <1>1, <1>2, <2>1
<1> HIDE DEF C, F, m, k
<1>5. /\ Len(G) = Len(C) + Len(B)
      /\ \A a \in 1..Len(C) : G[a] = C[a]
      /\ \A a \in 1..Len(B) : G[Len(C) + a] = B[a]
  <2>1. C \in Seq(Chars)
    BY <1>4, Zenon
  <2>2. Len(C \o B) = Len(C) + Len(B)
    BY <2>1, ConcatFacts
  <2>3. \A a \in 1..Len(C) : (C \o B)[a] = C[a]
    BY <2>1, ConcatFacts
  <2>4. \A a \in 1..Len(B) : (C \o B)[Len(C) + a] = B[a]
    BY <2>1, ConcatFacts
  <2> QED  BY <2>2, <2>3, <2>4, Zenon
<1> HIDE DEF G
<1>6. /\ Len(G) = m + 1 + k
      /\ \A a \in 1..m + 1 : G[a] = C[a]
      /\ \A a \in 1..k : G[m + 1 + a] = B[a]
  BY <1>4, <1>5, Zenon DEF k
<1>7. ASSUME NEW a \in 1..m + k
      PROVE  up[a] \in 1..m + 1 + k /\ G[up[a]] = F[a]
  <2>1. CASE a <= m
    <3>1. a \in 1..m /\ a \in 1..m + 1 /\ up[a] = a /\ a \in 1..m + 1 + k
      BY <1>1, <2>1
    <3> QED  BY <1>3, <1>4, <1>6, <3>1
  <2>2. CASE ~(a <= m)
    <3>1. up[a] = a + 1 /\ a + 1 \in 1..m + 1 + k
      BY <1>1, <2>2
    <3>2. a - m \in 1..k /\ m + (a - m) = a /\ m + 1 + (a - m) = a + 1
      BY <1>1, <2>2
    <3>3. F[a] = B[a - m] /\ G[a + 1] = B[a - m]
      BY <1>3, <1>6, <3>2
    <3> QED  BY <3>1, <3>3, Zenon
  <2> QED  BY <2>1, <2>2, Zenon
<1>8. ASSUME NEW a \in 1..m + 1 + k, G[a][1] \in Proc
      PROVE  dn[a] \in 1..m + k /\ F[dn[a]] = G[a] /\ a # m + 1
  <2>1. a # m + 1
    <3>1. m + 1 \in 1..m + 1
      BY <1>1
    <3> QED  BY <1>4, <1>6, <1>8, <3>1, Zenon
  <2>2. CASE a <= m
    <3>1. a \in 1..m /\ a \in 1..m + 1 /\ dn[a] = a /\ a \in 1..m + k
      BY <1>1, <2>2
    <3> QED  BY <1>3, <1>4, <1>6, <2>1, <3>1
  <2>3. CASE ~(a <= m)
    <3>1. dn[a] = a - 1 /\ a - 1 \in 1..m + k
      BY <1>1, <2>1, <2>3
    <3>2. a - 1 - m \in 1..k /\ m + (a - 1 - m) = a - 1 /\ m + 1 + (a - 1 - m) = a
      BY <1>1, <2>1, <2>3
    <3>3. F[a - 1] = B[a - 1 - m] /\ G[a] = B[a - 1 - m]
      BY <1>3, <1>6, <3>2
    <3> QED  BY <2>1, <3>1, <3>3, Zenon
  <2> QED  BY <2>2, <2>3, Zenon
<1>9. ASSUME NEW a \in 1..m + 1 + k, NEW b \in 1..m + 1 + k, a < b, a # m + 1, b # m + 1
      PROVE  dn[a] < dn[b]
  BY <1>1, <1>9
<1> HIDE DEF up, dn
<1>10. \A a \in 1..Len(F) : up[a] \in 1..Len(G) /\ G[up[a]] = F[a]
  BY <1>3, <1>6, <1>7
<1>11. \A a \in 1..Len(G) :
         G[a][1] \in Proc => dn[a] \in 1..Len(F) /\ F[dn[a]] = G[a]
  BY <1>3, <1>6, <1>8
<1>12. \A a, b \in 1..Len(G) :
         G[a][1] \in Proc /\ G[b][1] \in Proc /\ a < b => dn[a] < dn[b]
  BY <1>6, <1>8, <1>9
<1>13. Sound(F, cnt, over)
  BY Zenon DEF F
<1>14. Image(F, G, up, dn)
  BY <1>10, <1>11, <1>12, Zenon DEF Image
<1>15. Sound(G, cnt, over)
  BY <1>13, <1>14, SoundImage, Zenon
<1> QED  BY <1>15, Zenon DEF G, C

(* When more write() calls are over, what was sound still is. *)
LEMMA SoundGrow ==
  ASSUME NEW F, NEW cnt, NEW over, NEW over2, over \subseteq over2, Sound(F, cnt, over)
  PROVE  Sound(F, cnt, over2)
BY Zenon DEF Sound
-----------------------------------------------------------------------------
(* The ring *)

Index == 0..UART_TX_BUF_SIZE - 1
Amount(y, x) == (y - x + UART_TX_BUF_SIZE) % UART_TX_BUF_SIZE
Contents(b, x, c) == [k \in 1..c |-> b[(x + k - 1) % UART_TX_BUF_SIZE]]

(* The remainder is the only one there is. *)
LEMMA ModUnique ==
  ASSUME NEW d \in Nat \ {0}, NEW a \in Int, NEW q \in Int, NEW m \in 0..d - 1,
         a = (d * q) + m
  PROVE  a % d = m
OBVIOUS

(* Less than two rounds from the first slot. *)
LEMMA ModSmall ==
  ASSUME UartAssumption, NEW x \in Nat, x < 2 * UART_TX_BUF_SIZE
  PROVE  x % UART_TX_BUF_SIZE = IF x < UART_TX_BUF_SIZE THEN x ELSE x - UART_TX_BUF_SIZE
<1> DEFINE d == UART_TX_BUF_SIZE
<1>1. d \in Nat \ {0}
  BY DEF UartAssumption
<1> HIDE DEF d
<1>2. x < 2 * d
  BY DEF d
<1>3. CASE x < d
  <2>1. x \in Int /\ 0 \in Int /\ x \in 0..d - 1 /\ x = (d * 0) + x
    BY <1>1, <1>3
  <2>2. x % d = x
    BY <1>1, <2>1, ModUnique, Zenon
  <2> QED  BY <1>3, <2>2, Zenon DEF d
<1>4. CASE ~(x < d)
  <2>1. x \in Int /\ 1 \in Int /\ x - d \in 0..d - 1 /\ x = (d * 1) + (x - d)
    BY <1>1, <1>2, <1>4
  <2>2. x % d = x - d
    BY <1>1, <2>1, ModUnique, Zenon
  <2> QED  BY <1>4, <2>2, Zenon DEF d
<1> QED  BY <1>3, <1>4, Zenon

(* The indices, without a remainder. *)
LEMMA RingIndex ==
  ASSUME UartAssumption, NEW x \in Index, NEW y \in Index
  PROVE  /\ UART_TX_BUF_SIZE \in Nat /\ UART_TX_BUF_SIZE > 1
         /\ Inc(x) = IF x + 1 < UART_TX_BUF_SIZE THEN x + 1 ELSE 0
         /\ Amount(y, x) = IF x <= y THEN y - x ELSE y - x + UART_TX_BUF_SIZE
         /\ \A k \in 1..UART_TX_BUF_SIZE :
              (x + k - 1) % UART_TX_BUF_SIZE =
                IF x + k - 1 < UART_TX_BUF_SIZE THEN x + k - 1
                                                ELSE x + k - 1 - UART_TX_BUF_SIZE
         /\ (x + UART_TX_BUF_SIZE - 1) % UART_TX_BUF_SIZE =
              IF x = 0 THEN UART_TX_BUF_SIZE - 1 ELSE x - 1
<1>1. UART_TX_BUF_SIZE \in Nat /\ UART_TX_BUF_SIZE > 1
  BY DEF UartAssumption
<1>2. \A z \in Nat : z < 2 * UART_TX_BUF_SIZE =>
        z % UART_TX_BUF_SIZE = IF z < UART_TX_BUF_SIZE THEN z ELSE z - UART_TX_BUF_SIZE
  BY ModSmall
<1> DEFINE d == UART_TX_BUF_SIZE
           R(z) == z % d
<1>3. \A z \in Nat : z < 2 * d => R(z) = IF z < d THEN z ELSE z - d
  BY <1>2, Zenon
<1>4. d \in Nat /\ d > 1 /\ x \in 0..d - 1 /\ y \in 0..d - 1
  BY <1>1 DEF Index
<1>5. Inc(x) = R(x + 1) /\ Amount(y, x) = R(y - x + d)
  BY Zenon DEF Inc, Amount
<1> HIDE DEF d, R
<1>6. R(x + 1) = IF x + 1 < d THEN x + 1 ELSE 0
  BY <1>3, <1>4
<1>7. R(y - x + d) = IF x <= y THEN y - x ELSE y - x + d
  BY <1>3, <1>4
<1>8. ASSUME NEW k \in 1..d
      PROVE  R(x + k - 1) = IF x + k - 1 < d THEN x + k - 1 ELSE x + k - 1 - d
  BY <1>3, <1>4
<1>9. R(x + d - 1) = IF x = 0 THEN d - 1 ELSE x - 1
  BY <1>3, <1>4
<1> QED  BY <1>1, <1>5, <1>6, <1>7, <1>8, <1>9, Zenon DEF d, R

(* What the ring holds is a sequence of characters. *)
LEMMA ContentsSeq ==
  ASSUME UartAssumption, NEW b \in [Index -> Chars], NEW x \in Index, NEW c \in 0..UART_TX_BUF_SIZE
  PROVE  /\ Contents(b, x, c) \in Seq(Chars) /\ Len(Contents(b, x, c)) = c
         /\ \A k \in 1..c : /\ (x + k - 1) % UART_TX_BUF_SIZE \in Index
                            /\ Contents(b, x, c)[k] = b[(x + k - 1) % UART_TX_BUF_SIZE]
<1>1. c \in Nat
  BY RingIndex
<1>2. ASSUME NEW k \in 1..c
      PROVE  (x + k - 1) % UART_TX_BUF_SIZE \in Index
  <2>1. k \in 1..UART_TX_BUF_SIZE
    BY RingIndex
  <2>2. (x + k - 1) % UART_TX_BUF_SIZE =
                IF x + k - 1 < UART_TX_BUF_SIZE THEN x + k - 1
                                                ELSE x + k - 1 - UART_TX_BUF_SIZE
    BY <2>1, RingIndex, Zenon
  <2>3. UART_TX_BUF_SIZE \in Nat /\ UART_TX_BUF_SIZE > 1
    BY RingIndex, Zenon
  <2> QED  BY <2>1, <2>2, <2>3 DEF Index
<1>3. Contents(b, x, c) \in [1..c -> Chars]
  BY <1>2, Zenon DEF Contents
<1>4. \A k \in 1..c : Contents(b, x, c)[k] = b[(x + k - 1) % UART_TX_BUF_SIZE]
  BY Zenon DEF Contents
<1> QED  BY <1>1, <1>2, <1>3, <1>4, FunctionIsSeq, Zenon

(* uartputc() puts a character at the end of a ring with room. *)
LEMMA RingPut ==
  ASSUME UartAssumption, NEW b \in [Index -> Chars], NEW x \in Index, NEW y \in Index,
         NEW c \in Chars, Inc(y) # x, NEW b2 \in [Index -> Chars],
         b2[y] = c, \A k \in Index \ {y} : b2[k] = b[k]
  PROVE  /\ Inc(y) \in Index
         /\ Contents(b2, x, Amount(Inc(y), x)) = Contents(b, x, Amount(y, x)) \o <<c>>
<1> DEFINE m == Amount(y, x)
           d == UART_TX_BUF_SIZE
           P(k) == (x + k - 1) % d
<1>1. d \in Nat /\ d > 1 /\ x \in 0..d - 1 /\ y \in 0..d - 1
  BY RingIndex, Zenon DEF Index
<1>2. Inc(y) = IF y + 1 < d THEN y + 1 ELSE 0
  BY RingIndex, Zenon
<1>3. Inc(y) \in Index
  BY <1>1, <1>2 DEF Index
<1>4. m = IF x <= y THEN y - x ELSE y - x + d
  BY RingIndex, Zenon
<1>5. Amount(Inc(y), x) = IF x <= Inc(y) THEN Inc(y) - x ELSE Inc(y) - x + d
  BY <1>3, RingIndex, Zenon
<1>6. \A k \in 1..d : P(k) = IF x + k - 1 < d THEN x + k - 1 ELSE x + k - 1 - d
  BY RingIndex, Zenon
<1>7. b2[y] = c /\ \A k \in Index \ {y} : b2[k] = b[k]
  BY Zenon
<1> HIDE DEF m, d, P
<1>8. Amount(Inc(y), x) = m + 1 /\ m + 1 \in 0..d /\ m \in 0..d
  BY <1>1, <1>2, <1>4, <1>5
<1>9. P(m + 1) = y
  <2>1. m + 1 \in 1..d
    BY <1>1, <1>8
  <2>2. P(m + 1) = IF x + (m + 1) - 1 < d THEN x + (m + 1) - 1 ELSE x + (m + 1) - 1 - d
    BY <1>6, <2>1, Zenon
  <2> QED  BY <1>1, <1>4, <2>2
<1>10. ASSUME NEW k \in 1..m
       PROVE  P(k) # y
  <2>1. k \in 1..d
    BY <1>1, <1>8
  <2>2. P(k) = IF x + k - 1 < d THEN x + k - 1 ELSE x + k - 1 - d
    BY <1>6, <2>1, Zenon
  <2> QED  BY <1>1, <1>4, <1>8, <2>1, <2>2
<1>11. /\ Contents(b2, x, m + 1) \in Seq(Chars) /\ Len(Contents(b2, x, m + 1)) = m + 1
       /\ \A k \in 1..m + 1 : P(k) \in Index /\ Contents(b2, x, m + 1)[k] = b2[P(k)]
  BY <1>7, <1>8, ContentsSeq DEF d, P
<1>12. /\ Contents(b, x, m) \in Seq(Chars) /\ Len(Contents(b, x, m)) = m
       /\ \A k \in 1..m : P(k) \in Index /\ Contents(b, x, m)[k] = b[P(k)]
  BY <1>8, ContentsSeq DEF d, P
<1> DEFINE F == Contents(b2, x, m + 1)
           G == Contents(b, x, m)
           H == G \o <<c>>
<1> HIDE DEF F, G
<1>13. /\ F \in Seq(Chars) /\ Len(F) = m + 1 /\ \A k \in 1..m + 1 : F[k] = b2[P(k)]
  BY <1>11, Zenon DEF F
<1>14. /\ G \in Seq(Chars) /\ Len(G) = m
       /\ \A k \in 1..m : P(k) \in Index /\ G[k] = b[P(k)]
  BY <1>12, Zenon DEF G
<1>15. H \in Seq(Chars) /\ Len(H) = m + 1 /\ H[m + 1] = c /\ \A k \in 1..m : H[k] = G[k]
  <2>1. <<c>> \in Seq(Chars) /\ Len(<<c>>) = 1 /\ <<c>>[1] = c
    BY OneFacts, Zenon
  <2>2. H \in Seq(Chars) /\ Len(H) = m + 1
    BY <1>14, <2>1, ConcatFacts
  <2>3. \A k \in 1..m : H[k] = G[k]
    BY <1>14, <2>1, ConcatFacts
  <2>4. H[m + 1] = c
    <3>1. \A k \in 1..Len(<<c>>) : H[Len(G) + k] = <<c>>[k]
      BY <1>14, <2>1, ConcatFacts
    <3> QED  BY <1>14, <2>1, <3>1
  <2> QED  BY <2>2, <2>3, <2>4, Zenon
<1> HIDE DEF H
<1>16. ASSUME NEW k \in 1..m + 1
       PROVE  F[k] = H[k]
  <2>1. k \in 1..m \/ k = m + 1
    BY <1>1, <1>8
  <2>2. CASE k \in 1..m
    BY <1>7, <1>10, <1>13, <1>14, <1>15, <2>2
  <2>3. CASE k = m + 1
    BY <1>7, <1>9, <1>13, <1>15, <2>3
  <2> QED  BY <2>1, <2>2, <2>3, Zenon
<1>17. F = H
  BY <1>13, <1>15, <1>16, SameSeq
<1> QED  BY <1>3, <1>8, <1>17, Zenon DEF F, G, H, m

(* uartstart() takes the first character of a ring that is not empty. *)
LEMMA RingTake ==
  ASSUME UartAssumption, NEW b \in [Index -> Chars], NEW x \in Index, NEW y \in Index,
         y # x
  PROVE  /\ Inc(x) \in Index
         /\ b[(Inc(x) + UART_TX_BUF_SIZE - 1) % UART_TX_BUF_SIZE] = b[x]
         /\ Contents(b, x, Amount(y, x)) =
              <<b[x]>> \o Contents(b, Inc(x), Amount(y, Inc(x)))
<1> DEFINE z == Inc(x)
           m == Amount(y, Inc(x))
           d == UART_TX_BUF_SIZE
           P(k) == (x + k - 1) % d
           Q(k) == (z + k - 1) % d
<1>1. d \in Nat /\ d > 1 /\ x \in 0..d - 1 /\ y \in 0..d - 1
  BY RingIndex, Zenon DEF Index
<1>2. z = IF x + 1 < d THEN x + 1 ELSE 0
  BY RingIndex, Zenon
<1>3. z \in Index
  BY <1>1, <1>2 DEF Index
<1>4. Amount(y, x) = IF x <= y THEN y - x ELSE y - x + d
  BY RingIndex, Zenon
<1>5. m = IF z <= y THEN y - z ELSE y - z + d
  BY <1>3, RingIndex, Zenon
<1>6. \A k \in 1..d : P(k) = IF x + k - 1 < d THEN x + k - 1 ELSE x + k - 1 - d
  BY RingIndex, Zenon
<1>7. \A k \in 1..d : Q(k) = IF z + k - 1 < d THEN z + k - 1 ELSE z + k - 1 - d
  BY <1>3, RingIndex, Zenon
<1>8. (z + d - 1) % d = IF z = 0 THEN d - 1 ELSE z - 1
  BY <1>3, RingIndex, Zenon
<1>9. b[x] \in Chars
  BY Zenon
<1> HIDE DEF z, m, d, P, Q
<1>10. Amount(y, x) = m + 1 /\ m + 1 \in 0..d /\ m \in 0..d
  BY <1>1, <1>2, <1>4, <1>5
<1>11. (z + d - 1) % d = x
  BY <1>1, <1>2, <1>8
<1>12. P(1) = x
  <2>1. 1 \in 1..d
    BY <1>1
  <2>2. P(1) = IF x + 1 - 1 < d THEN x + 1 - 1 ELSE x + 1 - 1 - d
    BY <1>6, <2>1, Zenon
  <2> QED  BY <1>1, <2>2
<1>13. ASSUME NEW k \in 1..m
       PROVE  P(1 + k) = Q(k)
  <2>1. k \in 1..d /\ 1 + k \in 1..d
    BY <1>1, <1>10
  <2>2. P(1 + k) = IF x + (1 + k) - 1 < d THEN x + (1 + k) - 1 ELSE x + (1 + k) - 1 - d
    BY <1>6, <2>1, Zenon
  <2>3. Q(k) = IF z + k - 1 < d THEN z + k - 1 ELSE z + k - 1 - d
    BY <1>7, <2>1, Zenon
  <2> QED  BY <1>1, <1>2, <1>10, <2>1, <2>2, <2>3
<1> DEFINE F == Contents(b, x, m + 1)
           G == Contents(b, z, m)
           H == <<b[x]>> \o G
<1>14. /\ F \in Seq(Chars) /\ Len(F) = m + 1 /\ \A k \in 1..m + 1 : F[k] = b[P(k)]
  BY <1>10, ContentsSeq DEF d, P
<1>15. /\ G \in Seq(Chars) /\ Len(G) = m /\ \A k \in 1..m : G[k] = b[Q(k)]
  BY <1>3, <1>10, ContentsSeq DEF d, Q
<1> HIDE DEF F, G
<1>16. H \in Seq(Chars) /\ Len(H) = m + 1 /\ H[1] = b[x] /\ \A k \in 1..m : H[1 + k] = G[k]
  <2> DEFINE c == b[x]
  <2> HIDE DEF c
  <2>1. <<c>> \in Seq(Chars) /\ Len(<<c>>) = 1 /\ <<c>>[1] = c
    BY <1>9, OneFacts, Zenon DEF c
  <2> DEFINE K == <<c>> \o G
  <2>2. K \in Seq(Chars) /\ Len(K) = m + 1
    BY <1>10, <1>1, <1>15, <2>1, ConcatFacts
  <2>3. \A k \in 1..Len(<<c>>) : K[k] = <<c>>[k]
    BY <1>15, <2>1, ConcatFacts
  <2>4. \A k \in 1..Len(G) : K[Len(<<c>>) + k] = G[k]
    BY <1>15, <2>1, ConcatFacts
  <2>5. H = K
    BY Zenon DEF c
  <2> HIDE DEF H, K
  <2>6. K[1] = c
    BY <2>1, <2>3
  <2>7. \A k \in 1..m : K[1 + k] = G[k]
    BY <1>15, <2>1, <2>4
  <2> QED  BY <2>2, <2>5, <2>6, <2>7, Zenon DEF c
<1> HIDE DEF H
<1>17. ASSUME NEW k \in 1..m + 1
       PROVE  F[k] = H[k]
  <2>1. k = 1 \/ (k - 1 \in 1..m /\ k = 1 + (k - 1))
    BY <1>1, <1>10
  <2>2. CASE k = 1
    BY <1>12, <1>14, <1>16, <2>2
  <2>3. CASE k - 1 \in 1..m /\ k = 1 + (k - 1)
    <3>1. F[k] = b[P(1 + (k - 1))] /\ P(1 + (k - 1)) = Q(k - 1)
      BY <1>13, <1>14, <2>3
    <3>2. H[k] = b[Q(k - 1)]
      BY <1>15, <1>16, <2>3
    <3> QED  BY <3>1, <3>2, Zenon
  <2> QED  BY <2>1, <2>2, <2>3, Zenon
<1>18. F = H
  BY <1>14, <1>16, <1>17, SameSeq
<1> QED  BY <1>3, <1>10, <1>11, <1>18, Zenon DEF F, G, H, z, m, d
-----------------------------------------------------------------------------
(* The way out, piece by piece *)

Writing == \E x \in Starters : pc[x] = "write"
Hand == IF Writing THEN <<Taken>> ELSE << >>
Chain(o, f, h, c) == ((o \o f) \o h) \o c

(* The flow, with the contents of the ring spelled out. *)
LEMMA FlowForm == Flow = Chain(out, fifo, Hand, Contents(buf, r, Amount(w, r)))
BY Zenon DEF Flow, Chain, Hand, Writing, Contents, Amount, Count

(* Every piece is a sequence of characters. *)
LEMMA Pieces ==
  ASSUME UartAssumption, TypeOK
  PROVE  /\ buf \in [Index -> Chars] /\ w \in Index /\ r \in Index
         /\ out \in Seq(Chars) /\ fifo \in Seq(Chars) /\ Hand \in Seq(Chars)
         /\ Contents(buf, r, Amount(w, r)) \in Seq(Chars)
         /\ out \o fifo \in Seq(Chars) /\ (out \o fifo) \o Hand \in Seq(Chars)
         /\ Flow \in Seq(Chars)
         /\ Taken \in Chars
<1>1. /\ buf \in [Index -> Chars] /\ w \in Index /\ r \in Index
      /\ out \in Seq(Chars) /\ fifo \in Seq(Chars)
  BY Zenon DEF TypeOK, Index
<1>2. Taken \in Chars
  <2>1. (r + UART_TX_BUF_SIZE - 1) % UART_TX_BUF_SIZE =
              IF r = 0 THEN UART_TX_BUF_SIZE - 1 ELSE r - 1
    BY <1>1, RingIndex, Zenon
  <2>2. UART_TX_BUF_SIZE \in Nat /\ UART_TX_BUF_SIZE > 1
    BY Zenon DEF UartAssumption
  <2>3. (r + UART_TX_BUF_SIZE - 1) % UART_TX_BUF_SIZE \in Index
    BY <1>1, <2>1, <2>2 DEF Index
  <2> QED  BY <1>1, <2>3, Zenon DEF Taken
<1>3. Hand \in Seq(Chars)
  <2>1. << >> \in Seq(Chars)
    OBVIOUS
  <2>2. <<Taken>> \in Seq(Chars)
    BY <1>2, OneFacts, Zenon
  <2> QED  BY <2>1, <2>2, Zenon DEF Hand
<1>4. Contents(buf, r, Amount(w, r)) \in Seq(Chars)
  <2>1. Amount(w, r) = IF r <= w THEN w - r ELSE w - r + UART_TX_BUF_SIZE
    BY <1>1, RingIndex, Zenon
  <2>2. UART_TX_BUF_SIZE \in Nat /\ UART_TX_BUF_SIZE > 1
    BY Zenon DEF UartAssumption
  <2>3. Amount(w, r) \in 0..UART_TX_BUF_SIZE
    BY <1>1, <2>1, <2>2 DEF Index
  <2> QED  BY <1>1, <2>3, ContentsSeq, Zenon
<1>5. out \o fifo \in Seq(Chars)
  BY <1>1, ConcatFacts
<1>6. (out \o fifo) \o Hand \in Seq(Chars)
  BY <1>3, <1>5, ConcatFacts
<1>7. ((out \o fifo) \o Hand) \o Contents(buf, r, Amount(w, r)) \in Seq(Chars)
  BY <1>4, <1>6, ConcatFacts
<1>8. Flow \in Seq(Chars)
  BY <1>7, FlowForm, Zenon DEF Chain
<1> QED  BY <1>1, <1>2, <1>3, <1>4, <1>5, <1>6, <1>8, Zenon

(* The port sends the first character of its FIFO. *)
LEMMA ChainSend ==
  ASSUME NEW o \in Seq(Chars), NEW f \in Seq(Chars), f # << >>, NEW h, NEW c
  PROVE  Chain(Append(o, Head(f)), Tail(f), h, c) = Chain(o, f, h, c)
<1>1. Head(f) \in Chars /\ Tail(f) \in Seq(Chars) /\ f = <<Head(f)>> \o Tail(f)
  BY HeadTail
<1>2. Append(o, Head(f)) = o \o <<Head(f)>>
  BY <1>1, AppendIsConcat
<1>3. <<Head(f)>> \in Seq(Chars)
  BY <1>1, OneFacts, Zenon
<1>4. (o \o <<Head(f)>>) \o Tail(f) = o \o (<<Head(f)>> \o Tail(f))
  BY <1>1, <1>3, ConcatAssoc
<1>5. Append(o, Head(f)) \o Tail(f) = o \o f
  BY <1>1, <1>2, <1>4, Zenon
<1> QED  BY <1>5, Zenon DEF Chain

(* uartstart() writes the character it has taken to the port. *)
LEMMA ChainWrite ==
  ASSUME NEW o \in Seq(Chars), NEW f \in Seq(Chars), NEW x \in Chars, NEW c
  PROVE  Chain(o, Append(f, x), << >>, c) = Chain(o, f, <<x>>, c)
<1>1. Append(f, x) = f \o <<x>>
  BY AppendIsConcat
<1>2. <<x>> \in Seq(Chars)
  BY OneFacts, Zenon
<1>3. (o \o f) \o <<x>> = o \o (f \o <<x>>)
  BY <1>2, ConcatAssoc
<1>4. (o \o f) \o <<x>> \in Seq(Chars)
  <2>1. o \o f \in Seq(Chars)
    BY ConcatFacts
  <2> QED  BY <1>2, <2>1, ConcatFacts
<1>5. ((o \o f) \o <<x>>) \o << >> = (o \o f) \o <<x>>
  BY <1>4, ConcatEmpty
<1>6. (o \o Append(f, x)) \o << >> = (o \o f) \o <<x>>
  BY <1>1, <1>3, <1>5, Zenon
<1> QED  BY <1>6, Zenon DEF Chain

(* uartstart() takes a character from the ring. *)
LEMMA ChainTake ==
  ASSUME NEW o \in Seq(Chars), NEW f \in Seq(Chars), NEW x \in Chars, NEW c \in Seq(Chars)
  PROVE  Chain(o, f, <<x>>, c) = Chain(o, f, << >>, <<x>> \o c)
<1>1. o \o f \in Seq(Chars)
  BY ConcatFacts
<1>2. <<x>> \in Seq(Chars)
  BY OneFacts, Zenon
<1>3. (o \o f) \o << >> = o \o f
  BY <1>1, ConcatEmpty
<1>4. ((o \o f) \o <<x>>) \o c = (o \o f) \o (<<x>> \o c)
  BY <1>1, <1>2, ConcatAssoc
<1> QED  BY <1>3, <1>4, Zenon DEF Chain

(* Associativity, for sequences of the characters of write(). *)
LEMMA CharsAssoc == \A s, t, u \in Seq(Chars) : (s \o t) \o u = s \o (t \o u)
<1> DEFINE S == Chars
<1> HIDE DEF S
<1>1. \A s, t, u \in Seq(S) : (s \o t) \o u = s \o (t \o u)
  BY ConcatAssoc
<1> QED  BY <1>1, Zenon DEF S

(* uartputc_sync() writes past the ring. *)
LEMMA ChainSync ==
  ASSUME NEW o \in Seq(Chars), NEW f \in Seq(Chars), NEW h \in Seq(Chars),
         NEW c \in Seq(Chars), NEW x \in Chars, x[1] \notin Proc,
         NEW cnt, NEW over, Sound(Chain(o, f, h, c), cnt, over)
  PROVE  Sound(Chain(o, Append(f, x), h, c), cnt, over)
<1>1. o \o f \in Seq(Chars)
  BY ConcatFacts
<1>2. h \o c \in Seq(Chars)
  BY ConcatFacts
<1>3. <<x>> \in Seq(Chars)
  BY OneFacts, Zenon
<1> DEFINE g == o \o f
           G == g \o <<x>>
<1> HIDE DEF g
<1>4. (g \o h) \o c = g \o (h \o c)
  <2>1. g \in Seq(Chars)
    BY <1>1, Zenon DEF g
  <2> QED  BY <2>1, CharsAssoc, Zenon
<1>5. Append(f, x) = f \o <<x>>
  BY AppendIsConcat
<1>6. (o \o f) \o <<x>> = o \o (f \o <<x>>)
  BY <1>3, ConcatAssoc
<1>7. o \o Append(f, x) = (o \o f) \o <<x>>
  BY <1>5, <1>6, Zenon
<1>8. G \in Seq(Chars)
  <2>1. g \in Seq(Chars)
    BY <1>1, Zenon DEF g
  <2> QED  BY <2>1, <1>3, ConcatFacts
<1> HIDE DEF G
<1>9. (G \o h) \o c = G \o (h \o c)
  BY <1>8, CharsAssoc, Zenon
<1>10. Chain(o, f, h, c) = g \o (h \o c)
  BY <1>4, Zenon DEF Chain, g
<1>11. Chain(o, Append(f, x), h, c) = (g \o <<x>>) \o (h \o c)
  BY <1>7, <1>9, Zenon DEF Chain, g, G
<1> DEFINE B == h \o c
<1> HIDE DEF B
<1>12. Sound(g \o B, cnt, over)
  BY <1>10, Zenon DEF B
<1>13. g \in Seq(Chars) /\ B \in Seq(Chars)
  BY <1>1, <1>2, Zenon DEF g, B
<1>14. Sound((g \o <<x>>) \o B, cnt, over)
  BY <1>12, <1>13, SoundInsert, Zenon
<1> QED  BY <1>11, <1>14, Zenon DEF B
-----------------------------------------------------------------------------
(* The invariant holds *)

(* uartinit() leaves the ring and the transmitter empty. *)
LEMMA IInvInit == ASSUME UartAssumption, Init PROVE IInv
<1>1. UART_TX_BUF_SIZE \in Nat /\ UART_TX_BUF_SIZE > 1
  BY Zenon DEF UartAssumption
<1>2. 0 \in Index
  BY <1>1 DEF Index
<1>3. TypeOK
  <2>1. <<None, 0>> \in Chars
    BY DEF Chars
  <2>2. buf \in [Index -> Chars] /\ w \in Index /\ r \in Index
    BY <1>2, <2>1, Zenon DEF Init, Index
  <2>3. fifo \in Seq(Chars) /\ out \in Seq(Chars)
    BY DEF Init
  <2>4. /\ DOMAIN pc = Proc \cup {Intr, Printer}
        /\ \A p \in Proc : pc[p] = "user"
        /\ pc[Intr] = "idle" /\ pc[Printer] = "idle"
    BY DEF Init, UartAssumption
  <2>5. i \in [Proc -> Nat]
    BY DEF Init
  <2> QED  BY <2>2, <2>3, <2>4, <2>5 DEF TypeOK, Index
<1>4. \A p \in Proc : pc[p] = "user" /\ i[p] = 0
  BY DEF Init
<1>5. pc[Intr] = "idle"
  BY DEF Init, UartAssumption
<1>6. Held
  BY <1>4, <1>5 DEF Held, Starters, Busy
<1>7. Fresh
  BY <1>4, Zenon DEF Fresh
<1>8. Len(Flow) = 0
  <2>1. ~Writing
    BY <1>4, <1>5 DEF Writing, Starters
  <2>2. Hand = << >> /\ out = << >> /\ fifo = << >> /\ w = 0 /\ r = 0
    BY <2>1, Zenon DEF Hand, Init
  <2>3. Amount(0, 0) = 0
    BY <1>1, <1>2, RingIndex
  <2>4. buf \in [Index -> Chars] /\ 0 \in 0..UART_TX_BUF_SIZE
    BY <1>1, <1>3 DEF TypeOK, Index
  <2>5. Contents(buf, 0, 0) \in Seq(Chars) /\ Len(Contents(buf, 0, 0)) = 0
    BY <1>2, <2>4, ContentsSeq, Zenon
  <2>6. Contents(buf, 0, 0) = << >>
    BY <2>5, SeqFacts, Zenon
  <2>7. Flow = ((<< >> \o << >>) \o << >>) \o << >>
    BY <2>2, <2>3, <2>6, FlowForm, Zenon DEF Chain
  <2> QED  BY <2>7
<1>9. Sound(Flow, i, Over)
  <2>1. \A p \in Proc : \A j \in 1..i[p] : FALSE
    BY <1>4
  <2>2. \A a \in 1..Len(Flow) : FALSE
    BY <1>8
  <2> QED  BY <2>1, <2>2, Zenon DEF Sound
<1> QED  BY <1>3, <1>6, <1>7, <1>9, Zenon DEF IInv

(* One actor's control moves on. *)
Actor == Proc \cup {Intr, Printer}

(* A step of p changes the program counter of p only. *)
LEMMA PcStep ==
  ASSUME DOMAIN pc = Actor, NEW x \in Actor, NEW l, Goto(x, l)
  PROVE  /\ DOMAIN pc' = Actor /\ pc'[x] = l
         /\ \A y \in Actor \ {x} : pc'[y] = pc[y]
BY Zenon DEF Goto

(* A step that moves no character keeps what is on its way. *)
LEMMA Quiet ==
  ASSUME UartAssumption, IInv, NEW x \in Actor, NEW l, Goto(x, l),
         pc[x] # "write", l # "write", pc[x] # "done",
         UNCHANGED <<buf, w, r, fifo, out, i>>
  PROVE  Sound(Flow, i, Over)'
<1>1. /\ DOMAIN pc' = Actor /\ pc'[x] = l
      /\ \A y \in Actor \ {x} : pc'[y] = pc[y]
  <2>1. DOMAIN pc = Actor
    BY Zenon DEF IInv, TypeOK, Actor
  <2> QED  BY <2>1, PcStep, Zenon
<1>2. Starters \subseteq Actor /\ Proc \subseteq Actor
  BY Zenon DEF Starters, Actor
<1>3. Writing' <=> Writing
  BY <1>1, <1>2, Zenon DEF Writing
<1>4. Hand' = Hand
  BY <1>3, Zenon DEF Hand, Taken
<1>5. (Flow = Chain(out, fifo, Hand, Contents(buf, r, Amount(w, r))))'
  BY FlowForm, PTL
<1>6. Flow' = Flow
  BY <1>4, <1>5, FlowForm, Zenon
<1>7. Over \subseteq Over'
  BY <1>1, <1>2, Zenon DEF Over
<1>8. Sound(Flow, i, Over')
  BY <1>7, SoundGrow, Zenon DEF IInv
<1> QED  BY <1>6, <1>8, Zenon

(* Who is where, after a step of one actor. *)
LEMMA TypeStep ==
  ASSUME UartAssumption, IInv, NEW x \in Actor, NEW l, Goto(x, l),
         x \in Proc => l \in Busy \cup {"user", "done"},
         x = Intr => l \notin {"user", "done"},
         x = Printer => l \in {"idle", "sync", "done"},
         buf' \in [Index -> Chars], w' \in Index, r' \in Index,
         fifo' \in Seq(Chars), out' \in Seq(Chars), i' \in [Proc -> Nat]
  PROVE  TypeOK'
<1>1. /\ DOMAIN pc' = Actor /\ pc'[x] = l
      /\ \A y \in Actor \ {x} : pc'[y] = pc[y]
  <2>1. DOMAIN pc = Actor
    BY Zenon DEF IInv, TypeOK, Actor
  <2> QED  BY <2>1, PcStep, Zenon
<1>2. \A p \in Proc : pc'[p] \in Busy \cup {"user", "done"}
  BY <1>1, Zenon DEF IInv, TypeOK, Actor
<1>3. Intr \in Actor /\ Printer \in Actor
  BY Zenon DEF Actor
<1>4. pc'[Intr] \notin {"user", "done"}
  BY <1>1, <1>3, Zenon DEF IInv, TypeOK
<1>5. pc'[Printer] \in {"idle", "sync", "done"}
  BY <1>1, <1>3, Zenon DEF IInv, TypeOK
<1> QED  BY <1>1, <1>2, <1>4, <1>5, Zenon DEF TypeOK, Actor, Index

(* Nothing moves but control, and the locks. *)
LEMMA TypeQuiet ==
  ASSUME UartAssumption, IInv, NEW x \in Actor, NEW l, Goto(x, l),
         x \in Proc => l \in Busy \cup {"user", "done"},
         x = Intr => l \notin {"user", "done"},
         x = Printer => l \in {"idle", "sync", "done"},
         UNCHANGED <<buf, w, r, fifo, out, i>>
  PROVE  TypeOK'
<1>1. /\ buf' \in [Index -> Chars] /\ w' \in Index /\ r' \in Index
      /\ fifo' \in Seq(Chars) /\ out' \in Seq(Chars) /\ i' \in [Proc -> Nat]
  BY Zenon DEF IInv, TypeOK, Index
<1> QED  BY <1>1, TypeStep, Zenon

(* A process calls or moves on, and nothing is passed on by one that has   *)
(* not called.                                                             *)
LEMMA FreshQuiet ==
  ASSUME UartAssumption, IInv, NEW x \in Actor, NEW l, Goto(x, l), l # "user", UNCHANGED i
  PROVE  Fresh'
<1>1. /\ pc'[x] = l
      /\ \A y \in Actor \ {x} : pc'[y] = pc[y]
  <2>1. DOMAIN pc = Actor
    BY Zenon DEF IInv, TypeOK, Actor
  <2> QED  BY <2>1, PcStep, Zenon
<1> QED  BY <1>1, Zenon DEF IInv, Fresh, Actor
-----------------------------------------------------------------------------
(* The actions *)

(* The actors are different from each other. *)
LEMMA Actors ==
  ASSUME UartAssumption
  PROVE  /\ Intr \in Actor /\ Printer \in Actor /\ Proc \subseteq Actor
         /\ Intr \notin Proc /\ Printer \notin Proc /\ Intr # Printer
         /\ None # Intr /\ None \notin Proc
         /\ Starters \subseteq Actor /\ Starters = Proc \cup {Intr} /\ Printer \notin Starters
BY DEF UartAssumption, Actor, Intr, Printer, Starters

(* What a step of one actor leaves of the facts about the others. *)
LEMMA Others ==
  ASSUME UartAssumption, IInv, NEW x \in Actor, NEW l, Goto(x, l)
  PROVE  /\ pc'[x] = l
         /\ \A y \in Proc : y # x => pc'[y] = pc[y]
         /\ Intr # x => pc'[Intr] = pc[Intr]
         /\ \A y \in Starters : y # x => pc'[y] = pc[y]
<1>1. /\ pc'[x] = l
      /\ \A y \in Actor \ {x} : pc'[y] = pc[y]
  <2>1. DOMAIN pc = Actor
    BY Zenon DEF IInv, TypeOK, Actor
  <2> QED  BY <2>1, PcStep, Zenon
<1> QED  BY <1>1, Actors, Zenon

(* A lock changes hands only from nobody or from the actor that moves. *)
LEMMA HeldStep ==
  ASSUME UartAssumption, IInv, NEW x \in Actor, NEW l, Goto(x, l),
         conslock' = conslock \/ conslock = None \/ conslock = x,
         txlock' = txlock \/ txlock = None \/ txlock = x,
         x \in Proc /\ l \in Busy => conslock' = x,
         x = Intr /\ l \in {"consputc", "sync"} => conslock' = Intr,
         x \in Starters /\ l \in {"start", "write"} => txlock' = x
  PROVE  Held'
<1>1. /\ pc'[x] = l
      /\ \A y \in Proc : y # x => pc'[y] = pc[y]
      /\ Intr # x => pc'[Intr] = pc[Intr]
      /\ \A y \in Starters : y # x => pc'[y] = pc[y]
  BY Others, Zenon
<1>2. /\ \A y \in Proc : pc[y] \in Busy => conslock = y
      /\ pc[Intr] \in {"consputc", "sync"} => conslock = Intr
      /\ \A y \in Starters : pc[y] \in {"start", "write"} => txlock = y
  BY Zenon DEF IInv, Held
<1>3. None \notin Proc /\ None # Intr /\ None \notin Starters
  BY Actors, Zenon
<1>4. ASSUME NEW y \in Proc, pc'[y] \in Busy
      PROVE  conslock' = y
  <2>1. CASE y = x
    BY <1>1, <1>4, <2>1, Zenon
  <2>2. CASE y # x
    BY <1>1, <1>2, <1>3, <1>4, <2>2, Zenon
  <2> QED  BY <2>1, <2>2, Zenon
<1>5. ASSUME pc'[Intr] \in {"consputc", "sync"}
      PROVE  conslock' = Intr
  <2>1. CASE Intr = x
    BY <1>1, <1>5, <2>1, Zenon
  <2>2. CASE Intr # x
    <3>1. conslock = Intr
      BY <1>1, <1>2, <1>5, <2>2
    <3> QED  BY <1>3, <2>2, <3>1, Zenon
  <2> QED  BY <2>1, <2>2, Zenon
<1>6. ASSUME NEW y \in Starters, pc'[y] \in {"start", "write"}
      PROVE  txlock' = y
  <2>1. CASE y = x
    BY <1>1, <1>6, <2>1, Zenon
  <2>2. CASE y # x
    <3>1. txlock = y
      BY <1>1, <1>2, <1>6, <2>2
    <3> QED  BY <1>3, <2>2, <3>1, Zenon
  <2> QED  BY <2>1, <2>2, Zenon
<1> QED  BY <1>4, <1>5, <1>6, Zenon DEF Held

(* consolewrite() starts: no character has been handed on. *)
LEMMA StepWrite ==
  ASSUME UartAssumption, IInv, NEW p \in Proc, Write(p)
  PROVE  IInv'
<1> USE DEF Write
<1>1. p \in Actor /\ p # Intr /\ p # Printer /\ p \in Starters
  BY Actors, Zenon
<1>2. TypeOK'
  BY <1>1, TypeQuiet DEF Busy, ring, input
<1>3. Fresh'
  BY <1>1, FreshQuiet
<1>4. Sound(Flow, i, Over)'
  BY <1>1, Quiet DEF ring, input
<1>5. Held'
  BY <1>1, HeldStep
<1> QED  BY <1>2, <1>3, <1>4, <1>5, Zenon DEF IInv

(* consolewrite() has handed on its last character. *)
LEMMA StepWriteEnd ==
  ASSUME UartAssumption, IInv, NEW p \in Proc, WriteEnd(p)
  PROVE  IInv'
<1> USE DEF WriteEnd
<1>1. p \in Actor /\ p # Intr /\ p # Printer /\ p \in Starters
  BY Actors, Zenon
<1>2. TypeOK'
  BY <1>1, TypeQuiet DEF Busy, ring, input
<1>3. Fresh'
  BY <1>1, FreshQuiet
<1>4. Sound(Flow, i, Over)'
  BY <1>1, Quiet DEF ring, input
<1>5. Held'
  <2>1. conslock = p
    BY DEF IInv, Held, Busy
  <2>2. "done" \notin Busy
    BY DEF Busy
  <2> QED  BY <1>1, <2>1, <2>2, HeldStep
<1> QED  BY <1>2, <1>3, <1>4, <1>5, Zenon DEF IInv

(* uartputc() finds the ring full, and sleep() under cons.lock panics. *)
LEMMA StepPutFull ==
  ASSUME UartAssumption, IInv, NEW p \in Proc, PutFull(p)
  PROVE  IInv'
<1> USE DEF PutFull
<1>1. p \in Actor /\ p # Intr /\ p # Printer /\ p \in Starters
  BY Actors, Zenon
<1>2. TypeOK'
  BY <1>1, TypeQuiet DEF Busy, ring, input
<1>3. Fresh'
  BY <1>1, FreshQuiet
<1>4. Sound(Flow, i, Over)'
  BY <1>1, Quiet DEF ring, input
<1>5. Held'
  <2>1. conslock = p
    BY DEF IInv, Held, Busy
  <2> QED  BY <1>1, <2>1, HeldStep
<1> QED  BY <1>2, <1>3, <1>4, <1>5, Zenon DEF IInv

(* The next character goes to the end of what is on its way. *)
LEMMA StepPut ==
  ASSUME UartAssumption, IInv, NEW p \in Proc, Put(p)
  PROVE  IInv'
<1> USE DEF Put
<1>1. p \in Actor /\ p # Intr /\ p # Printer /\ p \in Starters
  BY Actors, Zenon
<1>2. /\ pc'[p] = "start" /\ \A y \in Proc : y # p => pc'[y] = pc[y]
      /\ pc'[Intr] = pc[Intr]
      /\ \A y \in Starters : y # p => pc'[y] = pc[y]
  BY <1>1, Others
<1>3. /\ \A y \in Proc : pc[y] \in Busy => conslock = y
      /\ pc[Intr] \in {"consputc", "sync"} => conslock = Intr
      /\ \A y \in Starters : pc[y] \in {"start", "write"} => txlock = y
  BY Zenon DEF IInv, Held
<1>4. conslock = p
  BY <1>3 DEF Busy
<1> DEFINE c == <<p, i[p] + 1>>
           X == (out \o fifo) \o Hand
           R == Contents(buf, r, Amount(w, r))
<1>5. c \in Chars /\ i \in [Proc -> Nat]
  BY DEF Chars, IInv, TypeOK
<1>6. TypeOK
  BY Zenon DEF IInv
<1>7. /\ buf \in [Index -> Chars] /\ w \in Index /\ r \in Index
      /\ R \in Seq(Chars) /\ X \in Seq(Chars) /\ Flow \in Seq(Chars)
  BY <1>6, Pieces, Zenon
<1>8. /\ Inc(w) \in Index
      /\ buf' \in [Index -> Chars]
      /\ Contents(buf', r, Amount(Inc(w), r)) = R \o <<c>>
  <2>1. Inc(w) # r
    BY Zenon DEF Full
  <2>2. c \in Chars
    BY <1>5, Zenon
  <2>3. buf \in [Index -> Chars] /\ w \in Index /\ r \in Index
    BY <1>7, Zenon
  <2>4. buf' = [buf EXCEPT ![w] = c]
    BY Zenon
  <2> HIDE DEF c, Put
  <2>5. /\ buf' \in [Index -> Chars] /\ buf'[w] = c
        /\ \A k \in Index \ {w} : buf'[k] = buf[k]
    BY <2>2, <2>3, <2>4, Zenon
  <2>6. Inc(w) \in Index /\ Contents(buf', r, Amount(Inc(w), r)) = R \o <<c>>
    <3> DEFINE b2 == buf'
    <3> HIDE DEF b2
    <3>1. b2 \in [Index -> Chars]
      BY <2>5, Zenon DEF b2
    <3>2. b2[w] = c
      BY <2>5, Zenon DEF b2
    <3>3. \A k \in Index \ {w} : b2[k] = buf[k]
      BY <2>5, Zenon DEF b2
    <3>4. /\ Inc(w) \in Index
          /\ Contents(b2, r, Amount(Inc(w), r)) = Contents(buf, r, Amount(w, r)) \o <<c>>
      <4> HIDE DEF R, X
      <4> QED  BY <2>1, <2>2, <2>3, <3>1, <3>2, <3>3, RingPut
    <3> QED  BY <3>4, Zenon DEF b2
  <2> QED  BY <2>5, <2>6, Zenon
<1>9. TypeOK'
  <2>1. i' \in [Proc -> Nat]
    BY <1>5
  <2>2. fifo' \in Seq(Chars) /\ out' \in Seq(Chars) /\ r' \in Index
    BY <1>6, <1>7, Zenon DEF TypeOK
  <2>3. buf' \in [Index -> Chars] /\ w' \in Index
    BY <1>8, Zenon
  <2>4. "start" \in Busy \cup {"user", "done"}
    BY DEF Busy
  <2>5. Goto(p, "start")
    BY Zenon
  <2> QED  BY <1>1, <2>1, <2>2, <2>3, <2>4, <2>5, TypeStep, Zenon
<1>10. Fresh'
  <2>1. \A y \in Proc : y # p => i'[y] = i[y]
    BY <1>5
  <2> QED  BY <1>2, <2>1, Zenon DEF IInv, Fresh
<1>11. Held'
  BY <1>1, <1>4, HeldStep
<1>12. Flow' = Flow \o <<c>>
  <2>1. Writing' <=> Writing
    BY <1>1, <1>2 DEF Writing
  <2>2. ~Writing
    BY <1>3, Actors, Zenon DEF Writing
  <2>3. Hand = << >> /\ Hand' = << >>
    BY <2>1, <2>2, Zenon DEF Hand
  <2>4. (Flow = Chain(out, fifo, Hand, Contents(buf, r, Amount(w, r))))'
    BY FlowForm, PTL
  <2>5. Flow' = X \o (R \o <<c>>)
    BY <1>8, <2>3, <2>4, Zenon DEF Chain
  <2>6. <<c>> \in Seq(Chars)
    BY <1>5, OneFacts, Zenon
  <2>7. Flow = X \o R
    BY FlowForm, Zenon DEF Chain
  <2> HIDE DEF X, R, c
  <2>8. (X \o R) \o <<c>> = X \o (R \o <<c>>)
    BY <1>7, <2>6, CharsAssoc, Zenon
  <2> QED  BY <2>5, <2>7, <2>8, Zenon
<1>13. Sound(Flow, i, Over)'
  <2>1. p \notin Over
    BY DEF Over
  <2>2. \A q \in Proc \ {p} : q \in Over \/ i[q] = 0
    <3>1. \A q \in Proc \ {p} : pc[q] \in {"user", "done"}
      BY <1>3, <1>4, <1>6, Zenon DEF TypeOK
    <3> QED  BY <3>1 DEF Over, IInv, Fresh
  <2>3. Over' = Over
    BY <1>2 DEF Over
  <2>4. Sound(Flow, i, Over)
    BY Zenon DEF IInv
  <2>5. Sound(Flow \o << <<p, i[p] + 1>> >>, [i EXCEPT ![p] = @ + 1], Over)
    BY <1>5, <1>7, <2>1, <2>2, <2>4, SoundAppend, Zenon
  <2> QED  BY <1>12, <2>3, <2>5, Zenon
<1> QED  BY <1>9, <1>10, <1>11, <1>13, Zenon DEF IInv

(* uartintr() is entered. *)
LEMMA StepIntrEnter ==
  ASSUME UartAssumption, IInv, IntrEnter
  PROVE  IInv'
<1> USE DEF IntrEnter
<1>1. Intr \in Actor /\ Intr \notin Proc /\ Intr # Printer
  BY Actors, Zenon
<1>2. TypeOK'
  BY <1>1, TypeQuiet DEF ring, input
<1>3. Fresh'
  BY <1>1, FreshQuiet
<1>4. Sound(Flow, i, Over)'
  BY <1>1, Quiet DEF ring, input
<1>5. Held'
  BY <1>1, HeldStep
<1> QED  BY <1>2, <1>3, <1>4, <1>5, Zenon DEF IInv

(* uartintr() passes a character of the input on to consoleintr(). *)
LEMMA StepIntrInput ==
  ASSUME UartAssumption, IInv, IntrInput
  PROVE  IInv'
<1> USE DEF IntrInput
<1>1. Intr \in Actor /\ Intr \notin Proc /\ Intr # Printer
  BY Actors, Zenon
<1>2. TypeOK'
  BY <1>1, TypeQuiet DEF ring, input
<1>3. Fresh'
  BY <1>1, FreshQuiet
<1>4. Sound(Flow, i, Over)'
  BY <1>1, Quiet DEF ring, input
<1>5. Held'
  BY <1>1, HeldStep
<1> QED  BY <1>2, <1>3, <1>4, <1>5, Zenon DEF IInv

(* consoleintr() returns to uartintr(). *)
LEMMA StepIntrInputEnd ==
  ASSUME UartAssumption, IInv, IntrInputEnd
  PROVE  IInv'
<1> USE DEF IntrInputEnd
<1>1. Intr \in Actor /\ Intr \notin Proc /\ Intr # Printer
  BY Actors, Zenon
<1>2. TypeOK'
  BY <1>1, TypeQuiet DEF ring, input
<1>3. Fresh'
  BY <1>1, FreshQuiet
<1>4. Sound(Flow, i, Over)'
  BY <1>1, Quiet DEF ring, input
<1>5. Held'
  <2>1. conslock = Intr
    BY DEF IInv, Held
  <2> QED  BY <1>1, <2>1, HeldStep
<1> QED  BY <1>2, <1>3, <1>4, <1>5, Zenon DEF IInv

(* uartintr() has no more input. *)
LEMMA StepIntrNoInput ==
  ASSUME UartAssumption, IInv, IntrNoInput
  PROVE  IInv'
<1> USE DEF IntrNoInput
<1>1. Intr \in Actor /\ Intr \notin Proc /\ Intr # Printer
  BY Actors, Zenon
<1>2. TypeOK'
  BY <1>1, TypeQuiet DEF ring, input
<1>3. Fresh'
  BY <1>1, FreshQuiet
<1>4. Sound(Flow, i, Over)'
  BY <1>1, Quiet DEF ring, input
<1>5. Held'
  BY <1>1, HeldStep
<1> QED  BY <1>2, <1>3, <1>4, <1>5, Zenon DEF IInv

(* uartintr() gets uart_tx_lock. *)
LEMMA StepIntrLock ==
  ASSUME UartAssumption, IInv, IntrLock
  PROVE  IInv'
<1> USE DEF IntrLock
<1>1. Intr \in Actor /\ Intr \notin Proc /\ Intr # Printer
  BY Actors, Zenon
<1>2. TypeOK'
  BY <1>1, TypeQuiet DEF ring, input
<1>3. Fresh'
  BY <1>1, FreshQuiet
<1>4. Sound(Flow, i, Over)'
  BY <1>1, Quiet DEF ring, input
<1>5. Held'
  BY <1>1, HeldStep
<1> QED  BY <1>2, <1>3, <1>4, <1>5, Zenon DEF IInv

(* uartstart() has nothing to do and returns. *)
LEMMA StepStartEnd ==
  ASSUME UartAssumption, IInv, NEW x \in Starters, StartEnd(x)
  PROVE  IInv'
<1> USE DEF StartEnd
<1>1. x \in Actor /\ x # Printer /\ x \in Proc \cup {Intr} /\ Intr \notin Proc
  BY Actors, Zenon
<1>2. /\ x \in Proc => Back(x) = "put"
      /\ x = Intr => Back(x) = "idle"
      /\ Back(x) \in {"put", "idle"}
  BY <1>1 DEF Back
<1>3. TypeOK'
  <2>1. x \in Proc => Back(x) \in Busy \cup {"user", "done"}
    BY <1>2 DEF Busy
  <2>2. x = Intr => Back(x) \notin {"user", "done"}
    BY <1>2
  <2> QED  BY <1>1, <2>1, <2>2, TypeQuiet DEF ring, input
<1>4. Fresh'
  BY <1>1, <1>2, FreshQuiet
<1>5. Sound(Flow, i, Over)'
  BY <1>1, <1>2, Quiet DEF ring, input
<1>6. Held'
  <2>1. txlock = x
    BY DEF IInv, Held
  <2>2. x \in Proc => conslock = x
    BY DEF IInv, Held, Busy
  <2> QED  BY <1>1, <1>2, <2>1, <2>2, HeldStep
<1> QED  BY <1>3, <1>4, <1>5, <1>6, Zenon DEF IInv

(* uartputc_sync() waits for the transmitter. *)
LEMMA StepSyncTest ==
  ASSUME UartAssumption, IInv, NEW x \in {Intr, Printer}, SyncTest(x)
  PROVE  IInv'
<1> USE DEF SyncTest
<1>1. x \in Actor /\ x \notin Proc /\ Intr # Printer
  BY Actors, Zenon
<1>2. TypeOK'
  BY <1>1, TypeQuiet DEF ring, input
<1>3. Fresh'
  BY <1>1, FreshQuiet
<1>4. Sound(Flow, i, Over)'
  BY <1>1, Quiet DEF ring, input
<1>5. Held'
  <2>1. x = Intr => conslock = Intr
    BY <1>1 DEF IInv, Held
  <2> QED  BY <1>1, <2>1, HeldStep
<1> QED  BY <1>2, <1>3, <1>4, <1>5, Zenon DEF IInv

(* A character arrives at the receiver: nothing on its way out changes. *)
LEMMA Still ==
  ASSUME IInv, UNCHANGED <<buf, w, r, txlock, conslock, fifo, out, pc, i>>
  PROVE  IInv'
<1>1. TypeOK' /\ Held' /\ Fresh'
  BY Zenon DEF IInv, TypeOK, Held, Fresh
<1>2. Flow' = Flow
  <2>1. Hand' = Hand
    BY Zenon DEF Hand, Writing, Taken
  <2>2. (Flow = Chain(out, fifo, Hand, Contents(buf, r, Amount(w, r))))'
    BY FlowForm, PTL
  <2> QED  BY <2>1, <2>2, FlowForm, Zenon
<1>3. Over' = Over
  BY Zenon DEF Over
<1>4. Sound(Flow, i, Over)'
  BY <1>2, <1>3, Zenon DEF IInv
<1> QED  BY <1>1, <1>4, Zenon DEF IInv

(* Only the holder of uart_tx_lock has a character in its hand. *)
LEMMA OneWriter ==
  ASSUME UartAssumption, IInv, NEW x \in Starters, pc[x] \in {"start", "write"},
         NEW l, Goto(x, l)
  PROVE  (Writing <=> pc[x] = "write") /\ (Writing' <=> l = "write")
<1>1. \A y \in Starters : pc[y] = "write" => y = x
  <2>1. \A y \in Starters : pc[y] \in {"start", "write"} => txlock = y
    BY Zenon DEF IInv, Held
  <2> QED  BY <2>1
<1>2. pc'[x] = l /\ \A y \in Starters : y # x => pc'[y] = pc[y]
  <2>1. x \in Actor
    BY Actors, Zenon
  <2> QED  BY <2>1, Others, Zenon
<1> QED  BY <1>1, <1>2, Zenon DEF Writing

(* A character moves on, and what is on its way stays the same. *)
LEMMA Moved ==
  ASSUME IInv, Flow' = Flow, UNCHANGED i,
         \A p \in Proc : pc[p] = "done" => pc'[p] = "done"
  PROVE  Sound(Flow, i, Over)'
<1>1. Over \subseteq Over'
  BY Zenon DEF Over
<1>2. Sound(Flow, i, Over')
  BY <1>1, SoundGrow, Zenon DEF IInv
<1> QED  BY <1>2, Zenon

(* uartstart() takes the next character out of the ring. *)
LEMMA StepStart ==
  ASSUME UartAssumption, IInv, NEW x \in Starters, Start(x)
  PROVE  IInv'
<1> USE DEF Start
<1>1. x \in Actor /\ x # Printer /\ x \in Proc \cup {Intr} /\ Intr \notin Proc
  BY Actors, Zenon
<1>2. TypeOK
  BY Zenon DEF IInv
<1>3. /\ buf \in [Index -> Chars] /\ w \in Index /\ r \in Index
      /\ out \in Seq(Chars) /\ fifo \in Seq(Chars)
  BY <1>2, Pieces, Zenon
<1>4. /\ Inc(r) \in Index
      /\ buf[(Inc(r) + UART_TX_BUF_SIZE - 1) % UART_TX_BUF_SIZE] = buf[r]
      /\ Contents(buf, r, Amount(w, r)) =
           <<buf[r]>> \o Contents(buf, Inc(r), Amount(w, Inc(r)))
  <2>1. w # r
    BY Zenon DEF Stop
  <2> HIDE DEF Start
  <2> QED  BY <1>3, <2>1, RingTake, Zenon
<1>5. TypeOK'
  <2>1. x \in Proc => "write" \in Busy \cup {"user", "done"}
    BY DEF Busy
  <2>2. i \in [Proc -> Nat]
    BY <1>2, Zenon DEF TypeOK
  <2> QED  BY <1>1, <1>3, <1>4, <2>1, <2>2, TypeStep
<1>6. Fresh'
  BY <1>1, FreshQuiet
<1>7. Held'
  <2>1. txlock = x
    BY DEF IInv, Held
  <2>2. x \in Proc => conslock = x
    BY DEF IInv, Held, Busy
  <2> QED  BY <1>1, <2>1, <2>2, HeldStep
<1>8. Flow' = Flow
  <2>1. ~Writing /\ Writing'
    BY OneWriter
  <2>2. Hand = << >> /\ Hand' = <<buf[r]>>
    BY <1>4, <2>1, Zenon DEF Hand, Taken
  <2>3. (Flow = Chain(out, fifo, Hand, Contents(buf, r, Amount(w, r))))'
    BY FlowForm, PTL
  <2> DEFINE c == buf[r]
             R == Contents(buf, Inc(r), Amount(w, Inc(r)))
  <2>4. c \in Chars
    BY <1>3, Zenon
  <2>5. R \in Seq(Chars)
    <3>1. UART_TX_BUF_SIZE \in Nat /\ UART_TX_BUF_SIZE > 1
      BY Zenon DEF UartAssumption
    <3>2. Amount(w, Inc(r)) =
            IF Inc(r) <= w THEN w - Inc(r) ELSE w - Inc(r) + UART_TX_BUF_SIZE
      BY <1>3, <1>4, RingIndex, Zenon
    <3>3. Amount(w, Inc(r)) \in 0..UART_TX_BUF_SIZE
      BY <1>3, <1>4, <3>1, <3>2 DEF Index
    <3> QED  BY <1>3, <1>4, <3>3, ContentsSeq, Zenon
  <2>6. Flow' = Chain(out, fifo, <<c>>, R)
    BY <2>2, <2>3, Zenon
  <2>7. Flow = Chain(out, fifo, << >>, <<c>> \o R)
    BY <1>4, <2>2, FlowForm, Zenon
  <2> HIDE DEF c, R, Start
  <2>8. Chain(out, fifo, <<c>>, R) = Chain(out, fifo, << >>, <<c>> \o R)
    BY <1>3, <2>4, <2>5, ChainTake, Zenon
  <2> QED  BY <2>6, <2>7, <2>8, Zenon
<1>9. Sound(Flow, i, Over)'
  <2>1. \A p \in Proc : pc[p] = "done" => pc'[p] = "done"
    BY <1>1, Others
  <2> QED  BY <1>8, <2>1, Moved, Zenon
<1> QED  BY <1>5, <1>6, <1>7, <1>9, Zenon DEF IInv

(* uartstart() hands the character to the transmitter. *)
LEMMA StepStartWrite ==
  ASSUME UartAssumption, IInv, NEW x \in Starters, StartWrite(x)
  PROVE  IInv'
<1> USE DEF StartWrite, ring, input
<1>1. x \in Actor /\ x # Printer /\ x \in Proc \cup {Intr} /\ Intr \notin Proc
  BY Actors, Zenon
<1>2. TypeOK
  BY Zenon DEF IInv
<1>3. /\ buf \in [Index -> Chars] /\ w \in Index /\ r \in Index
      /\ out \in Seq(Chars) /\ fifo \in Seq(Chars) /\ Taken \in Chars
  BY <1>2, Pieces, Zenon
<1>4. TypeOK'
  <2>1. x \in Proc => "start" \in Busy \cup {"user", "done"}
    BY DEF Busy
  <2>2. i \in [Proc -> Nat]
    BY <1>2, Zenon DEF TypeOK
  <2>3. fifo' \in Seq(Chars)
    BY <1>3
  <2> QED  BY <1>1, <1>3, <2>1, <2>2, <2>3, TypeStep
<1>5. Fresh'
  BY <1>1, FreshQuiet
<1>6. Held'
  <2>1. txlock = x
    BY DEF IInv, Held
  <2>2. x \in Proc => conslock = x
    BY DEF IInv, Held, Busy
  <2> QED  BY <1>1, <2>1, <2>2, HeldStep
<1>7. Flow' = Flow
  <2>1. Writing /\ ~Writing'
    BY OneWriter
  <2>2. Hand = <<Taken>> /\ Hand' = << >>
    BY <2>1, Zenon DEF Hand
  <2>3. (Flow = Chain(out, fifo, Hand, Contents(buf, r, Amount(w, r))))'
    BY FlowForm, PTL
  <2> DEFINE R == Contents(buf, r, Amount(w, r))
  <2>4. Flow' = Chain(out, Append(fifo, Taken), << >>, R)
    BY <2>2, <2>3, Zenon
  <2>5. Flow = Chain(out, fifo, <<Taken>>, R)
    BY <2>2, FlowForm, Zenon
  <2> HIDE DEF R, StartWrite
  <2>6. Chain(out, Append(fifo, Taken), << >>, R) = Chain(out, fifo, <<Taken>>, R)
    BY <1>3, ChainWrite, Zenon
  <2> QED  BY <2>4, <2>5, <2>6, Zenon
<1>8. Sound(Flow, i, Over)'
  <2>1. \A p \in Proc : pc[p] = "done" => pc'[p] = "done"
    BY <1>1, Others
  <2> QED  BY <1>7, <2>1, Moved, Zenon
<1> QED  BY <1>4, <1>5, <1>6, <1>8, Zenon DEF IInv

(* The echo, or printf(), writes past the ring: between what the port has  *)
(* and what it does not have yet.                                          *)
LEMMA StepSyncWrite ==
  ASSUME UartAssumption, IInv, NEW x \in {Intr, Printer}, SyncWrite(x)
  PROVE  IInv'
<1> USE DEF SyncWrite, ring
<1> DEFINE l == IF x = Intr THEN "consputc" ELSE "done"
           c == <<x, 1>>
<1>1. /\ x \in Actor /\ x \notin Proc /\ Intr # Printer
      /\ x = Intr => l = "consputc"
      /\ x = Printer => l = "done" /\ x \notin Starters
  BY Actors
<1>2. TypeOK
  BY Zenon DEF IInv
<1>3. /\ buf \in [Index -> Chars] /\ w \in Index /\ r \in Index
      /\ out \in Seq(Chars) /\ fifo \in Seq(Chars) /\ Hand \in Seq(Chars)
      /\ Contents(buf, r, Amount(w, r)) \in Seq(Chars)
  BY <1>2, Pieces, Zenon
<1>4. c \in Chars /\ c[1] = x
  BY DEF Chars
<1>5. fifo' = Append(fifo, c) /\ Goto(x, l)
  BY Zenon
<1>6. UNCHANGED <<buf, w, r, txlock, conslock, out, i>>
  BY Zenon
<1>7. pc[x] = "sync"
  BY Zenon
<1> HIDE DEF SyncWrite, l, c
<1>8. TypeOK'
  <2>1. fifo' \in Seq(Chars)
    BY <1>3, <1>4, <1>5
  <2>2. i' \in [Proc -> Nat]
    BY <1>2, <1>6, Zenon DEF TypeOK
  <2> QED  BY <1>1, <1>3, <1>5, <1>6, <2>1, <2>2, TypeStep
<1>9. Fresh'
  BY <1>1, <1>5, <1>6, FreshQuiet
<1>10. Held'
  <2>1. x = Intr => conslock = Intr
    BY <1>7 DEF IInv, Held
  <2> QED  BY <1>1, <1>5, <1>6, <2>1, HeldStep
<1>11. Hand' = Hand
  <2>1. \A y \in Starters : y # x => pc'[y] = pc[y]
    BY <1>1, <1>5, Others, Zenon
  <2>2. pc'[x] = l
    BY <1>1, <1>5, Others, Zenon
  <2>3. Writing' <=> Writing
    BY <1>1, <1>7, <2>1, <2>2 DEF Writing
  <2> QED  BY <1>6, <2>3, Zenon DEF Hand, Taken
<1>12. Flow' = Chain(out, Append(fifo, c), Hand, Contents(buf, r, Amount(w, r)))
  <2>1. (Flow = Chain(out, fifo, Hand, Contents(buf, r, Amount(w, r))))'
    BY FlowForm, PTL
  <2> QED  BY <1>5, <1>6, <1>11, <2>1, Zenon
<1>13. Sound(Flow, i, Over)'
  <2>1. Sound(Chain(out, fifo, Hand, Contents(buf, r, Amount(w, r))), i, Over)
    BY FlowForm, Zenon DEF IInv
  <2>2. Sound(Chain(out, Append(fifo, c), Hand, Contents(buf, r, Amount(w, r))), i, Over)
    BY <1>1, <1>3, <1>4, <2>1, ChainSync, Zenon
  <2>3. Over' = Over
    <3>1. \A p \in Proc : pc'[p] = pc[p]
      BY <1>1, <1>5, Others, Zenon
    <3> QED  BY <3>1, Zenon DEF Over
  <2> QED  BY <1>6, <1>12, <2>2, <2>3, Zenon
<1> QED  BY <1>8, <1>9, <1>10, <1>13, Zenon DEF IInv

(* The transmitter sends a character. *)
LEMMA StepSend ==
  ASSUME UartAssumption, IInv, Send
  PROVE  IInv'
<1> USE DEF Send, ring
<1>1. TypeOK
  BY Zenon DEF IInv
<1>2. out \in Seq(Chars) /\ fifo \in Seq(Chars)
  BY <1>1, Pieces, Zenon
<1>3. TypeOK'
  <2>1. fifo' \in Seq(Chars) /\ out' \in Seq(Chars)
    BY <1>2
  <2> QED  BY <1>1, <2>1, Zenon DEF TypeOK
<1>4. Held' /\ Fresh'
  BY Zenon DEF IInv, Held, Fresh
<1>5. Hand' = Hand
  BY Zenon DEF Hand, Writing, Taken
<1>6. Flow' = Flow
  <2>1. (Flow = Chain(out, fifo, Hand, Contents(buf, r, Amount(w, r))))'
    BY FlowForm, PTL
  <2>2. Flow' = Chain(Append(out, Head(fifo)), Tail(fifo), Hand, Contents(buf, r, Amount(w, r)))
    BY <1>5, <2>1, Zenon
  <2>3. fifo # << >>
    BY Zenon
  <2> HIDE DEF Send
  <2>4. Chain(Append(out, Head(fifo)), Tail(fifo), Hand, Contents(buf, r, Amount(w, r))) =
          Chain(out, fifo, Hand, Contents(buf, r, Amount(w, r)))
    BY <1>2, <2>3, ChainSend
  <2> QED  BY <2>2, <2>4, FlowForm, Zenon
<1>7. Sound(Flow, i, Over)'
  BY <1>6, Moved, Zenon
<1> QED  BY <1>3, <1>4, <1>7, Zenon DEF IInv

(* Every step of the serial port. *)
LEMMA IInvNext == ASSUME UartAssumption, IInv, [Next]_vars PROVE IInv'
<1>1. CASE UNCHANGED vars
  BY <1>1, Still, Zenon DEF vars, ring
<1>2. ASSUME NEW p \in Proc, Call(p) PROVE IInv'
  BY <1>2, StepWrite, StepWriteEnd, StepPutFull, StepPut, Zenon DEF Call
<1>3. ASSUME NEW x \in Starters, Uartstart(x) PROVE IInv'
  BY <1>3, StepStartEnd, StepStart, StepStartWrite, Zenon DEF Uartstart
<1>4. ASSUME NEW x \in {Intr, Printer}, Sync(x) PROVE IInv'
  BY <1>4, StepSyncTest, StepSyncWrite, Zenon DEF Sync
<1>5. CASE Uartintr
  BY <1>5, StepIntrEnter, StepIntrInput, StepIntrInputEnd, StepIntrNoInput, StepIntrLock,
     Zenon DEF Uartintr
<1>6. CASE Receive
  BY <1>6, Still, Zenon DEF Receive, ring
<1>7. CASE Send
  BY <1>7, StepSend, Zenon
<1> QED  BY <1>1, <1>2, <1>3, <1>4, <1>5, <1>6, <1>7, Zenon DEF Next, Port

(* The invariant says what Unmixed says. *)
LEMMA IInvUnmixed == ASSUME UartAssumption, IInv PROVE Unmixed
<1>1. Flow \in Seq(Chars)
  BY Pieces, Zenon DEF IInv
<1>2. DOMAIN Flow = 1..Len(Flow)
  BY <1>1
<1> DEFINE F == Flow
<1>3. /\ DOMAIN F = 1..Len(F) /\ Sound(F, i, Over)
  BY <1>2, Zenon DEF IInv
<1> HIDE DEF F
<1> DEFINE Of(p) == {a \in DOMAIN F : F[a][1] = p}
<1>4. /\ \A p \in Proc : \A j \in 1..i[p] : \E a \in 1..Len(F) : F[a][1] = p /\ F[a][2] = j
      /\ \A a \in 1..Len(F) : F[a][1] \in Proc => F[a][2] \in 1..i[F[a][1]]
      /\ \A a, b \in 1..Len(F) :
           a < b /\ F[a][1] = F[b][1] /\ F[a][1] \in Proc => F[a][2] < F[b][2]
      /\ \A a, b \in 1..Len(F) :
           a < b /\ F[a][1] # F[b][1] /\ F[a][1] \in Proc /\ F[b][1] \in Proc =>
             F[a][1] \in Over /\ \A c \in 1..Len(F) : b < c => F[c][1] # F[a][1]
  BY <1>3, Zenon DEF Sound
<1>5. ASSUME NEW p \in Proc
      PROVE  /\ \A j \in 1..i[p] : \E a \in Of(p) : F[a][2] = j
             /\ \A a \in Of(p) : F[a][2] \in 1..i[p]
             /\ \A a, b \in Of(p) : a < b => F[a][2] < F[b][2]
             /\ \A q \in Proc \ {p} : \A a, c \in Of(p), b \in Of(q) : ~(a < b /\ b < c)
  <2>1. \A j \in 1..i[p] : \E a \in Of(p) : F[a][2] = j
    BY <1>3, <1>4
  <2>2. \A a \in Of(p) : F[a][2] \in 1..i[p]
    BY <1>3, <1>4, Zenon
  <2>3. \A a, b \in Of(p) : a < b => F[a][2] < F[b][2]
    BY <1>3, <1>4
  <2>4. \A q \in Proc \ {p} : \A a, c \in Of(p), b \in Of(q) : ~(a < b /\ b < c)
    BY <1>3, <1>4
  <2> QED  BY <2>1, <2>2, <2>3, <2>4, Zenon
<1> QED  BY <1>5, Zenon DEF Unmixed, F

(* consolewrite() and uartputc() with cons.lock, uartstart() from the call *)
(* and from the interrupt with uart_tx_lock, and uartputc_sync() with      *)
(* neither: what write() calls have passed on is all on its way, once, in  *)
(* order and unmixed.                                                      *)
THEOREM WritesLeaveUnmixed == ASSUME UartAssumption PROVE Spec => []Unmixed
<1>1. Init => IInv
  BY IInvInit, Zenon
<1>2. IInv /\ [Next]_vars => IInv'
  BY IInvNext, Zenon
<1>3. IInv => Unmixed
  BY IInvUnmixed, Zenon
<1> QED  BY <1>1, <1>2, <1>3, PTL DEF Spec
===========================================================================
