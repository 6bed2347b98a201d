--------------------------- MODULE ConsoleProofs ---------------------------
(***************************************************************************)
(* Proofs about Console, for any number of readers, any ring size and any  *)
(* width of the indices: the ring never wedges, and consoleintr() and      *)
(* consoleread() implement the line editor of Tty.                         *)
(***************************************************************************)
EXTENDS Console, TLAPS

(* How much can be read, and how long the line is that is being typed. *)
Finished == Minus(w, r)
Typed == Minus(e, w)

TypeOK ==
  /\ buf \in [0..INPUT_BUF - 1 -> Char]
  /\ r \in 0..UINT - 1 /\ w \in 0..UINT - 1 /\ e \in 0..UINT - 1

(* cons.w is between cons.r and cons.e, which are at most a ring apart; a  *)
(* full ring has been handed to the readers; and no newline is in the part *)
(* that is still being typed.                                              *)
InRing ==
  /\ Finished + Typed <= INPUT_BUF
  /\ Finished + Typed = INPUT_BUF => Typed = 0
  /\ \A k \in 0..Typed - 1 : At(w + k) # NL

IInv == TypeOK /\ InRing
-----------------------------------------------------------------------------
(* Arithmetic of the ring *)

(* A number is its quotient times the divisor, plus the remainder. *)
LEMMA DivMod ==
  ASSUME NEW d \in Nat \ {0}, NEW a \in Int
  PROVE  /\ a \div d \in Int /\ a % d \in 0..d - 1
         /\ a = (d * (a \div d)) + (a % d)
OBVIOUS

(* The remainder is the only one there is. *)
LEMMA ModUnique ==
  ASSUME NEW d \in Nat \ {0}, NEW a \in Int, NEW q \in Int, NEW m \in 0..d - 1,
         a = (d * q) + m
  PROVE  a % d = m
OBVIOUS

(* Going round the ring comes back to the same slot. *)
LEMMA ModRound ==
  ASSUME NEW d \in Nat \ {0}, NEW a \in Int, NEW c \in Int
  PROVE  (a + (d * c)) % d = a % d
<1> DEFINE q == a \div d
           m == a % d
<1>1. q \in Int /\ m \in 0..d - 1 /\ a = (d * q) + m
  BY DivMod, Zenon
<1>2. a + (d * c) = (d * (q + c)) + m
  BY <1>1
<1> HIDE DEF q, m
<1>3. q + c \in Int /\ a + (d * c) \in Int
  BY <1>1
<1>4. (a + (d * c)) % d = m
  BY <1>1, <1>2, <1>3, ModUnique, Zenon
<1> QED  BY <1>4, Zenon DEF m

(* Less than a round apart, two indices are two slots. *)
LEMMA ModApart ==
  ASSUME NEW d \in Nat \ {0}, NEW a \in Int, NEW b \in Int, a < b, b < a + d
  PROVE  a % d # b % d
<1> SUFFICES ASSUME a % d = b % d PROVE FALSE
  BY Zenon
<1> DEFINE q == a \div d
           s == b \div d
<1>1. /\ q \in Int /\ a = (d * q) + (a % d)
      /\ s \in Int /\ b = (d * s) + (b % d)
  BY DivMod, Zenon
<1> HIDE DEF q, s
<1>2. s - q \in Int /\ 0 < d * (s - q) /\ d * (s - q) < d
  BY <1>1
<1>3. CASE s - q <= 0
  BY <1>2, <1>3
<1>4. CASE s - q >= 1
  BY <1>2, <1>4
<1> QED  BY <1>2, <1>3, <1>4

(* What the constants are. *)
LEMMA Sizes ==
  ASSUME ConsoleAssumption
  PROVE  /\ UINT \in Nat \ {0} /\ INPUT_BUF \in Nat \ {0} /\ UINT > INPUT_BUF
         /\ UINT % INPUT_BUF = 0
BY DEF ConsoleAssumption

(* The difference of two indices, without the remainder. *)
LEMMA Difference ==
  ASSUME ConsoleAssumption, NEW x \in 0..UINT - 1, NEW y \in 0..UINT - 1
  PROVE  /\ Minus(y, x) = IF y >= x THEN y - x ELSE y - x + UINT
         /\ Minus(y, x) \in 0..UINT - 1
<1>1. UINT \in Nat \ {0}
  BY Sizes, Zenon
<1>2. CASE y >= x
  <2>1. y - x + UINT = (UINT * 1) + (y - x)
    BY <1>1
  <2> QED  BY <1>1, <1>2, <2>1, ModUnique DEF Minus
<1>3. CASE ~(y >= x)
  <2>1. y - x + UINT = (UINT * 0) + (y - x + UINT)
    BY <1>1
  <2> QED  BY <1>1, <1>3, <2>1, ModUnique DEF Minus
<1> QED  BY <1>2, <1>3, Zenon

(* cons.x++ and cons.r + INPUT_BUF *)
LEMMA Sum ==
  ASSUME ConsoleAssumption, NEW x \in 0..UINT - 1, NEW k \in 0..INPUT_BUF
  PROVE  (x + k) % UINT = IF x + k < UINT THEN x + k ELSE x + k - UINT
<1>1. UINT \in Nat \ {0} /\ INPUT_BUF \in Nat /\ UINT > INPUT_BUF
  BY Sizes, Zenon
<1>2. CASE x + k < UINT
  <2>1. x + k = (UINT * 0) + (x + k)
    BY <1>1
  <2> QED  BY <1>1, <1>2, <2>1, ModUnique
<1>3. CASE ~(x + k < UINT)
  <2>1. x + k = (UINT * 1) + (x + k - UINT)
    BY <1>1
  <2> QED  BY <1>1, <1>3, <2>1, ModUnique
<1> QED  BY <1>2, <1>3, Zenon

(* Two indices that are equal have nothing between them. *)
LEMMA NoDifference ==
  ASSUME ConsoleAssumption, NEW x \in 0..UINT - 1
  PROVE  Minus(x, x) = 0
<1>1. UINT \in Nat \ {0}
  BY Sizes, Zenon
<1>2. Minus(x, x) = IF x >= x THEN x - x ELSE x - x + UINT
  BY Difference, Zenon
<1> QED  BY <1>1, <1>2

(* The test for a full ring. *)
LEMMA RingFull ==
  ASSUME ConsoleAssumption, NEW x \in 0..UINT - 1, NEW y \in 0..UINT - 1
  PROVE  y = (x + INPUT_BUF) % UINT <=> Minus(y, x) = INPUT_BUF
<1>1. UINT \in Nat \ {0} /\ INPUT_BUF \in Nat \ {0} /\ UINT > INPUT_BUF
  BY Sizes, Zenon
<1>2. INPUT_BUF \in 0..INPUT_BUF
  BY <1>1
<1>3. (x + INPUT_BUF) % UINT = IF x + INPUT_BUF < UINT THEN x + INPUT_BUF
                               ELSE x + INPUT_BUF - UINT
  BY <1>2, Sum, Zenon
<1>4. Minus(y, x) = IF y >= x THEN y - x ELSE y - x + UINT
  BY Difference, Zenon
<1> QED  BY <1>1, <1>3, <1>4

(* 2^32 is a whole number of rounds: k slots after y is as far from x as   *)
(* the indices say, also where they wrap.                                  *)
LEMMA SameSlot ==
  ASSUME ConsoleAssumption, NEW x \in 0..UINT - 1, NEW y \in 0..UINT - 1, NEW k \in Int
  PROVE  (y + k) % INPUT_BUF = (x + (Minus(y, x) + k)) % INPUT_BUF
<1>1. UINT \in Nat \ {0} /\ INPUT_BUF \in Nat \ {0} /\ UINT % INPUT_BUF = 0
  BY Sizes, Zenon
<1>2. CASE y >= x
  <2>1. x + (Minus(y, x) + k) = y + k
    BY <1>1, <1>2, Difference
  <2> QED  BY <2>1, Zenon
<1>3. CASE ~(y >= x)
  <2> DEFINE c == UINT \div INPUT_BUF
  <2>1. c \in Int /\ UINT = (INPUT_BUF * c) + 0
    BY <1>1, DivMod
  <2> HIDE DEF c
  <2>2. y + k \in Int
    OBVIOUS
  <2>3. ((y + k) + (INPUT_BUF * c)) % INPUT_BUF = (y + k) % INPUT_BUF
    BY <1>1, <2>1, <2>2, ModRound, Zenon
  <2>4. x + (Minus(y, x) + k) = (y + k) + (INPUT_BUF * c)
    BY <1>1, <1>3, <2>1, Difference
  <2> QED  BY <2>3, <2>4, Zenon
<1> QED  BY <1>2, <1>3, Zenon
-----------------------------------------------------------------------------
(* The invariant *)

(* What the three indices tell, without remainders. *)
LEMMA Indices ==
  ASSUME ConsoleAssumption, IInv
  PROVE  /\ Finished \in 0..INPUT_BUF /\ Typed \in 0..INPUT_BUF
         /\ Minus(e, r) = Finished + Typed
         /\ Finished = IF w >= r THEN w - r ELSE w - r + UINT
         /\ Typed = IF e >= w THEN e - w ELSE e - w + UINT
         /\ HasRoom <=> Finished + Typed < INPUT_BUF
<1>1. UINT \in Nat \ {0} /\ INPUT_BUF \in Nat \ {0} /\ UINT > INPUT_BUF
  BY Sizes, Zenon
<1>2. r \in 0..UINT - 1 /\ w \in 0..UINT - 1 /\ e \in 0..UINT - 1
  BY Zenon DEF IInv, TypeOK
<1>3. /\ Finished = IF w >= r THEN w - r ELSE w - r + UINT
      /\ Typed = IF e >= w THEN e - w ELSE e - w + UINT
      /\ Minus(e, r) = IF e >= r THEN e - r ELSE e - r + UINT
  BY <1>2, Difference, Zenon DEF Finished, Typed
<1>4. Finished + Typed <= INPUT_BUF
  BY Zenon DEF IInv, InRing
<1>5. Finished \in 0..INPUT_BUF /\ Typed \in 0..INPUT_BUF /\ Minus(e, r) = Finished + Typed
  BY <1>1, <1>2, <1>3, <1>4
<1> QED  BY <1>3, <1>5, Zenon DEF HasRoom

(* The slot of cons.e, and those of the line that is being typed, as they  *)
(* are counted from cons.r.                                                *)
LEMMA Slots ==
  ASSUME ConsoleAssumption, IInv
  PROVE  /\ \A k \in Int : (w + k) % INPUT_BUF = (r + (Finished + k)) % INPUT_BUF
         /\ e % INPUT_BUF = (r + (Finished + Typed)) % INPUT_BUF
         /\ \A k \in Int : (r + k) % INPUT_BUF \in 0..INPUT_BUF - 1
<1>1. r \in 0..UINT - 1 /\ w \in 0..UINT - 1 /\ e \in 0..UINT - 1
  BY Zenon DEF IInv, TypeOK
<1>2. INPUT_BUF \in Nat \ {0} /\ UINT \in Nat
  BY Sizes
<1>3. \A k \in Int : (w + k) % INPUT_BUF = (r + (Finished + k)) % INPUT_BUF
  BY <1>1, SameSlot, Zenon DEF Finished
<1>4. e % INPUT_BUF = (r + (Finished + Typed)) % INPUT_BUF
  <2>1. (e + 0) % INPUT_BUF = (r + (Minus(e, r) + 0)) % INPUT_BUF
    BY <1>1, SameSlot
  <2>2. e + 0 = e /\ Minus(e, r) + 0 = Finished + Typed
    BY <1>1, <1>2, Indices
  <2> QED  BY <2>1, <2>2, Zenon
<1>5. ASSUME NEW k \in Int
      PROVE  (r + k) % INPUT_BUF \in 0..INPUT_BUF - 1
  <2>1. r + k \in Int
    BY <1>1, <1>2
  <2> QED  BY <1>2, <2>1, DivMod, Zenon
<1> QED  BY <1>3, <1>4, <1>5, Zenon

(* An ordinary character: it goes to the slot after the last, which holds  *)
(* none of the others, and the line is handed over when it is finished or  *)
(* fills the ring.                                                         *)
LEMMA TypeStep ==
  ASSUME ConsoleAssumption, IInv, NEW c \in Char, Type(c)
  PROVE  /\ TypeOK' /\ r' = r /\ Finished + Typed < INPUT_BUF
         /\ \A k \in 0..Finished + Typed - 1 :
              buf'[(r + k) % INPUT_BUF] = buf[(r + k) % INPUT_BUF]
         /\ buf'[(r + (Finished + Typed)) % INPUT_BUF] = c
         /\ IF c \in {NL, EOF} \/ Finished + Typed + 1 = INPUT_BUF
            THEN Finished' = Finished + Typed + 1 /\ Typed' = 0
            ELSE Finished' = Finished /\ Typed' = Typed + 1 /\ w' = w
<1> DEFINE L == Finished + Typed
<1>1. /\ r \in 0..UINT - 1 /\ w \in 0..UINT - 1 /\ e \in 0..UINT - 1
      /\ buf \in [0..INPUT_BUF - 1 -> Char]
  BY Zenon DEF IInv, TypeOK
<1>2. UINT \in Nat \ {0} /\ INPUT_BUF \in Nat \ {0} /\ UINT > INPUT_BUF
  BY Sizes, Zenon
<1>3. /\ HasRoom /\ buf' = [buf EXCEPT ![e % INPUT_BUF] = c]
      /\ e' = (e + 1) % UINT /\ r' = r
      /\ w' = IF LineDone(c, e') THEN e' ELSE w
  BY Zenon DEF Type
<1>4. /\ Finished \in 0..INPUT_BUF /\ Typed \in 0..INPUT_BUF /\ L < INPUT_BUF
      /\ Finished = IF w >= r THEN w - r ELSE w - r + UINT
      /\ Typed = IF e >= w THEN e - w ELSE e - w + UINT
  BY <1>3, Indices, Zenon
<1>5. e' = IF e + 1 < UINT THEN e + 1 ELSE e + 1 - UINT
  <2>1. 1 \in 0..INPUT_BUF
    BY <1>2
  <2> QED  BY <1>1, <1>3, <2>1, Sum, Zenon
<1>6. e' \in 0..UINT - 1
  BY <1>1, <1>2, <1>5
<1>7. /\ Minus(e', r) = IF e' >= r THEN e' - r ELSE e' - r + UINT
      /\ Minus(e', w) = IF e' >= w THEN e' - w ELSE e' - w + UINT
      /\ Minus(e', e') = 0
  BY <1>1, <1>6, Difference, NoDifference, Zenon
<1>8. Minus(e', r) = L + 1 /\ Minus(e', w) = Typed + 1
  BY <1>1, <1>2, <1>4, <1>5, <1>7
<1>9. LineDone(c, e') <=> c \in {NL, EOF} \/ L + 1 = INPUT_BUF
  <2>1. e' = (r + INPUT_BUF) % UINT <=> L + 1 = INPUT_BUF
    BY <1>1, <1>6, <1>8, RingFull, Zenon
  <2> QED  BY <2>1, Zenon DEF LineDone
<1>10. IF c \in {NL, EOF} \/ L + 1 = INPUT_BUF
       THEN Finished' = L + 1 /\ Typed' = 0
       ELSE Finished' = Finished /\ Typed' = Typed + 1 /\ w' = w
  BY <1>3, <1>7, <1>8, <1>9, Zenon DEF Finished, Typed, Minus
<1>11. e % INPUT_BUF = (r + L) % INPUT_BUF /\ (r + L) % INPUT_BUF \in 0..INPUT_BUF - 1
  <2>1. L \in Int
    BY <1>4
  <2> QED  BY <2>1, Slots, Zenon
<1>12. buf'[(r + L) % INPUT_BUF] = c
  BY <1>1, <1>3, <1>11, Zenon
<1>13. ASSUME NEW k \in 0..L - 1
       PROVE  buf'[(r + k) % INPUT_BUF] = buf[(r + k) % INPUT_BUF]
  <2>1. k \in Int /\ r + k \in Int /\ r + L \in Int /\ r + k < r + L /\ r + L < r + k + INPUT_BUF
    BY <1>1, <1>2, <1>4
  <2>2. (r + k) % INPUT_BUF # (r + L) % INPUT_BUF
    BY <1>2, <2>1, ModApart, Zenon
  <2>3. (r + k) % INPUT_BUF \in 0..INPUT_BUF - 1
    BY <2>1, Slots, Zenon
  <2> QED  BY <1>1, <1>3, <1>11, <2>2, <2>3, Zenon
<1>14. TypeOK'
  <2>1. w' \in 0..UINT - 1
    BY <1>1, <1>3, <1>6, Zenon
  <2>2. buf' \in [0..INPUT_BUF - 1 -> Char]
    BY <1>1, <1>3, Zenon
  <2> QED  BY <1>1, <1>3, <1>6, <2>1, <2>2, Zenon DEF TypeOK
<1> QED  BY <1>3, <1>4, <1>10, <1>12, <1>13, <1>14

(* A newline ends its line. *)
LEMMA TypeInv ==
  ASSUME ConsoleAssumption, IInv, NEW c \in Char, Type(c)
  PROVE  IInv'
<1>1. /\ Finished \in 0..INPUT_BUF /\ Typed \in 0..INPUT_BUF /\ INPUT_BUF \in Nat \ {0}
  BY Indices, Sizes, Zenon
<1>2. /\ TypeOK' /\ r' = r /\ Finished + Typed < INPUT_BUF
      /\ \A k \in 0..Finished + Typed - 1 :
           buf'[(r + k) % INPUT_BUF] = buf[(r + k) % INPUT_BUF]
      /\ buf'[(r + (Finished + Typed)) % INPUT_BUF] = c
      /\ IF c \in {NL, EOF} \/ Finished + Typed + 1 = INPUT_BUF
         THEN Finished' = Finished + Typed + 1 /\ Typed' = 0
         ELSE Finished' = Finished /\ Typed' = Typed + 1 /\ w' = w
  BY TypeStep, Zenon
<1>3. CASE c \in {NL, EOF} \/ Finished + Typed + 1 = INPUT_BUF
  <2>1. Finished' = Finished + Typed + 1 /\ Typed' = 0
    BY <1>2, <1>3, Zenon
  <2> QED  BY <1>1, <1>2, <2>1 DEF IInv, InRing
<1>4. CASE ~(c \in {NL, EOF} \/ Finished + Typed + 1 = INPUT_BUF)
  <2>1. Finished' = Finished /\ Typed' = Typed + 1 /\ w' = w
    BY <1>2, <1>4, Zenon
  <2>2. ASSUME NEW k \in 0..Typed
        PROVE  buf'[(w + k) % INPUT_BUF] # NL
    <3>1. (w + k) % INPUT_BUF = (r + (Finished + k)) % INPUT_BUF
      BY <1>1, Slots
    <3>2. CASE k = Typed
      BY <1>2, <1>4, <3>1, <3>2, Zenon
    <3>3. CASE k # Typed
      <4>1. k \in 0..Typed - 1 /\ Finished + k \in 0..Finished + Typed - 1
        BY <1>1, <3>3
      <4>2. buf[(w + k) % INPUT_BUF] # NL
        BY <4>1, Zenon DEF IInv, InRing, At
      <4> QED  BY <1>2, <3>1, <4>1, <4>2, Zenon
    <3> QED  BY <3>2, <3>3, Zenon
  <2>3. \A k \in 0..Typed' - 1 : At(w + k)' # NL
    <3>1. Typed' - 1 = Typed
      BY <1>1, <2>1
    <3> QED  BY <2>1, <2>2, <3>1, Zenon DEF At
  <2>4. Finished' + Typed' <= INPUT_BUF /\ (Finished' + Typed' = INPUT_BUF => Typed' = 0)
    BY <1>1, <1>2, <1>4, <2>1
  <2> QED  BY <1>2, <2>3, <2>4, Zenon DEF IInv, InRing
<1> QED  BY <1>3, <1>4, Zenon

(* Moving cons.e back within the line. *)
LEMMA Shorten ==
  ASSUME ConsoleAssumption, IInv, NEW d \in 0..Typed, e' = Minus(e, d),
         UNCHANGED <<buf, r, w>>
  PROVE  IInv' /\ Finished' = Finished /\ Typed' = Typed - d
<1>1. UINT \in Nat \ {0} /\ INPUT_BUF \in Nat \ {0} /\ UINT > INPUT_BUF
  BY Sizes, Zenon
<1>2. /\ Finished \in 0..INPUT_BUF /\ Typed \in 0..INPUT_BUF
      /\ Typed = IF e >= w THEN e - w ELSE e - w + UINT
  BY Indices, Zenon
<1>3. /\ r \in 0..UINT - 1 /\ w \in 0..UINT - 1 /\ e \in 0..UINT - 1
      /\ d \in 0..UINT - 1
  BY <1>1, <1>2 DEF IInv, TypeOK
<1>4. Finished' = Finished
  BY Zenon DEF Finished, Minus
<1>5. /\ e' = IF e >= d THEN e - d ELSE e - d + UINT
      /\ e' \in 0..UINT - 1
  BY <1>3, Difference, Zenon
<1>6. Minus(e', w) = IF e' >= w THEN e' - w ELSE e' - w + UINT
  BY <1>3, <1>5, Difference, Zenon
<1>7. Minus(e', w) = Typed - d
  BY <1>1, <1>2, <1>3, <1>5, <1>6
<1>8. Typed' = Typed - d
  BY <1>7, Zenon DEF Typed, Minus
<1>9. TypeOK'
  BY <1>5, Zenon DEF IInv, TypeOK
<1>10. Finished' + Typed' <= INPUT_BUF /\ (Finished' + Typed' = INPUT_BUF => Typed' = 0)
  BY <1>1, <1>2, <1>4, <1>8 DEF IInv, InRing
<1>11. \A k \in 0..Typed' - 1 : At(w + k)' # NL
  <2>1. \A k \in 0..Typed' - 1 : k \in 0..Typed - 1
    BY <1>2, <1>8
  <2> QED  BY <2>1, Zenon DEF IInv, InRing, At
<1> QED  BY <1>4, <1>8, <1>9, <1>10, <1>11, Zenon DEF IInv, InRing

(* Control-U: no newline is in the line, so the loop ends at its start.    *)
LEMMA KillLineStep ==
  ASSUME ConsoleAssumption, IInv, KillLine
  PROVE  /\ e' = Minus(e, Typed) /\ UNCHANGED <<buf, r, w>>
<1>1. UINT \in Nat \ {0} /\ INPUT_BUF \in Nat \ {0} /\ UINT > INPUT_BUF
  BY Sizes, Zenon
<1>2. /\ Typed \in 0..INPUT_BUF
      /\ Typed = IF e >= w THEN e - w ELSE e - w + UINT
  BY Indices, Zenon
<1>3. /\ w \in 0..UINT - 1 /\ e \in 0..UINT - 1
  BY Zenon DEF IInv, TypeOK
<1>4. UNCHANGED <<buf, r, w>>
  BY Zenon DEF KillLine
<1>5. PICK d \in 0..Typed : e' = Minus(e, d) /\ LineStart(e')
  BY Zenon DEF KillLine, Typed
<1>6. d \in 0..UINT - 1 /\ 1 \in 0..UINT - 1
  BY <1>1, <1>2
<1>7. /\ e' = IF e >= d THEN e - d ELSE e - d + UINT
      /\ e' \in 0..UINT - 1
  BY <1>3, <1>5, <1>6, Difference, Zenon
<1>8. d = Typed
  <2> SUFFICES ASSUME d # Typed PROVE FALSE
    BY Zenon
  <2>1. e' # w /\ Typed - d - 1 \in 0..Typed - 1
    BY <1>1, <1>2, <1>3, <1>7
  <2>2. At(Minus(e', 1)) = NL
    BY <1>5, <2>1, Zenon DEF LineStart
  <2> DEFINE x == Minus(e', 1)
  <2>3. /\ x = IF e' >= 1 THEN e' - 1 ELSE e' - 1 + UINT
        /\ x \in 0..UINT - 1
    BY <1>6, <1>7, Difference, Zenon
  <2> HIDE DEF x
  <2>4. Minus(x, w) = IF x >= w THEN x - w ELSE x - w + UINT
    BY <1>3, <2>3, Difference, Zenon
  <2>5. Minus(x, w) = Typed - d - 1
    BY <1>1, <1>2, <1>3, <1>7, <2>1, <2>3, <2>4
  <2>6. (x + 0) % INPUT_BUF = (w + (Minus(x, w) + 0)) % INPUT_BUF
    BY <1>3, <2>3, SameSlot
  <2>7. x + 0 = x /\ Minus(x, w) + 0 = Typed - d - 1
    BY <1>1, <1>2, <2>1, <2>3, <2>5
  <2>8. x % INPUT_BUF = (w + (Typed - d - 1)) % INPUT_BUF
    BY <2>6, <2>7, Zenon
  <2>9. At(w + (Typed - d - 1)) # NL
    BY <2>1, Zenon DEF IInv, InRing
  <2> QED  BY <2>2, <2>8, <2>9, Zenon DEF At, x
<1> QED  BY <1>4, <1>5, <1>8, Zenon

(* Backspace. *)
LEMMA BackspaceStep ==
  ASSUME ConsoleAssumption, IInv, Backspace
  PROVE  /\ UNCHANGED <<buf, r, w>>
         /\ IF Typed = 0 THEN e' = e ELSE 1 \in 0..Typed /\ e' = Minus(e, 1)
<1>1. UINT \in Nat \ {0} /\ INPUT_BUF \in Nat
  BY Sizes, Zenon
<1>2. /\ Typed \in 0..INPUT_BUF /\ Typed = IF e >= w THEN e - w ELSE e - w + UINT
  BY Indices, Zenon
<1>3. /\ w \in 0..UINT - 1 /\ e \in 0..UINT - 1
  BY Zenon DEF IInv, TypeOK
<1>4. UNCHANGED <<buf, r, w>> /\ e' = IF e # w THEN Minus(e, 1) ELSE e
  BY Zenon DEF Backspace
<1>5. Typed = 0 <=> e = w
  BY <1>1, <1>2, <1>3
<1>6. Typed # 0 => 1 \in 0..Typed
  BY <1>1, <1>2
<1> QED  BY <1>4, <1>5, <1>6, Zenon

(* consoleread() takes the first of the finished characters. *)
LEMMA TakeStep ==
  ASSUME ConsoleAssumption, IInv, r # w, r' = (r + 1) % UINT, UNCHANGED <<buf, w, e>>
  PROVE  /\ IInv' /\ Typed' = Typed /\ Finished' = Finished - 1 /\ Finished # 0
<1>1. UINT \in Nat \ {0} /\ INPUT_BUF \in Nat \ {0} /\ UINT > INPUT_BUF
  BY Sizes, Zenon
<1>2. /\ Finished \in 0..INPUT_BUF /\ Typed \in 0..INPUT_BUF
      /\ Finished = IF w >= r THEN w - r ELSE w - r + UINT
  BY Indices, Zenon
<1>3. /\ r \in 0..UINT - 1 /\ w \in 0..UINT - 1 /\ 1 \in 0..INPUT_BUF
  BY <1>1 DEF IInv, TypeOK
<1>4. r' = IF r + 1 < UINT THEN r + 1 ELSE r + 1 - UINT
  BY <1>3, Sum, Zenon
<1>5. r' \in 0..UINT - 1
  BY <1>1, <1>3, <1>4
<1>6. Minus(w, r') = IF w >= r' THEN w - r' ELSE w - r' + UINT
  BY <1>3, <1>5, Difference, Zenon
<1>7. Minus(w, r') = Finished - 1 /\ Finished # 0
  BY <1>1, <1>2, <1>3, <1>4, <1>6
<1>8. Finished' = Finished - 1 /\ Typed' = Typed
  BY <1>7, Zenon DEF Finished, Typed, Minus
<1>9. TypeOK'
  BY <1>5, Zenon DEF IInv, TypeOK
<1>10. Finished' + Typed' <= INPUT_BUF /\ (Finished' + Typed' = INPUT_BUF => Typed' = 0)
  BY <1>1, <1>2, <1>8 DEF IInv, InRing
<1>11. \A k \in 0..Typed' - 1 : At(w + k)' # NL
  BY <1>8, Zenon DEF IInv, InRing, At
<1> QED  BY <1>7, <1>8, <1>9, <1>10, <1>11, Zenon DEF IInv, InRing

(* The other steps of consoleread() and kill() leave the ring alone. *)
LEMMA SameRing ==
  ASSUME IInv, UNCHANGED cons
  PROVE  IInv' /\ Finished' = Finished /\ Typed' = Typed
BY Zenon DEF cons, IInv, TypeOK, InRing, Finished, Typed, Minus, At

(* Each step is one of these. *)
LEMMA Cases ==
  ASSUME [Next]_vars
  PROVE  \/ KillLine \/ Backspace \/ \E c \in Char : Type(c)
         \/ r # w /\ r' = (r + 1) % UINT /\ UNCHANGED <<buf, w, e>>
         \/ UNCHANGED cons
<1>1. ASSUME NEW p \in Proc, EndOfFile(p) \/ Copy(p)
      PROVE  (r # w /\ r' = (r + 1) % UINT /\ UNCHANGED <<buf, w, e>>) \/ UNCHANGED cons
  BY <1>1, Zenon DEF EndOfFile, Copy, cons
<1>2. ASSUME NEW p \in Proc, NEW k \in 0..MaxN, Read(p, k)
      PROVE  UNCHANGED cons
  BY <1>2, Zenon DEF Read
<1>3. ASSUME NEW p \in Proc, Acquire(p) \/ NoInput(p) \/ Sleep(p) \/ Done(p) \/ Kill(p)
      PROVE  UNCHANGED cons
  BY <1>3, Zenon DEF Acquire, NoInput, Sleep, Done, Kill
<1>4. CASE UNCHANGED vars
  BY <1>4, Zenon DEF vars
<1> QED  BY <1>1, <1>2, <1>3, <1>4, Zenon DEF Next

(* It holds at the start ... *)
LEMMA InitInv ==
  ASSUME ConsoleAssumption, Init
  PROVE  IInv /\ Finished = 0 /\ Typed = 0
<1>1. UINT \in Nat \ {0} /\ INPUT_BUF \in Nat \ {0}
  BY Sizes, Zenon
<1>2. 0 \in 0..UINT - 1
  BY <1>1
<1>3. TypeOK
  BY <1>2, Zenon DEF Init, TypeOK, Char
<1>4. Finished = 0 /\ Typed = 0
  BY <1>2, NoDifference, Zenon DEF Init, Finished, Typed
<1> QED  BY <1>1, <1>3, <1>4 DEF IInv, InRing

(* ... and is kept by every step. *)
LEMMA NextInv ==
  ASSUME ConsoleAssumption, IInv, [Next]_vars
  PROVE  IInv'
<1>1. CASE KillLine
  <2>1. Typed \in 0..Typed
    BY Indices, Sizes
  <2> QED  BY <1>1, <2>1, KillLineStep, Shorten, Zenon
<1>2. CASE Backspace
  <2>1. CASE Typed = 0
    BY <1>2, <2>1, BackspaceStep, SameRing, Zenon DEF cons
  <2>2. CASE Typed # 0
    BY <1>2, <2>2, BackspaceStep, Shorten, Zenon
  <2> QED  BY <2>1, <2>2, Zenon
<1>3. CASE \E c \in Char : Type(c)
  BY <1>3, TypeInv, Zenon
<1>4. CASE r # w /\ r' = (r + 1) % UINT /\ UNCHANGED <<buf, w, e>>
  BY <1>4, TakeStep, Zenon
<1>5. CASE UNCHANGED cons
  BY <1>5, SameRing, Zenon
<1> QED  BY <1>1, <1>2, <1>3, <1>4, <1>5, Cases, Zenon

(* The invariant of the input ring. *)
THEOREM ConsoleInvariant == ASSUME ConsoleAssumption PROVE Spec => []IInv
<1>1. Init => IInv
  BY InitInv, Zenon
<1>2. IInv /\ [Next]_vars => IInv'
  BY NextInv, Zenon
<1> QED  BY <1>1, <1>2, PTL DEF Spec

(* The ring of console.c never wedges: whenever consoleintr() would drop   *)
(* the next character, consoleread() has something to take, for any number *)
(* of readers and any size of the ring.                                    *)
THEOREM RingIsNeverWedged == ASSUME ConsoleAssumption PROVE Spec => []NeverWedged
<1>1. IInv => NeverWedged
  <2> SUFFICES ASSUME IInv, ~HasRoom, r = w PROVE FALSE
    BY Zenon DEF NeverWedged
  <2>1. Finished = 0
    BY NoDifference, Zenon DEF Finished, IInv, TypeOK
  <2>2. Finished + Typed = INPUT_BUF /\ Typed = 0
    BY Indices, Sizes DEF IInv, InRing
  <2> QED  BY <2>1, <2>2, Sizes
<1> QED  BY <1>1, ConsoleInvariant, PTL
-----------------------------------------------------------------------------
(* The line editor *)

ReadyText == [k \in 1..Minus(w, r) |-> At(r + k - 1)]
EditText == [k \in 1..Minus(e, w) |-> At(w + k - 1)]

(* Where the two are in the ring. *)
Laid ==
  /\ Finished \in Nat /\ Typed \in Nat
  /\ ReadyText \in Seq(Char) /\ Len(ReadyText) = Finished
  /\ EditText \in Seq(Char) /\ Len(EditText) = Typed
  /\ ReadyText = [k \in 1..Finished |-> buf[(r + (k - 1)) % INPUT_BUF]]
  /\ EditText = [k \in 1..Typed |-> buf[(r + (Finished + k - 1)) % INPUT_BUF]]

(* Sequences as functions. *)
LEMMA SeqFacts ==
  ASSUME NEW S, NEW s \in Seq(S)
  PROVE  /\ Len(s) \in Nat /\ s \in [1..Len(s) -> S]
         /\ Len(s) = 0 => s = << >>
         /\ Len(s) # 0 => s # << >>
OBVIOUS

(* A function on 1..m is a sequence of length m. *)
LEMMA FunctionIsSeq ==
  ASSUME NEW S, NEW m \in Nat, NEW f \in [1..m -> S]
  PROVE  f \in Seq(S) /\ Len(f) = m
OBVIOUS

(* The elements of Append. *)
LEMMA AppendFacts ==
  ASSUME NEW S, NEW s \in Seq(S), NEW x \in S
  PROVE  /\ Append(s, x) \in Seq(S) /\ Len(Append(s, x)) = Len(s) + 1
         /\ Append(s, x) \in [1..Len(s) + 1 -> S]
         /\ \A k \in 1..Len(s) : Append(s, x)[k] = s[k]
         /\ Append(s, x)[Len(s) + 1] = x
<1>1. Append(s, x) \in Seq(S) /\ Len(Append(s, x)) = Len(s) + 1
  OBVIOUS
<1>2. Append(s, x) \in [1..Len(s) + 1 -> S]
  BY <1>1, SeqFacts, Zenon
<1>3. \A k \in 1..Len(s) : Append(s, x)[k] = s[k]
  OBVIOUS
<1>4. Append(s, x)[Len(s) + 1] = x
  OBVIOUS
<1> QED  BY <1>1, <1>2, <1>3, <1>4, Zenon

(* The elements of a concatenation. *)
LEMMA ConcatFacts ==
  ASSUME NEW S, NEW s \in Seq(S), NEW t \in Seq(S)
  PROVE  /\ s \o t \in [1..Len(s) + Len(t) -> S]
         /\ \A k \in 1..Len(s) : (s \o t)[k] = s[k]
         /\ \A k \in 1..Len(t) : (s \o t)[Len(s) + k] = t[k]
<1>1. s \o t \in Seq(S) /\ Len(s \o t) = Len(s) + Len(t)
  OBVIOUS
<1>2. s \o t \in [1..Len(s) + Len(t) -> S]
  BY <1>1, SeqFacts, Zenon
<1>3. \A k \in 1..Len(s) : (s \o t)[k] = s[k]
  OBVIOUS
<1>4. \A k \in 1..Len(t) : (s \o t)[Len(s) + k] = t[k]
  OBVIOUS
<1> QED  BY <1>2, <1>3, <1>4, Zenon

(* The elements of Tail. *)
LEMMA TailFacts ==
  ASSUME NEW S, NEW s \in Seq(S), Len(s) # 0
  PROVE  Tail(s) = [k \in 1..Len(s) - 1 |-> s[k + 1]]
<1>1. Tail(s) \in Seq(S) /\ Len(Tail(s)) = Len(s) - 1
  OBVIOUS
<1>2. Tail(s) \in [1..Len(s) - 1 -> S]
  BY <1>1, SeqFacts, Zenon
<1>3. \A k \in 1..Len(s) - 1 : Tail(s)[k] = s[k + 1]
  OBVIOUS
<1> QED  BY <1>2, <1>3, Zenon

(* The elements of a prefix. *)
LEMMA PrefixFacts ==
  ASSUME NEW S, NEW s \in Seq(S), NEW m \in 0..Len(s)
  PROVE  SubSeq(s, 1, m) = [k \in 1..m |-> s[k]]
<1>1. SubSeq(s, 1, m) \in Seq(S) /\ Len(SubSeq(s, 1, m)) = m
  OBVIOUS
<1>2. SubSeq(s, 1, m) \in [1..m -> S]
  BY <1>1, SeqFacts, Zenon
<1>3. \A k \in 1..m : SubSeq(s, 1, m)[k] = s[k]
  OBVIOUS
<1> QED  BY <1>2, <1>3, Zenon

(* The two parts of the ring are sequences of characters. *)
LEMMA Texts ==
  ASSUME ConsoleAssumption, IInv
  PROVE  Laid
<1>1. Finished \in Nat /\ Typed \in Nat /\ r \in Nat /\ w \in Nat /\ INPUT_BUF \in Nat
  BY Indices, Sizes DEF IInv, TypeOK
<1>2. ASSUME NEW k \in 1..Finished
      PROVE  /\ At(r + k - 1) = buf[(r + (k - 1)) % INPUT_BUF]
             /\ buf[(r + (k - 1)) % INPUT_BUF] \in Char
  <2>1. r + k - 1 = r + (k - 1) /\ k - 1 \in Int
    BY <1>1
  <2>2. (r + (k - 1)) % INPUT_BUF \in 0..INPUT_BUF - 1
    BY <2>1, Slots, Zenon
  <2> QED  BY <2>1, <2>2, Zenon DEF At, IInv, TypeOK
<1>3. ASSUME NEW k \in 1..Typed
      PROVE  /\ At(w + k - 1) = buf[(r + (Finished + k - 1)) % INPUT_BUF]
             /\ buf[(r + (Finished + k - 1)) % INPUT_BUF] \in Char
  <2>1. /\ w + k - 1 = w + (k - 1) /\ k - 1 \in Int
        /\ Finished + k - 1 = Finished + (k - 1) /\ Finished + (k - 1) \in Int
    BY <1>1
  <2>2. (w + (k - 1)) % INPUT_BUF = (r + (Finished + (k - 1))) % INPUT_BUF
    BY <2>1, Slots, Zenon
  <2>3. (r + (Finished + (k - 1))) % INPUT_BUF \in 0..INPUT_BUF - 1
    BY <2>1, Slots, Zenon
  <2> QED  BY <2>1, <2>2, <2>3, Zenon DEF At, IInv, TypeOK
<1>4. ReadyText = [k \in 1..Finished |-> buf[(r + (k - 1)) % INPUT_BUF]]
  BY <1>2, Zenon DEF ReadyText, Finished
<1>5. EditText = [k \in 1..Typed |-> buf[(r + (Finished + k - 1)) % INPUT_BUF]]
  BY <1>3, Zenon DEF EditText, Typed
<1>6. ReadyText \in Seq(Char) /\ Len(ReadyText) = Finished
  <2>1. ReadyText \in [1..Finished -> Char]
    BY <1>2, <1>4, Zenon
  <2> QED  BY <1>1, <2>1, FunctionIsSeq, Zenon
<1>7. EditText \in Seq(Char) /\ Len(EditText) = Typed
  <2>1. EditText \in [1..Typed -> Char]
    BY <1>3, <1>5, Zenon
  <2> QED  BY <1>1, <2>1, FunctionIsSeq, Zenon
<1> QED  BY <1>1, <1>4, <1>5, <1>6, <1>7, Zenon DEF Laid

(* A character is typed: at the end of the line, which goes to the readers *)
(* when it is finished or fills the ring.                                  *)
LEMMA TypeRefines ==
  ASSUME ConsoleAssumption, IInv, NEW c \in Char, Type(c)
  PROVE  Editor!Type(c)
<1>1. Laid /\ Laid'
  <2>1. IInv'
    BY TypeInv, Zenon
  <2>2. Laid'
    BY <2>1, Texts, PTL
  <2> QED  BY <2>2, Texts, Zenon
<1>2. /\ r' = r /\ Finished + Typed < INPUT_BUF
      /\ \A k \in 0..Finished + Typed - 1 :
           buf'[(r + k) % INPUT_BUF] = buf[(r + k) % INPUT_BUF]
      /\ buf'[(r + (Finished + Typed)) % INPUT_BUF] = c
      /\ IF c \in {NL, EOF} \/ Finished + Typed + 1 = INPUT_BUF
         THEN Finished' = Finished + Typed + 1 /\ Typed' = 0
         ELSE Finished' = Finished /\ Typed' = Typed + 1 /\ w' = w
  BY TypeStep, Zenon
<1>3. /\ Append(EditText, c) \in Seq(Char) /\ Len(Append(EditText, c)) = Typed + 1
      /\ Append(EditText, c) \in [1..Typed + 1 -> Char]
      /\ \A k \in 1..Typed : Append(EditText, c)[k] = EditText[k]
      /\ Append(EditText, c)[Typed + 1] = c
  <2>1. EditText \in Seq(Char) /\ Len(EditText) = Typed
    BY <1>1, Zenon DEF Laid
  <2>2. /\ Append(EditText, c) \in Seq(Char) /\ Len(Append(EditText, c)) = Len(EditText) + 1
        /\ Append(EditText, c) \in [1..Len(EditText) + 1 -> Char]
        /\ \A k \in 1..Len(EditText) : Append(EditText, c)[k] = EditText[k]
        /\ Append(EditText, c)[Len(EditText) + 1] = c
    BY <2>1, AppendFacts
  <2> QED  BY <2>1, <2>2, Zenon
<1>4. Finished \in Nat /\ Typed \in Nat
  BY <1>1, Zenon DEF Laid
<1>5. ASSUME NEW k \in 1..Typed + 1
      PROVE  Append(EditText, c)[k] = buf'[(r + (Finished + k - 1)) % INPUT_BUF]
  <2>1. CASE k = Typed + 1
    <3>1. Finished + k - 1 = Finished + Typed
      BY <1>4, <2>1
    <3> QED  BY <1>2, <1>3, <2>1, <3>1, Zenon
  <2>2. CASE k # Typed + 1
    <3>1. k \in 1..Typed /\ Finished + k - 1 \in 0..Finished + Typed - 1
      BY <1>4, <2>2
    <3>2. EditText[k] = buf[(r + (Finished + k - 1)) % INPUT_BUF]
      BY <1>1, <3>1, Zenon DEF Laid
    <3> QED  BY <1>2, <1>3, <3>1, <3>2, Zenon
  <2> QED  BY <2>1, <2>2, Zenon
<1>6. ASSUME NEW k \in 1..Finished
      PROVE  ReadyText[k] = buf'[(r + (k - 1)) % INPUT_BUF]
  <2>1. k - 1 \in 0..Finished + Typed - 1
    BY <1>4
  <2>2. ReadyText[k] = buf[(r + (k - 1)) % INPUT_BUF]
    BY <1>1, Zenon DEF Laid
  <2> QED  BY <1>2, <2>1, <2>2, Zenon
<1>7. CASE c \in {NL, EOF} \/ Finished + Typed + 1 = INPUT_BUF
  <2>1. Finished' = Finished + Typed + 1 /\ Typed' = 0
    BY <1>2, <1>7, Zenon
  <2>2. EditText' = << >>
    <3>1. EditText' \in Seq(Char) /\ Len(EditText') = 0
      BY <1>1, <2>1, Zenon DEF Laid
    <3> QED  BY <3>1, SeqFacts, Zenon
  <2> DEFINE T == ReadyText \o Append(EditText, c)
  <2>3. /\ T \in [1..Finished + (Typed + 1) -> Char]
        /\ \A k \in 1..Finished : T[k] = ReadyText[k]
        /\ \A k \in 1..Typed + 1 : T[Finished + k] = Append(EditText, c)[k]
    <3> DEFINE A == Append(EditText, c)
    <3>1. Len(ReadyText) = Finished /\ Len(A) = Typed + 1
      BY <1>1, <1>3, Zenon DEF Laid
    <3>2. ReadyText \in Seq(Char) /\ A \in Seq(Char)
      BY <1>1, <1>3, Zenon DEF Laid
    <3> HIDE DEF A
    <3>3. /\ ReadyText \o A \in [1..Len(ReadyText) + Len(A) -> Char]
          /\ \A k \in 1..Len(ReadyText) : (ReadyText \o A)[k] = ReadyText[k]
          /\ \A k \in 1..Len(A) : (ReadyText \o A)[Len(ReadyText) + k] = A[k]
      <4>1. ReadyText \o A \in [1..Len(ReadyText) + Len(A) -> Char]
        BY <3>2, ConcatFacts
      <4>2. \A k \in 1..Len(ReadyText) : (ReadyText \o A)[k] = ReadyText[k]
        BY <3>2, ConcatFacts
      <4>3. \A k \in 1..Len(A) : (ReadyText \o A)[Len(ReadyText) + k] = A[k]
        BY <3>2, ConcatFacts
      <4> QED  BY <4>1, <4>2, <4>3, Zenon
    <3> QED  BY <3>1, <3>3, Zenon DEF A
  <2> HIDE DEF T
  <2>4. ReadyText' = [k \in 1..Finished + (Typed + 1) |-> buf'[(r + (k - 1)) % INPUT_BUF]]
    <3>1. Finished + Typed + 1 = Finished + (Typed + 1)
      BY <1>4
    <3>2. ReadyText' = [k \in 1..Finished' |-> buf'[(r' + (k - 1)) % INPUT_BUF]]
      BY <1>1, Zenon DEF Laid
    <3>3. r' = r /\ Finished' = Finished + (Typed + 1)
      BY <1>2, <2>1, <3>1, Zenon
    <3> QED  BY <3>2, <3>3, Zenon
  <2>5. ASSUME NEW k \in 1..Finished + (Typed + 1)
        PROVE  T[k] = buf'[(r + (k - 1)) % INPUT_BUF]
    <3>1. CASE k \in 1..Finished
      BY <1>6, <2>3, <3>1, Zenon
    <3>2. CASE k \notin 1..Finished
      <4>1. k - Finished \in 1..Typed + 1 /\ Finished + (k - Finished) = k
        BY <1>4, <3>2
      <4>2. Finished + (k - Finished) - 1 = k - 1
        BY <1>4, <4>1
      <4> QED  BY <1>5, <2>3, <4>1, <4>2, Zenon
    <3> QED  BY <3>1, <3>2, Zenon
  <2>6. ReadyText' = ReadyText \o Append(EditText, c)
    BY <2>3, <2>4, <2>5, Zenon DEF T
  <2> QED  BY <1>1, <1>2, <1>7, <2>2, <2>6, Zenon DEF Editor!Type, ReadyText, EditText, Laid
<1>8. CASE ~(c \in {NL, EOF} \/ Finished + Typed + 1 = INPUT_BUF)
  <2>1. Finished' = Finished /\ Typed' = Typed + 1
    BY <1>2, <1>8, Zenon
  <2>2. ReadyText' = ReadyText
    <3>1. ReadyText' = [k \in 1..Finished |-> buf'[(r + (k - 1)) % INPUT_BUF]]
      BY <1>1, <1>2, <2>1, Zenon DEF Laid
    <3>2. ReadyText = [k \in 1..Finished |-> buf[(r + (k - 1)) % INPUT_BUF]]
      BY <1>1, Zenon DEF Laid
    <3> QED  BY <1>6, <3>1, <3>2, Zenon
  <2>3. EditText' = Append(EditText, c)
    <3>1. EditText' = [k \in 1..Typed + 1 |-> buf'[(r + (Finished + k - 1)) % INPUT_BUF]]
      BY <1>1, <1>2, <2>1, Zenon DEF Laid
    <3> QED  BY <1>3, <1>5, <3>1, Zenon
  <2> QED  BY <1>1, <1>2, <1>8, <2>2, <2>3, Zenon DEF Editor!Type, ReadyText, EditText, Laid
<1> QED  BY <1>7, <1>8, Zenon

(* Backspace and control-U shorten the line, and nothing else. *)
LEMMA EraseRefines ==
  ASSUME ConsoleAssumption, IInv, NEW d \in 0..Typed, Typed - d \in {0, Typed - 1},
         e' = Minus(e, d), UNCHANGED <<buf, r, w>>
  PROVE  Editor!Erase
<1>1. IInv' /\ Finished' = Finished /\ Typed' = Typed - d
  BY Shorten, Zenon
<1>2. Laid'
  BY <1>1, Texts, PTL
<1>3. Laid
  BY Texts, Zenon
<1>4. Typed \in Nat /\ Typed - d \in 0..Typed
  BY <1>3 DEF Laid
<1>5. ReadyText' = ReadyText
  BY <1>1, Zenon DEF ReadyText, Minus, At
<1>6. EditText' = SubSeq(EditText, 1, Typed - d)
  <2>1. SubSeq(EditText, 1, Typed - d) = [k \in 1..Typed - d |-> EditText[k]]
    <3>1. EditText \in Seq(Char) /\ Typed - d \in 0..Len(EditText)
      BY <1>3, <1>4, Zenon DEF Laid
    <3> QED  BY <3>1, PrefixFacts, Zenon
  <2>2. \A k \in 1..Typed - d : k \in 1..Typed
    BY <1>4
  <2>3. EditText' = [k \in 1..Typed - d |-> buf[(r + (Finished + k - 1)) % INPUT_BUF]]
    BY <1>1, <1>2, Zenon DEF Laid
  <2>4. EditText = [k \in 1..Typed |-> buf[(r + (Finished + k - 1)) % INPUT_BUF]]
    BY <1>3, Zenon DEF Laid
  <2> QED  BY <2>1, <2>2, <2>3, <2>4, Zenon
<1>7. Len(EditText) = Typed
  BY <1>3, Zenon DEF Laid
<1> QED  BY <1>4, <1>5, <1>6, <1>7, Zenon DEF Editor!Erase, ReadyText, EditText

(* consoleread() takes the first of the finished characters. *)
LEMMA TakeRefines ==
  ASSUME ConsoleAssumption, IInv, r # w, r' = (r + 1) % UINT, UNCHANGED <<buf, w, e>>
  PROVE  Editor!Take
<1>1. IInv' /\ Typed' = Typed /\ Finished' = Finished - 1 /\ Finished # 0
  BY TakeStep, Zenon
<1>2. Laid /\ Laid'
  <2>1. Laid'
    BY <1>1, Texts, PTL
  <2> QED  BY <2>1, Texts, Zenon
<1>3. Finished \in Nat /\ Finished # 0 /\ Len(ReadyText) = Finished /\ ReadyText \in Seq(Char)
  BY <1>1, <1>2, Zenon DEF Laid
<1>4. ReadyText # << >> /\ Tail(ReadyText) = [k \in 1..Finished - 1 |-> ReadyText[k + 1]]
  BY <1>3, SeqFacts, TailFacts, Zenon
<1>5. /\ UINT \in Nat \ {0} /\ INPUT_BUF \in Nat \ {0}
      /\ r \in 0..UINT - 1 /\ r' \in 0..UINT - 1 /\ w \in 0..UINT - 1
  BY <1>1, Sizes, Zenon DEF IInv, TypeOK
<1>6. ASSUME NEW k \in Int
      PROVE  (r' + k) % INPUT_BUF = (r + (k + 1)) % INPUT_BUF
  <2>1. (r' + k) % INPUT_BUF = (r + (Minus(r', r) + k)) % INPUT_BUF
    BY <1>5, SameSlot, Zenon
  <2>2. Minus(r', r) = IF r' >= r THEN r' - r ELSE r' - r + UINT
    BY <1>5, Difference, Zenon
  <2>3. 1 \in 0..INPUT_BUF
    BY <1>5
  <2>4. r' = IF r + 1 < UINT THEN r + 1 ELSE r + 1 - UINT
    BY <1>5, <2>3, Sum, Zenon
  <2>5. UINT > 1
    BY <1>5, Sizes
  <2>6. Minus(r', r) + k = k + 1
    BY <1>5, <2>2, <2>4, <2>5
  <2> QED  BY <2>1, <2>6, Zenon
<1>7. ReadyText' = Tail(ReadyText)
  <2>1. ReadyText' = [k \in 1..Finished - 1 |-> buf[(r' + (k - 1)) % INPUT_BUF]]
    BY <1>1, <1>2, Zenon DEF Laid
  <2>2. ASSUME NEW k \in 1..Finished - 1
        PROVE  buf[(r' + (k - 1)) % INPUT_BUF] = ReadyText[k + 1]
    <3>1. k - 1 \in Int /\ k + 1 \in 1..Finished /\ (k - 1) + 1 = (k + 1) - 1
      BY <1>3
    <3>2. (r' + (k - 1)) % INPUT_BUF = (r + ((k - 1) + 1)) % INPUT_BUF
      BY <1>6, <3>1, Zenon
    <3>3. ReadyText[k + 1] = buf[(r + ((k + 1) - 1)) % INPUT_BUF]
      BY <1>2, <3>1, Zenon DEF Laid
    <3> QED  BY <3>1, <3>2, <3>3, Zenon
  <2> QED  BY <1>4, <2>1, <2>2, Zenon
<1>8. EditText' = EditText
  BY Zenon DEF EditText, Minus, At
<1> QED  BY <1>4, <1>7, <1>8, Zenon DEF Editor!Take, ReadyText, EditText

(* Every step is a step of the line editor or leaves it alone. *)
LEMMA StepRefines ==
  ASSUME ConsoleAssumption, IInv, [Next]_vars
  PROVE  Editor!Next \/ UNCHANGED <<ReadyText, EditText>>
<1>1. Typed \in Nat
  BY Indices, Sizes
<1>2. CASE KillLine
  <2>1. Typed \in 0..Typed /\ Typed - Typed \in {0, Typed - 1}
    BY <1>1
  <2> QED  BY <1>2, <2>1, KillLineStep, EraseRefines, Zenon DEF Editor!Next
<1>3. CASE Backspace
  <2>1. CASE Typed = 0
    BY <1>3, <2>1, BackspaceStep, Zenon DEF ReadyText, EditText, Minus, At
  <2>2. CASE Typed # 0
    BY <1>3, <2>2, BackspaceStep, EraseRefines, Zenon DEF Editor!Next
  <2> QED  BY <2>1, <2>2, Zenon
<1>4. CASE \E c \in Char : Type(c)
  BY <1>4, TypeRefines, Zenon DEF Editor!Next
<1>5. CASE r # w /\ r' = (r + 1) % UINT /\ UNCHANGED <<buf, w, e>>
  BY <1>5, TakeRefines, Zenon DEF Editor!Next
<1>6. CASE UNCHANGED cons
  BY <1>6, Zenon DEF cons, ReadyText, EditText, Minus, At
<1> QED  BY <1>2, <1>3, <1>4, <1>5, <1>6, Cases, Zenon

(* consoleintr() and consoleread(), with three indices that wrap and with  *)
(* any number of readers, implement the line editor: what is typed can be  *)
(* changed until the line is finished or the ring full, and is then read   *)
(* in order, each character once.                                          *)
THEOREM RingIsLineEditor == ASSUME ConsoleAssumption PROVE Spec => LineEditor
<1>1. Init => Editor!Init
  <2> SUFFICES ASSUME Init PROVE Editor!Init
    BY Zenon
  <2>1. Laid /\ Finished = 0 /\ Typed = 0
    BY InitInv, Texts, Zenon
  <2>2. ReadyText = << >> /\ EditText = << >>
    BY <2>1, SeqFacts, Zenon DEF Laid
  <2> QED  BY <2>2, Zenon DEF Editor!Init, ReadyText, EditText
<1>2. IInv /\ [Next]_vars => [Editor!Next]_<<ReadyText, EditText>>
  BY StepRefines, Zenon
<1> QED  BY <1>1, <1>2, ConsoleInvariant, PTL DEF Spec, LineEditor, Editor!Spec, ReadyText, EditText
=============================================================================
