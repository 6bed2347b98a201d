------------------------------ MODULE Console ------------------------------
(***************************************************************************)
(* Input from the console, kernel/console.c: consoleintr() edits a line in *)
(* the ring cons.buf and hands it to the processes in consoleread().       *)
(*                                                                         *)
(* cons.lock is held from acquire() to the sleep() or the return, one      *)
(* character per step; the interrupt handler is one critical section.      *)
(* kill() takes p->lock only and can come at any point.                    *)
(***************************************************************************)
EXTENDS Integers, Sequences

CONSTANTS
  Proc,       \* the processes that read the console
  Killable,   \* the processes kill() is called on
  Letter,     \* the characters without a meaning of their own
  MaxN,       \* bound: the longest read
  INPUT_BUF,
  UINT,       \* 2^32 in the code: cons.r, cons.w and cons.e are uint
  None        \* nobody

NL == "nl"
EOF == "^D"
Char == Letter \cup {NL, EOF}

(* What the constants have to be. *)
ConsoleAssumption ==
  /\ INPUT_BUF \in Nat \ {0} /\ MaxN \in Nat
  /\ UINT \in Nat /\ UINT > INPUT_BUF /\ UINT % INPUT_BUF = 0
  /\ None \notin Proc /\ Letter \cap {NL, EOF} = {}

VARIABLES
  buf, r, w, e,  \* cons
  lock,          \* who holds cons.lock
  killed,        \* p->killed
  pc,            \* where each process is
  n, target      \* the locals of consoleread()

cons == <<buf, r, w, e>>
locals == <<n, target>>
vars == <<cons, lock, killed, pc, locals>>

Init ==
  /\ buf \in [0..INPUT_BUF - 1 -> {EOF}]   \* zeroes; never read before written
  /\ r = 0 /\ w = 0 /\ e = 0
  /\ lock = None
  /\ killed = [p \in Proc |-> 0]
  /\ pc = [p \in Proc |-> "user"]
  /\ n = [p \in Proc |-> 0]
  /\ target = [p \in Proc |-> 0]

Goto(p, label) == pc' = [pc EXCEPT ![p] = label]

Minus(a, b) == (a - b + UINT) % UINT
At(k) == buf[k % INPUT_BUF]

WakeReaders == [p \in Proc |-> IF pc[p] = "asleep" THEN "acquire" ELSE pc[p]]
-----------------------------------------------------------------------------
(* consoleintr(): control-U, backspace, and everything else. *)
LineStart(k) == k = w \/ At(Minus(k, 1)) = NL

KillLine ==   \* back to the first place where a line starts
  /\ lock = None
  /\ \E d \in 0..Minus(e, w) :
       /\ e' = Minus(e, d) /\ LineStart(e')
       /\ \A j \in 0..d - 1 : ~LineStart(Minus(e, j))
  /\ UNCHANGED <<buf, r, w, lock, killed, pc, locals>>

BackspaceAny ==   \* forgets that a finished line is not edited
  /\ lock = None
  /\ e' = IF e # r THEN Minus(e, 1) ELSE e
  /\ UNCHANGED <<buf, r, w, lock, killed, pc, locals>>

Backspace ==
  /\ lock = None
  /\ e' = IF e # w THEN Minus(e, 1) ELSE e
  /\ UNCHANGED <<buf, r, w, lock, killed, pc, locals>>

(* When the line goes to the readers.  A bug: not when the ring is full. *)
LineDoneShort(c, end) == c \in {NL, EOF}
LineDone(c, end) == c \in {NL, EOF} \/ end = (r + INPUT_BUF) % UINT

HasRoom == Minus(e, r) < INPUT_BUF

Type(c) ==
  /\ lock = None /\ HasRoom
  /\ buf' = [buf EXCEPT ![e % INPUT_BUF] = c]
  /\ e' = (e + 1) % UINT
  /\ w' = IF LineDone(c, e') THEN e' ELSE w
  /\ pc' = IF LineDone(c, e') THEN WakeReaders ELSE pc
  /\ UNCHANGED <<r, lock, killed, locals>>
-----------------------------------------------------------------------------
(* consoleread().  usertrap() lets no killed process make a call. *)
Read(p, k) ==
  /\ pc[p] = "user" /\ killed[p] = 0
  /\ n' = [n EXCEPT ![p] = k]
  /\ target' = [target EXCEPT ![p] = k]
  /\ Goto(p, "acquire")
  /\ UNCHANGED <<cons, lock, killed>>

Acquire(p) ==
  /\ pc[p] = "acquire" /\ lock = None
  /\ lock' = p
  /\ Goto(p, "loop")
  /\ UNCHANGED <<cons, killed, locals>>

Return(p) ==
  /\ lock' = None
  /\ Goto(p, "user")
  /\ n' = [n EXCEPT ![p] = 0]
  /\ target' = [target EXCEPT ![p] = 0]

(* No input: give up if killed, else go to sleep. *)
NoInput(p) ==
  /\ pc[p] = "loop" /\ n[p] > 0 /\ r = w
  /\ IF killed[p] = 1 THEN Return(p)
                      ELSE Goto(p, "sleep") /\ UNCHANGED <<lock, locals>>
  /\ UNCHANGED <<cons, killed>>

(* sleep(&cons.r, &cons.lock) *)
Sleep(p) ==
  /\ pc[p] = "sleep"
  /\ lock' = None
  /\ Goto(p, "asleep")
  /\ UNCHANGED <<cons, killed, locals>>

(* The end-of-file character ends the read; it stays for the next one if   *)
(* this one has something to return.                                       *)
EndOfFile(p) ==
  /\ pc[p] = "loop" /\ n[p] > 0 /\ r # w /\ At(r) = EOF
  /\ r' = IF n[p] < target[p] THEN r ELSE (r + 1) % UINT
  /\ Return(p)
  /\ UNCHANGED <<buf, w, e, killed>>

(* One character to the user, or, if that fails, to nobody. *)
Copy(p) ==
  /\ pc[p] = "loop" /\ n[p] > 0 /\ r # w /\ At(r) # EOF
  /\ r' = (r + 1) % UINT
  /\ \/ Return(p)
     \/ /\ At(r) # NL
        /\ n' = [n EXCEPT ![p] = @ - 1]
        /\ UNCHANGED <<lock, pc, target>>
  /\ UNCHANGED <<buf, w, e, killed>>

Done(p) ==
  /\ pc[p] = "loop" /\ n[p] = 0
  /\ Return(p)
  /\ UNCHANGED <<cons, killed>>

(* kill(): sets p->killed and wakes the process if it is asleep. *)
Kill(p) ==
  /\ p \in Killable /\ killed[p] = 0
  /\ killed' = [killed EXCEPT ![p] = 1]
  /\ Goto(p, IF pc[p] = "asleep" THEN "acquire" ELSE pc[p])
  /\ UNCHANGED <<cons, lock, locals>>

Next == \/ KillLine \/ Backspace \/ \E c \in Char : Type(c)
        \/ \E p \in Proc : \/ \E k \in 0..MaxN : Read(p, k)
                           \/ Acquire(p) \/ NoInput(p) \/ Sleep(p) \/ EndOfFile(p)
                           \/ Copy(p) \/ Done(p) \/ Kill(p)

Spec == Init /\ [][Next]_vars
-----------------------------------------------------------------------------
(* The ring, with its three wrapping indices, implements the line editor. *)
Editor == INSTANCE Tty WITH
  Size  <- INPUT_BUF,
  ready <- [k \in 1..Minus(w, r) |-> At(r + k - 1)],
  edit  <- [k \in 1..Minus(e, w) |-> At(w + k - 1)]
LineEditor == Editor!Spec

(* The console does not wedge: when there is no room for another character *)
(* there is something to read.                                             *)
NeverWedged == ~HasRoom => r # w
=============================================================================
