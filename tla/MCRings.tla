------------------------------ MODULE MCRings ------------------------------
(***************************************************************************)
(* Instances for TLC of the three rings of characters: Pipe, Console (the  *)
(* input of the terminal) and Uart (its output).  They share no state, so  *)
(* each is explored by itself while the others stay as they start; ring    *)
(* says which one it is.                                                   *)
(***************************************************************************)
EXTENDS Pipe, TLC

CONSTANTS
  w1, r1, b1,                             \* the processes of the pipe
  c1, c2,                                 \* the readers of the console
  Letter, INPUT_BUF, CUINT, MaxRead,
  u1, u2,                                 \* the writers to the console
  UART_TX_BUF_SIZE, MaxTyped, MaxWrite

(* A writer, a reader and a process that has kept both descriptors, as the *)
(* shell does between pipe() and its two forks.                            *)
Three == w1 :> {"w"} @@ r1 :> {"r"} @@ b1 :> {"r", "w"}

VARIABLES
  ring,
  cbuf, cr, cw, ce, clock, ckilled, cpc, cn, ctarget,
  ubuf, uw, ur, txlock, conslock, fifo, out, irq, rx, typed, echo, upc, un, ui

In == INSTANCE Console WITH
  Proc <- {c1, c2}, Killable <- {c1}, MaxN <- MaxRead, UINT <- CUINT,
  buf <- cbuf, r <- cr, w <- cw, e <- ce, lock <- clock, killed <- ckilled, pc <- cpc,
  n <- cn, target <- ctarget

Out == INSTANCE Uart WITH
  Proc <- {u1, u2}, MaxN <- MaxWrite, buf <- ubuf, w <- uw, r <- ur, pc <- upc, n <- un, i <- ui

ASSUME InAssumption == In!ConsoleAssumption
ASSUME OutAssumption == Out!UartAssumption

cvars == <<cbuf, cr, cw, ce, clock, ckilled, cpc, cn, ctarget>>
uvars == <<ubuf, uw, ur, txlock, conslock, fifo, out, irq, rx, typed, echo, upc, un, ui>>
all == <<ring, vars, cvars, uvars>>

RInit ==
  /\ ring \in {"pipe", "in", "out"}
  /\ Init /\ In!Init /\ Out!Init
  /\ data = [k \in 0 .. PIPESIZE - 1 |-> 0]   \* what kalloc() leaves there
  /\ ch = [p \in Proc |-> 0]
  /\ ring # "out" => un = [p \in {u1, u2} |-> 0]

RNext ==
  \/ ring = "pipe" /\ Next /\ UNCHANGED <<ring, cvars, uvars>>
  \/ ring = "in" /\ In!Next /\ UNCHANGED <<ring, vars, uvars>>
  \/ ring = "out" /\ Out!Next /\ UNCHANGED <<ring, vars, cvars>>
  \/ ring \in {"pipe", "out"} /\ UNCHANGED all   \* these two may come to an end

RSpec == RInit /\ [][RNext]_all
-----------------------------------------------------------------------------
(* consoleintr() and consoleread() implement a line editor with a ring of  *)
(* INPUT_BUF characters whose three indices wrap.                          *)
LineEditor == In!LineEditor

(* The console does not wedge: when consoleintr() has no room for another  *)
(* character, consoleread() has something to read.                         *)
NeverWedged == In!NeverWedged

(* The characters of one consolewrite() are all on their way to the port,  *)
(* once and in order, without those of another one between them.           *)
Unmixed == Out!Unmixed
=============================================================================
