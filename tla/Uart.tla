------------------------------- MODULE Uart -------------------------------
(***************************************************************************)
(* Output to the console: consolewrite() of kernel/console.c and the two   *)
(* ways of kernel/uart.c to the serial port.  uartputc() goes through the  *)
(* ring uart_tx_buf, which uartstart() empties under uart_tx_lock from     *)
(* write() and from the interrupt; uartputc_sync(), for printf() and for   *)
(* the echo of input, goes straight to the port without that lock.         *)
(*                                                                         *)
(* The port has a FIFO (uartinit() enables it); LSR_TX_IDLE means that it  *)
(* is empty, and when it becomes empty the port interrupts.                *)
(***************************************************************************)
EXTENDS Integers, Sequences

CONSTANTS
  Proc,       \* the processes that write to the console, each one time
  MaxN,       \* bound: the longest write
  MaxTyped,   \* bound: characters typed
  UART_TX_BUF_SIZE,
  None        \* nobody

Intr == "intr"       \* uartintr()
Printer == "printf"  \* a kernel printf()
Echoes == {0, 1, 3}  \* what consoleintr() echoes: nothing, c, or "\b \b"

(* What the constants have to be. *)
UartAssumption ==
  /\ UART_TX_BUF_SIZE \in Nat /\ UART_TX_BUF_SIZE > 1
  /\ MaxN \in Nat /\ MaxTyped \in Nat
  /\ (Proc \cup {None}) \cap {Intr, Printer} = {} /\ None \notin Proc

VARIABLES
  buf, w, r,  \* uart_tx_buf, uart_tx_w, uart_tx_r
  txlock,     \* who holds uart_tx_lock
  conslock,   \* who holds cons.lock
  fifo,       \* the port's FIFO
  out,        \* what has come out of the port
  irq,        \* whether it asks for an interrupt
  rx,         \* the characters in its receiver
  typed,      \* how many have been typed
  echo,       \* what the handler has left to echo
  pc,         \* where the processes, the handler and the printer are
  n, i        \* the argument and the local of consolewrite()

ring == <<buf, w, r>>
input == <<rx, typed, echo>>
vars == <<ring, txlock, conslock, fifo, out, irq, input, pc, n, i>>

Init ==
  /\ buf = [k \in 0..UART_TX_BUF_SIZE - 1 |-> <<None, 0>>]
  /\ w = 0 /\ r = 0
  /\ txlock = None /\ conslock = None
  /\ fifo = << >> /\ out = << >>
  /\ irq = 0 /\ rx = 0 /\ typed = 0 /\ echo = 0
  /\ pc = [x \in Proc \cup {Intr, Printer} |-> IF x \in Proc THEN "user" ELSE "idle"]
  /\ n \in [Proc -> 0..MaxN]
  /\ i = [p \in Proc |-> 0]

Goto(x, label) == pc' = [pc EXCEPT ![x] = label]

Inc(k) == (k + 1) % UART_TX_BUF_SIZE
Panicked == \E p \in Proc : pc[p] = "panic"
Idle == fifo = << >>      \* LSR_TX_IDLE
-----------------------------------------------------------------------------
(* consolewrite() *)
WriteUnlocked(p) ==   \* does not take cons.lock
  /\ pc[p] = "user"
  /\ Goto(p, "put")
  /\ UNCHANGED <<ring, txlock, conslock, fifo, out, irq, input, n, i>>

Write(p) ==
  /\ pc[p] = "user" /\ conslock = None
  /\ conslock' = p
  /\ Goto(p, "put")
  /\ UNCHANGED <<ring, txlock, fifo, out, irq, input, n, i>>

(* All characters written, or the copy from user memory failed. *)
WriteEnd(p) ==
  /\ pc[p] = "put"
  /\ conslock' = None
  /\ Goto(p, "done")
  /\ UNCHANGED <<ring, txlock, fifo, out, irq, input, n, i>>

Full == Inc(w) = r

(* uartputc() with no room: sleep() with cons.lock held, so that sched()   *)
(* panics.                                                                 *)
PutFull(p) ==
  /\ pc[p] = "put" /\ i[p] < n[p] /\ txlock = None /\ ~Panicked
  /\ Full
  /\ Goto(p, "panic")
  /\ UNCHANGED <<ring, txlock, conslock, fifo, out, irq, input, n, i>>

Put(p) ==
  /\ pc[p] = "put" /\ i[p] < n[p] /\ txlock = None /\ ~Panicked
  /\ ~Full
  /\ txlock' = p
  /\ buf' = [buf EXCEPT ![w] = <<p, i[p] + 1>>]
  /\ w' = Inc(w)
  /\ i' = [i EXCEPT ![p] = @ + 1]
  /\ Goto(p, "start")
  /\ UNCHANGED <<r, conslock, fifo, out, irq, input, n>>
-----------------------------------------------------------------------------
(* uartintr(): input first, one character at a time, then output. *)
IntrEnter ==
  /\ pc[Intr] = "idle" /\ irq = 1
  /\ irq' = 0
  /\ Goto(Intr, "getc")
  /\ UNCHANGED <<ring, txlock, conslock, fifo, out, input, n, i>>

(* consoleintr() takes cons.lock; what it does with the character is in    *)
(* module Console.                                                         *)
IntrInput ==
  /\ pc[Intr] = "getc" /\ rx > 0 /\ conslock = None
  /\ rx' = rx - 1
  /\ conslock' = Intr
  /\ echo' \in Echoes
  /\ Goto(Intr, "consputc")
  /\ UNCHANGED <<ring, txlock, fifo, out, irq, typed, n, i>>

IntrInputEnd ==
  /\ pc[Intr] = "consputc" /\ echo = 0
  /\ conslock' = None
  /\ Goto(Intr, "getc")
  /\ UNCHANGED <<ring, txlock, fifo, out, irq, input, n, i>>

IntrNoInput ==
  /\ pc[Intr] = "getc" /\ rx = 0
  /\ Goto(Intr, "lock")
  /\ UNCHANGED <<ring, txlock, conslock, fifo, out, irq, input, n, i>>

IntrLock ==
  /\ pc[Intr] = "lock" /\ txlock = None
  /\ txlock' = Intr
  /\ Goto(Intr, "start")
  /\ UNCHANGED <<ring, conslock, fifo, out, irq, input, n, i>>

(* uartstart(), in the handler and in uartputc(): up to the register.      *)
Back(x) == IF x = Intr THEN "idle" ELSE "put"

Stop == w = r \/ ~Idle

StartEnd(x) ==
  /\ pc[x] = "start" /\ Stop
  /\ txlock' = None
  /\ Goto(x, Back(x))
  /\ UNCHANGED <<ring, conslock, fifo, out, irq, input, n, i>>

Start(x) ==
  /\ pc[x] = "start" /\ ~Stop
  /\ r' = Inc(r)
  /\ Goto(x, "write")
  /\ UNCHANGED <<buf, w, txlock, conslock, fifo, out, irq, input, n, i>>

(* WriteReg(THR, c) *)
Taken == buf[(r + UART_TX_BUF_SIZE - 1) % UART_TX_BUF_SIZE]

StartWrite(x) ==
  /\ pc[x] = "write"
  /\ fifo' = Append(fifo, Taken)
  /\ Goto(x, "start")
  /\ UNCHANGED <<ring, txlock, conslock, out, irq, input, n, i>>
-----------------------------------------------------------------------------
(* uartputc_sync(), for the echo and for printf(): spin, then write. *)
SyncTest(x) ==
  /\ \/ x = Intr /\ pc[x] = "consputc" /\ echo > 0
     \/ x = Printer /\ pc[x] = "idle"
  /\ Idle /\ ~Panicked
  /\ Goto(x, "sync")
  /\ UNCHANGED <<ring, txlock, conslock, fifo, out, irq, input, n, i>>

SyncWrite(x) ==
  /\ pc[x] = "sync"
  /\ fifo' = Append(fifo, <<x, 1>>)
  /\ echo' = IF x = Intr THEN echo - 1 ELSE echo
  /\ Goto(x, IF x = Intr THEN "consputc" ELSE "done")
  /\ UNCHANGED <<ring, txlock, conslock, out, irq, rx, typed, n, i>>

(* A character arrives: the port interrupts. *)
Receive ==
  /\ typed < MaxTyped
  /\ typed' = typed + 1
  /\ rx' = rx + 1
  /\ irq' = 1
  /\ UNCHANGED <<ring, txlock, conslock, fifo, out, echo, pc, n, i>>

(* The port sends a character. *)
Send ==
  /\ fifo # << >>
  /\ out' = Append(out, Head(fifo))
  /\ fifo' = Tail(fifo)
  /\ irq' = IF Len(fifo) = 1 THEN 1 ELSE irq
  /\ UNCHANGED <<ring, txlock, conslock, input, pc, n, i>>
-----------------------------------------------------------------------------
Starters == Proc \cup {Intr}
Call(p) == Write(p) \/ WriteEnd(p) \/ PutFull(p) \/ Put(p)
Uartstart(x) == StartEnd(x) \/ Start(x) \/ StartWrite(x)
Sync(x) == SyncTest(x) \/ SyncWrite(x)
Uartintr == IntrEnter \/ IntrInput \/ IntrInputEnd \/ IntrNoInput \/ IntrLock
Port == Send \/ Receive

Next == \/ \E p \in Proc : Call(p)
        \/ \E x \in Starters : Uartstart(x)
        \/ \E x \in {Intr, Printer} : Sync(x)
        \/ Uartintr \/ Port

Spec == Init /\ [][Next]_vars
-----------------------------------------------------------------------------
Count == (w - r + UART_TX_BUF_SIZE) % UART_TX_BUF_SIZE

(* Everything on its way out, from the first character sent to the last    *)
(* one in the ring; between the two, what uartstart() has taken from the   *)
(* ring and not yet written to the port.                                   *)
Flow ==
  out \o fifo
    \o (IF \E x \in Starters : pc[x] = "write" THEN <<Taken>> ELSE << >>)
    \o [k \in 1..Count |-> buf[(r + k - 1) % UART_TX_BUF_SIZE]]

(* The characters that consolewrite() has passed on are all there, once    *)
(* and in order, and those of one write() are not mixed with those of      *)
(* another, whatever printf() and the echo put between them.               *)
Unmixed ==
  LET flow == Flow
      Of(p) == {a \in DOMAIN flow : flow[a][1] = p}
  IN \A p \in Proc :
       /\ \A j \in 1..i[p] : \E a \in Of(p) : flow[a][2] = j
       /\ \A a \in Of(p) : flow[a][2] \in 1..i[p]
       /\ \A a, b \in Of(p) : a < b => flow[a][2] < flow[b][2]
       /\ \A q \in Proc \ {p} : \A a, c \in Of(p), b \in Of(q) : ~(a < b /\ b < c)

(* uartputc() "blocks if the output buffer is full". *)
NoPanic == ~Panicked
=============================================================================
