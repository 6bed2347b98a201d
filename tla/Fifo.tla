------------------------------- MODULE Fifo -------------------------------
(***************************************************************************)
(* What a pipe of kernel/pipe.c promises its users: the bytes come out in  *)
(* the order they went in, each once, at most Size of them are in between, *)
(* and a reader learns that there are no more only when the pipe is empty  *)
(* and nobody can write any more.                                          *)
(***************************************************************************)
EXTENDS Naturals, Sequences

CONSTANTS Proc, Byte, Size

VARIABLES queue,    \* the bytes written and not yet read
          open,     \* the ends that are open, a subset of {"r", "w"}
          ch,       \* the last byte each process took
          eof       \* the processes that have been told end of file

vars == <<queue, open, ch, eof>>

Init == /\ queue = << >>
        /\ open = {"r", "w"}
        /\ ch \in [Proc -> Byte]
        /\ eof = {}

Put(b) == /\ "w" \in open
          /\ Len(queue) < Size
          /\ queue' = Append(queue, b)
          /\ UNCHANGED <<open, ch, eof>>

Get(p) == /\ "r" \in open
          /\ queue # << >>
          /\ queue' = Tail(queue)
          /\ ch' = [ch EXCEPT ![p] = Head(queue)]
          /\ UNCHANGED <<open, eof>>

EndOfFile(p) == /\ queue = << >> /\ "w" \notin open
                /\ eof' = eof \cup {p}
                /\ UNCHANGED <<queue, open, ch>>

Close(e) == /\ e \in open
            /\ open' = open \ {e}
            /\ UNCHANGED <<queue, ch, eof>>

Next == \/ \E b \in Byte : Put(b)
        \/ \E p \in Proc : Get(p) \/ EndOfFile(p)
        \/ \E e \in open : Close(e)

Spec == Init /\ [][Next]_vars
============================================================================
