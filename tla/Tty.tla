-------------------------------- MODULE Tty --------------------------------
(***************************************************************************)
(* What the console of kernel/console.c promises a reader: characters are  *)
(* edited until the line is finished, or the buffer full; after that they  *)
(* can only be read, in order, each once.                                  *)
(***************************************************************************)
EXTENDS Naturals, Sequences
CONSTANTS Char, NL, EOF, Size
VARIABLES ready,    \* the characters that can be read
          edit      \* the line that is being typed

Init == ready = << >> /\ edit = << >>

Type(c) ==
  /\ Len(ready) + Len(edit) < Size
  /\ IF c \in {NL, EOF} \/ Len(ready) + Len(edit) + 1 = Size
     THEN ready' = ready \o Append(edit, c) /\ edit' = << >>
     ELSE edit' = Append(edit, c) /\ UNCHANGED ready

(* Backspace takes one character off the line, control-U all of them. *)
Erase == \E k \in 0..Len(edit) : edit' = SubSeq(edit, 1, k) /\ k \in {0, Len(edit) - 1}
                                 /\ UNCHANGED ready

Take == /\ ready # << >>
        /\ ready' = Tail(ready)
        /\ UNCHANGED edit

Next == (\E c \in Char : Type(c)) \/ Erase \/ Take

Spec == Init /\ [][Next]_<<ready, edit>>
=============================================================================
