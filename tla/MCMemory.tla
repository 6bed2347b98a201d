------------------------------ MODULE MCMemory ------------------------------
(* An instance of Memory for TLC. *)
EXTENDS Memory

MCIncs == {-3, -1, 1, 4}

Seg(vaddr, filesz, memsz) == [vaddr |-> vaddr, filesz |-> filesz, memsz |-> memsz]

(* A program that ends inside a page, with a second segment that lies      *)
(* below its end; one whose segment is not aligned; one that is no program. *)
MCPrograms ==
  { [args |-> 1, elf |-> TRUE, segs |-> <<Seg(0, 1, 3), Seg(2, 1, 1)>>],
    [args |-> 0, elf |-> TRUE, segs |-> <<Seg(1, 0, 2)>>],
    [args |-> 1, elf |-> FALSE, segs |-> << >>] }
=============================================================================
