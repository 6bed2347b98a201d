SPECIFICATION Spec
CONSTANTS
  Proc = {1, 2, 3}
  Sizes = {8, 14, 17, 20}
  PGSIZE = 2
  LEVELS = 3
  FANOUT = 3
  UINT = 64
  Incs <- MCIncs
  Programs <- MCPrograms
  MaxCalls = 4
INVARIANTS PagesOwnedOnce ImageExact NoPanic
PROPERTIES FailureUndone
