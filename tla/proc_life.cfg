SPECIFICATION Spec
CONSTANTS
  NPROC = 3
  CPU = {c1, c2, c3}
  KillArgs = {2, 3}
  Sleepers = {2, 3}
  Failures = {"uvmcopy", "trapframe"}
  Flags = {0, 1}
  PreemptAt = {"user", "exit_wakeinit", "exit_copy", "exit_lockparent", "wait_enter", "ticks_test"}
  MaxPid = 3
  ticks = ticks
  None = None
SYMMETRY Symmetry
CHECK_DEADLOCK FALSE
INVARIANTS ZombieOffCpu NoMissedExit WaitDepth ParentStable NoDeadlock
