SPECIFICATION Spec
CONSTANTS
  Proc = {1, 2, 3, 4, 5, 6}
  NFILE = 6
  NOFILE = 7
  PIPESIZE = 1
  NPIPE = 2
  Commands <- MCCommands
  BadLines <- MCBadLines
  NLines = 1
  MAXARGS = 3
CHECK_DEADLOCK FALSE
INVARIANTS FilesExact PipeEndsExact NoStrayEnds RunsWhatIsTyped
PROPERTIES AllEnd
