SPECIFICATION Spec
CONSTANTS
  Proc = {p1, p2, p3}
  Block = {x, y, z}
  Killable = {p1}
  Data = {0, 1}
  NUM = 8
  IDX = 16
  None = None
SYMMETRY Symmetry
CHECK_DEADLOCK FALSE
INVARIANTS DescOwned DeviceOwns
PROPERTIES TransferDone
