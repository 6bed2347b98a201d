SPECIFICATION Spec
CONSTANTS
  Proc = {p1, p2}
  Block = {w, x, y, z}
  Data = {0, 1}
  NBUF = 3
  MaxPins = 1
  None = None
SYMMETRY Symmetry
PROPERTIES Implements
