CONSTANTS
  Procs = {p1, p2}
  Files = {f1, f2}
  NKeys = 2
  MaxEdges = 0
  Sharing = FALSE
  None = None
SPECIFICATION Spec
SYMMETRY Symmetry
INVARIANT AtMostOneOpen
