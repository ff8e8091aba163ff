CONSTANTS
  Procs = {p1, p2}
  Files = {f1, f2}
  NKeys = 1
  MaxEdges = 2
  Sharing = FALSE
  None = None
SPECIFICATION Spec
SYMMETRY Symmetry
INVARIANT AtMostOneUser
PROPERTY FreshReads
