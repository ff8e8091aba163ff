CONSTANTS
  Procs = {p1}
  Files = {f1}
  NKeys = 1
  MaxEdges = 2
  Sharing = FALSE
  None = None
SPECIFICATION Spec
SYMMETRY Symmetry
PROPERTY EveryReadHasEvent
