CONSTANTS
  Procs = {p1, p2}
  Files = {f1, f2}
  NKeys = 2
  MaxEdges = 2
  Sharing = TRUE
  None = None
SPECIFICATION FairSpec
INVARIANT AtMostOneOpen
INVARIANT OpenHasLines
INVARIANT IrqCallsMatch
INVARIANT Settled
INVARIANT ReadyMeansEvent
PROPERTY FreshReads
PROPERTY KeyEndsRead
