CONSTANTS
  p1 = p1
  p2 = p2
  f1 = f1
  f2 = f2
  None = None
  Procs <- TwoProcs
  Files <- TwoFiles
  NbFrags = 2
  FragSize = 2
  Counts <- SomeCounts
  MaxWritten = 6
  MaxCaptured = 6
SPECIFICATION MCFairSpec
INVARIANTS FragmentExclusive OneFilePerStream PlaysInOrder CapturesInOrder SyncDrains PollPromise
PROPERTIES FreedOnlyByReset CallsEnd PollEnds
CHECK_DEADLOCK FALSE
