CONSTANTS
  Files <- MCFiles
  Events <- MCEvents
  LEN = 13
  Piece = 3
  JIFFIES = 8
  Digits <- MCDigits
SPECIFICATION FairSpec
INVARIANT PlaysBuffer
PROPERTY NeverEarly
PROPERTY ReplayEnds
CHECK_DEADLOCK FALSE
