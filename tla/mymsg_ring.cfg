CONSTANTS
  Readers = {p1, p2}
  MYLOG_BUF_LEN = 3
  Counts = {0, 2}
  MaxWritten = 5
  IrqCallers = FALSE
SPECIFICATION FairSpec
INVARIANT CursorInWindow
INVARIANT SlotsHoldLog
PROPERTY IsLogStream
PROPERTY NoFalseEof
PROPERTY CharEndsRead
