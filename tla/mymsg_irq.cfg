CONSTANTS
  Readers = {p1}
  MYLOG_BUF_LEN = 4
  Counts = {1, 2}
  MaxWritten = 6
  IrqCallers = TRUE
SPECIFICATION Spec
PROPERTY DropsAtMostOne
