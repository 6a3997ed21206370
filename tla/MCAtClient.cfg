SPECIFICATION AtFairSpec
CONSTANTS
  a = a
  b = b
  None = None
  Callers = {a, b}
  LineNum <- OkOrOne
  BufSize <- Sizes
  Timeout = 1
  Data <- Answered
  Length <- Lengths
  MaxCmds = 1
  MaxNoise = 1
  MaxCli = 1
INVARIANTS TypeOK RespIsWaited AnswerIsOwn
CHECK_DEADLOCK FALSE
PROPERTIES LockReleased
