SPECIFICATION SchedulerSpec
CONSTANTS
  a = a
  b = b
  c = c
  Threads = {a, b}
  Head = Head
  None = None
  InitTick <- OneTick
  SleepTicks <- Sleeps
  Ops = {"suspend", "resume"}
  MaxCalls = 2
PROPERTIES WakeKept
