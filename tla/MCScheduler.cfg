SPECIFICATION FairSpec
CONSTANTS
  a = a
  b = b
  c = c
  Threads = {a, b, c}
  Head = Head
  None = None
  InitTick <- TicksABC
  SleepTicks <- Sleeps
  Ops <- AllOps
  MaxCalls = 2
INVARIANTS TypeOK ListIntact CursorLinked RunningIsCurrent NeverStranded SleepNotShort
PROPERTIES RunsToCompletion ScheduleReturns ThreadsRun
