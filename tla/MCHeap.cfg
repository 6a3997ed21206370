SPECIFICATION HeapSpec
CONSTANTS
  MemSize = 48
  Hdr = 6
  MinSize = 6
  Unit = 2
  Requests = {1, 7, 15, 30}
  Null = Null
INVARIANTS NoHoles StatsExact LfreeLowest
PROPERTIES IsAllocator
