SPECIFICATION FairWalkSpec
CONSTANTS
  a = a
  b = b
  c = c
  Threads = {a, b}
  Head = Head
  NoNode = NoNode
PROPERTIES TickReturns
