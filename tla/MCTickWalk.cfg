SPECIFICATION WalkSpec
CONSTANTS
  a = a
  b = b
  c = c
  Threads = {a, b, c}
  Head = Head
  NoNode = NoNode
SYMMETRY Symmetry
INVARIANTS TypeOK WalkSeesAll RevisitOnlyInInsert
