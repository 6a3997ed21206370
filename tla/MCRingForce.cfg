SPECIFICATION IsrSpec
CONSTANTS
  Size = 4
  Byte = {x, y}
  MaxBlock = 5
  KeepsUp = TRUE
  NoWord = NoWord
INVARIANTS ForceKeepsNewest
