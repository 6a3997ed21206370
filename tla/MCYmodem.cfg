SPECIFICATION YmodemSpec
CONSTANTS
  Blocks <- MCBlocks
  PageBlocks = 2
  MaxTries = 3
  MaxFaults = 3
INVARIANTS TypeOK WrittenInOrder SuccessIsWhole SenderNotFooled
PROPERTIES SessionEnds CleanSucceeds
CHECK_DEADLOCK FALSE
