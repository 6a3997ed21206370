SPECIFICATION BootSpec
CONSTANTS
  bootAt = bootAt
  boot = boot
  empty = empty
  printenv = printenv
  Cmd <- MCCmd
  Delay <- MCDelay
  DefaultDelay = 2
  DefaultCmd = bootAt
  FirstWord <- MCFirstWord
  Result <- MCResult
  Magic = Magic
  Erased = Erased
  Torn = Torn
  MaxResets = 2
INVARIANTS TypeOK WholeEnvironment SavedIsKept SavesWhatWasSet
PROPERTIES BootDecides
CHECK_DEADLOCK FALSE
