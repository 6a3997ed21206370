SPECIFICATION EditorSpec
CONSTANTS
  Size = 4
  Lines = 2
  Char = {"A", "x"}
  Names <- Commands
  Nul = Nul
INVARIANTS ShellTypeOK LostOnlyByDiscard
PROPERTIES IsEditor
CHECK_DEADLOCK FALSE
