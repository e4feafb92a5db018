SPECIFICATION Spec
CONSTANTS
  PageSize = 2
  MemAlign = 4
  MemTop = 12
  U16 = 5
  U64 = 32
  Files <- SmallFiles
INVARIANT OutsideUntouched
INVARIANT ImageCorrect
INVARIANT EntryCorrect
INVARIANT HeldIfLoaded
\* load_elf returns.
CHECK_DEADLOCK FALSE
