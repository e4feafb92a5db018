SPECIFICATION TextSpec
CONSTANTS
  LoadOptions <- ShortOptions
  COMMAND_LINE_SIZE = 6
\* The converter alone.
  Lines = {}
  IntLists = {}
  NumberOfText <- SmallNumbers
  ArraySizes = {1}
  Formats = {}
  BufferSizes = {}
  Atoi <- SmallNumbers
  Bits <- ScaledBits
  WidthBits = 6
  PrecisionBits = 4
INVARIANT AsciiArrives
CHECK_DEADLOCK FALSE
