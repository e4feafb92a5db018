SPECIFICATION TextSpec
CONSTANTS
  LoadOptions <- ShortOptions
  COMMAND_LINE_SIZE = 6
  Lines <- SmallLines
  IntLists <- SmallIntLists
  NumberOfText <- SmallNumbers
  ArraySizes = {0, 1, 2, 3, 5, 9}
  Formats <- SmallFormats
  BufferSizes = {0, 1, 4, 7}
  Atoi <- SmallNumbers
  Bits <- ScaledBits
  WidthBits = 6
  PrecisionBits = 4
INVARIANT FitsKernelBuffer
INVARIANT LengthMeasured
INVARIANT OptionsParsed
INVARIANT ListParsed
INVARIANT PrintedAsAsked
\* The line, the list and the format end.
CHECK_DEADLOCK FALSE
