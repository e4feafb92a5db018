SPECIFICATION UsersSpec
CONSTANTS
  Length <- NameLength
  EndsWith <- Endings
  Words = 16
  Trees <- SmallTrees
  BufSizes <- Sizes
  CmdLines <- SmallCmdLines
  Rounds = 2
  EditStarts <- Starts
  NodeNames = {"a", "bb"}
  PropNames = {"reg", "x-reg"}
  PropValues <- SmallValues
  Buffers <- SmallBuffers
  SwNodeNames = {"a"}
  SwPropNames = {"reg", "x-reg"}
  SwLens = {5}
  MaxTags = 3
  MaxReserves = 1
  Bases <- SmallBases
  OverlayPlans <- SmallPlans
INVARIANT BlobSound
INVARIANT KernelIsTold
PROPERTY TreeSpec
INVARIANT ReadersAgree
PROPERTY EditsKept
INVARIANT WriterSound
PROPERTY SwSpec
INVARIANT OverlayApplied
\* Each of them comes to its end.
CHECK_DEADLOCK FALSE
