SPECIFICATION Spec
CONSTANTS
  K64 = 2
  M2 = 4
  VirtmapBase = 8
  MaxDescs = 2
  MaxCalls = 2
  Maps <- MemoryMaps
INVARIANT LayoutAsPromised
INVARIANT MapsAgree
\* Both calls are made and nothing is left to do.
CHECK_DEADLOCK FALSE
