SPECIFICATION Spec
CONSTANTS
  PageSize = 2
  TopPage = 8
  Sizes = {0, 1, 3, 4}
  Aligns = {1, 2, 4}
  Maxes = {9, 15}
  MaxBlocks = 2
INVARIANT Conserved
INVARIANT BlocksAsPromised
