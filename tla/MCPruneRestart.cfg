SPECIFICATION Spec
CONSTANTS
  Block <- MCBlock
  Genesis = 0
  Parent <- MCParent
  Anc <- MCAnc
  Height <- MCHeight
  MAX_BLOCKFILE_SIZE = 3
  BLOCKFILE_CHUNK_SIZE = 2
  UNDOFILE_CHUNK_SIZE = 2
  MIN_BLOCKS_TO_KEEP = 2
  PruneAfterHeight = 2
  CheckBlocks = 4
  LastFile = 3
  MaxAhead = 1
  MaxFaults = 0
INVARIANT StartsAgain
