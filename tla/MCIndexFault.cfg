SPECIFICATION FaultySpec
CONSTANTS
  Block <- MCBlock
  Genesis = 0
  Parent <- MCParent
  Anc <- MCAnc
  Height <- MCHeight
  MAX_BLOCKFILE_SIZE = 3
  BLOCKFILE_CHUNK_SIZE = 2
  UNDOFILE_CHUNK_SIZE = 2
  MIN_BLOCKS_TO_KEEP = 3
  PruneAfterHeight = 3
  CheckBlocks = 1
  LastFile = 3
  MaxAhead = 1
  MaxFaults = 0
INVARIANT StoredTipIndexed
