SPECIFICATION StreamSpec
CONSTANTS
  Tools <- MCTools
  Chunks <- MCChunks
  NoId = "none"
  MaxBlocks = 4
CHECK_DEADLOCK FALSE
INVARIANT CompletedIsStreamed
INVARIANT OneVerdict
 
