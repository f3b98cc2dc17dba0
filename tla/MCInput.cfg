SPECIFICATION MCSpec
CONSTANTS
  Character <- Characters
  Calls <- MCCalls
  MaxSanitizeDepth = 3
  MaxTraversalPasses = 2
  MaxStringLength = 2
  MaxArrayLength = 2
  MaxObjectDepth = 2
  Bytes = {x, y}
  Newline = nl
  Limit = 2
  ChunkSize = 3
  MaxBytes = 7
INVARIANTS Inv NothingIsLost CleanedTextStaysClean EveryFaultIsReported
PROPERTIES ImplementsLineReader
CHECK_DEADLOCK FALSE
