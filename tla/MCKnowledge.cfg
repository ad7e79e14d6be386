SPECIFICATION Spec
CONSTANTS
    short = short
    long = long
    MaxDocuments = 2
    Files = {short, long}
    Chunks <- MCChunks
    BatchSize = 1
    Calls = {1, 2}
    MaxCalls = 4
    MaxRestarts = 1
INVARIANTS
  StoresAgree
  FailureLeavesNothing
PROPERTIES
  DocumentsAreKept
  IngestionEnds
CHECK_DEADLOCK FALSE
