\* Errors of batched flush rounds reach the caller.
CONSTANTS
  Size <- MCSize
  WriteSizes <- MCWriteSizes
  Modes <- MCModes
  BatchModes <- MCBatchModes
  TrimModes <- MCTrimModes
  MaxWrites <- MCMaxWrites
  MaxErrors <- MCMaxErrors
SPECIFICATION Spec
\* The stream is closed at the end of every behaviour.
CHECK_DEADLOCK FALSE
INVARIANTS
  NoErrorLost
