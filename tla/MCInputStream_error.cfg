\* A malformed request followed by a well-formed one, in three segments.
SPECIFICATION BadSpec
CHECK_DEADLOCK FALSE
INVARIANTS
  MessagesReceived
