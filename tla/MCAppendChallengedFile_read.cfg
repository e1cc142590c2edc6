\* Reads clipped at call time against a logical size a queued truncate later shrinks.
CONSTANTS
  OpSpecs <- MCOpSpecs
  InitSizes <- MCInitSizes
  SloppyHint <- MCSloppyHint
  SloppyModes <- MCSloppyModes
  MaxSizeChangingOps <- MCMaxSizeChangingOps
  MaxOps <- MCMaxOps
  SyscallsMayFail = FALSE
SPECIFICATION Spec
\* The file is closed at the end of every behaviour.
CHECK_DEADLOCK FALSE
INVARIANTS
  ReadsWithinLogicalSize
