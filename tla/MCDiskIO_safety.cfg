\* Safety of the file's op queue and termination of close(), with every
\* syscall allowed to fail; admission, semaphore accounting and submission
\* of the aio path, and every pending iocb reaching the kernel; epoll
\* interest mirrored in the kernel and every ready fd's future resolving;
\* _pollers holding only live pollfns and every deferred (de)registration
\* taking effect.
CONSTANTS
  OpSpecs <- MCOpSpecs
  InitSizes <- MCInitSizes
  SloppyHint <- MCSloppyHint
  SloppyModes <- MCSloppyModes
  MaxSizeChangingOps <- MCMaxSizeChangingOps
  MaxOps <- MCMaxOps
  SyscallsMayFail = TRUE
  c1 = c1
  c2 = c2
  Classes <- MCClasses
  Shares <- MCShares
  CostScale <- MCCostScale
  Weights <- MCWeights
  BadFds = {FALSE, TRUE}
  MaxAio <- MCMaxAio
  Capacity <- MCCapacity
  MaxReqs <- MCMaxReqs
  MaxEagain <- MCMaxEagain
  d1 = d1
  d2 = d2
  r1 = r1
  r2 = r2
  r3 = r3
  g1 = g1
  g2 = g2
  NoPoller = NoPoller
  Fds <- MCFds
  Pollers <- MCPollers
  Fns <- MCFns
SPECIFICATION DiskSpec
\* Every behaviour ends once the file is closed, the callers stop issuing
\* requests, the fds are forgotten or every poller object is used.
CHECK_DEADLOCK FALSE
INVARIANTS
  DiskTypeOK
  SizeChangesRunAlone
  SizesConsistent
  RequestsAccounted
  UnitsConserved
  InterestMirrored
  PollersValid
PROPERTIES
  CloseCompletes
  PendingSubmitted
  ReadinessDelivered
  DeferredUpdatesApplied
