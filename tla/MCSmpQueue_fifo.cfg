\* process() may return a future resolved later: is completion order FIFO?
CONSTANTS
  MaxItems <- MCMaxItems
  BatchSize <- MCBatchSize
  QueueLength <- MCQueueLength
  ProcessModes = {"ready", "deferred"}
SPECIFICATION Spec
INVARIANT ResponsesInOrder
