\* process() futures that are ready or resolve later: the queue refines the
\* abstract channel, keeps _current_queue_length exact and completes every item.
CONSTANTS
  MaxItems <- MCMaxItems
  BatchSize <- MCBatchSize
  QueueLength <- MCQueueLength
  ProcessModes = {"ready", "deferred"}
SPECIFICATION Spec
INVARIANTS
  TypeOK
  QueueLengthAccounting
PROPERTIES
  ChannelRefined
  AllCompleted
