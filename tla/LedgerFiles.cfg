SPECIFICATION FilesSpec
CONSTANTS
  Chunk = 2
  Batch = 2
  MaxLog = 4
  MaxCuts = 2
  MaxCrashes = 2
  TornTruncations = FALSE
  Interval = 2
  Threads = FALSE
  TornCommits = FALSE
  MaxForced = 1
  SnapshotLog = 5
  SnapshotCuts = 1
  SnapshotCrashes = 1
INVARIANTS ReadsMatchLog  CommittedFilesFinal  SnapshotEndsChunk NeverFails
CHECK_DEADLOCK FALSE
