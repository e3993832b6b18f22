\* Run kvs: the two scenarios of MCKVS (notifications; snapshots and READs),
\* one SIGUSR1 reset at any point, and the sort over every small batch.
CONSTANTS
  Threads = {t1, t2}
  Sessions = {s1}
  NoOne = NoOne
  v1 = v1
  v2 = v2
  Keys <- TwoKeys
  Values <- TwoValues
  JobDirs <- ScenarioDirs
  ClientScripts <- ScenarioClients
  MAX_PROC = 1
  MAX_NUMBER_SUB = 1
  MaxResets = 1
  PIPE_CAP = 1
SPECIFICATION MCSpec
INVARIANT TypeOK
INVARIANT SubscriptionImpliesEntry
INVARIANT NotificationsInCommitOrder
INVARIANT SnapshotsAreBatchAtomic
INVARIANT NoNotificationToClosedPipe
INVARIANT ClientCapRespected
INVARIANT SortIsOrderedPermutation
INVARIANT SortedBucketsAscend
PROPERTY JobsComplete
PROPERTY ClientsFinish
PROPERTY AtomicBatches
