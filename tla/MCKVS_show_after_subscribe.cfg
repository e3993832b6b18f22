CONSTANTS
  Threads = {t1, t2}
  Sessions = {s1}
  NoOne = NoOne
  v1 = v1
  v2 = v2
  Keys <- TwoKeys
  Values <- TwoValues
  JobDirs <- ShowDirs
  ClientScripts <- OneSubscriber
  MAX_PROC = 1
  MAX_NUMBER_SUB = 2
  MaxResets = 0
  PIPE_CAP = 2
SPECIFICATION Spec
PROPERTY JobsComplete
CHECK_DEADLOCK FALSE
