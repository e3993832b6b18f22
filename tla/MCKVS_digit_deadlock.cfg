CONSTANTS
  Threads = {t1, t2}
  Sessions = {}
  NoOne = NoOne
  v1 = v1
  v2 = v2
  Keys <- DigitKeys
  Values <- TwoValues
  JobDirs <- DigitDirs
  ClientScripts <- NoClients
  MAX_PROC = 1
  MAX_NUMBER_SUB = 2
  MaxResets = 0
  PIPE_CAP = 2
SPECIFICATION Spec
PROPERTY JobsComplete
CHECK_DEADLOCK FALSE
