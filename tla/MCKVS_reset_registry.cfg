\* Run kvs_reset_registry: one job thread replaces the value of "a" while a
\* SIGUSR1 reset frees the registry; no client is connected.
CONSTANTS
  Threads = {t1}
  Sessions = {}
  NoOne = NoOne
  v1 = v1
  v2 = v2
  Keys <- TwoKeys
  Values <- TwoValues
  JobDirs <- GoneDirs
  ClientScripts <- NoClients
  MAX_PROC = 1
  MAX_NUMBER_SUB = 2
  MaxResets = 1
  PIPE_CAP = 2
SPECIFICATION Spec
INVARIANT SubsLockValid
