\* A SIGUSR1 that arrives while the host thread is between reading received_sigusr1 and writing it back, or during the reset, is forgotten.
CONSTANTS
  c1 = c1
  c2 = c2
  w1 = w1
  w2 = w2
  NoOne = NoOne
  Clients = {c1, c2}
  Workers = {w1}
  S = 2
  FdNums <- MCFds2
  ClientScripts <- MCScripts
  MaxSignals = 1
SPECIFICATION Spec
INVARIANT SignalNotLost
\* The server waits on its FIFO for ever once the clients have ended.
CHECK_DEADLOCK FALSE
