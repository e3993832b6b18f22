\* A ring of one slot: a SIGUSR1 interrupts sem_wait(&empty) and the host thread overwrites the unconsumed slot.
CONSTANTS
  c1 = c1
  c2 = c2
  w1 = w1
  w2 = w2
  NoOne = NoOne
  Clients = {c1, c2}
  Workers = {w1}
  S = 1
  FdNums <- MCFds2
  ClientScripts <- MCScripts
  MaxSignals = 1
SPECIFICATION Spec
INVARIANT AdmissionExact
\* The server waits on its FIFO for ever once the clients have ended.
CHECK_DEADLOCK FALSE
