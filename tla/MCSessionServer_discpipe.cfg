\* One client that disconnects: the server closes the notification pipe before it writes the DISCONNECT answer.
CONSTANTS
  c1 = c1
  c2 = c2
  w1 = w1
  w2 = w2
  NoOne = NoOne
  Clients = {c1}
  Workers = {w1}
  S = 1
  FdNums <- MCFds1
  ClientScripts <- MCDiscScripts
  MaxSignals = 0
SPECIFICATION Spec
INVARIANT NoResponseToClosedPipe
\* The server waits on its FIFO for ever once the clients have ended.
CHECK_DEADLOCK FALSE
