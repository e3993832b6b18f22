\* Two workers, two clients that disconnect, no signal: descriptor numbers are reused between close(resp_fd) and remove_active_client.
CONSTANTS
  c1 = c1
  c2 = c2
  w1 = w1
  w2 = w2
  NoOne = NoOne
  Clients = {c1, c2}
  Workers = {w1, w2}
  S = 2
  FdNums <- MCFds2
  ClientScripts <- MCDiscScripts
  MaxSignals = 0
SPECIFICATION Spec
INVARIANT NoCrossTalk
\* The server waits on its FIFO for ever once the clients have ended.
CHECK_DEADLOCK FALSE
