\* One worker, a ring of 2 slots, two clients and one SIGUSR1.
CONSTANTS
  c1 = c1
  c2 = c2
  w1 = w1
  w2 = w2
  NoOne = NoOne
  Clients = {c1, c2}
  Workers = {w1}
  S = 2
  FdNums <- MCFds2
  ClientScripts <- MCScripts
  MaxSignals = 1
SPECIFICATION Spec
INVARIANTS TypeOK AdmissionExact
PROPERTIES AllClientsFinish
\* The host thread blocks on the server FIFO for ever once every client has
\* ended: the server process never stops by itself.
CHECK_DEADLOCK FALSE
