CONSTANTS
  Fds <- MCFds
  Workers = {w1, w2}
  Size = 2
  NoFd = NoFd
SPECIFICATION WorkerSpec
INVARIANTS TypeOK NoLostWakeup
PROPERTIES ServedInOrder EveryoneServed
