SPECIFICATION ForkSpec
CONSTANTS
  Conns = {c1, c2, c3}
  NoFd = NoFd
INVARIANTS CopiesAreClosed
PROPERTIES ZombiesAreReaped ServerEnds
