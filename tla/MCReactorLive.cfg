\* One connection at a time (its address and descriptors are reused), competing
\* with the acceptor and with its own completions for the event loop.
CONSTANTS
  Handlers = {h1}
  Fds = {f1, f2, f3}
  Acceptor = Acceptor
  Nil = Nil
  Backlog = 1
  CmBound = 2
SPECIFICATION FairSpec
PROPERTIES ClosedIsReleased
