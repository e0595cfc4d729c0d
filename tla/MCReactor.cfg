\* Two connections at a time; every descriptor number is needed when both are
\* up, so numbers of closed descriptors are reused in a different role.
CONSTANTS
  Handlers = {h1, h2}
  Fds = {f1, f2, f3, f4, f5}
  Acceptor = Acceptor
  Nil = Nil
  Backlog = 1
  CmBound = 2
SPECIFICATION Spec
SYMMETRY Symmetry
INVARIANTS TypeOK NoStaleDispatch EpollMatchesTable RegistrationsExact DescriptorsExact
