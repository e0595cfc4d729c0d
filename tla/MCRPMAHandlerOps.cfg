\* A send queue of two (the two replies of close() fill it), so many ops that
\* one is always free, two keys so that a re-registration has another one.
CONSTANTS
  Ops = {o1, o2, o3, o4, o5}
  Nullptr = Nullptr
  Free = Free
  RearmSees = FALSE
  SqSize = 2
  CqSize = 2
  Paths = {p1}
  Sizes = {1}
  Keys = {k1, k2}
  Nil = Nil
  Self = Self
SPECIFICATION Spec
SYMMETRY Symmetry
INVARIANTS TypeOK TableIsHeap ContextsLive NoOpForgotten RequestStable NeverDeaf
PROPERTY ImplementsServer
