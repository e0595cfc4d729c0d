\* Two sizes, so that the memory that is there may not be the one asked for.
CONSTANTS
  Ops = {o1, o2, o3, o4}
  Nullptr = Nullptr
  Free = Free
  RearmSees = TRUE
  SqSize = 1
  CqSize = 2
  Paths = {p1}
  Sizes = {1, 2}
  Keys = {k1, k2}
  Nil = Nil
  Self = Self
SPECIFICATION FairSpec
INVARIANTS RegisteredIsAllocated PromisedIsMapped
PROPERTIES RequestHandled UsesMemoryManager
