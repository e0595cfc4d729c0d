\* One size: only the order of completions and notifications matters.
CONSTANTS
  Ops = {o1, o2, o3, o4}
  Nullptr = Nullptr
  Free = Free
  RearmSees = FALSE
  SqSize = 1
  CqSize = 2
  Paths = {p1}
  Sizes = {1}
  Keys = {k1, k2}
  Nil = Nil
  Self = Self
SPECIFICATION FairSpec
PROPERTIES RequestHandled
