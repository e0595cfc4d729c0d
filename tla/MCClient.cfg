SPECIFICATION Spec
CONSTANTS
  Ops = {o1, o2, o3, o4, o5}
  Nullptr = Nullptr
  Free = Free
  RearmSees = FALSE
  SqSize = 3
  CqSize = 3
  Scripts <- AllScripts
  Keys = {k1}
  Sizes = {1, 2}
  Nil = Nil
  ImageSize = 2
  Timeout = 1
  Slowest = 0
  Unset = Unset
  UnsetFails = FALSE
  CallsFail = TRUE
SYMMETRY SymmetricOps
INVARIANTS TypeOK ContextsLive NoOpLost SourceOutlivesWrites
PROPERTY AnswerFreesFrame
