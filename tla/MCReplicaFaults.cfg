SPECIFICATION SystemSpec
CONSTANTS
  Ops = {o1, o2, o3, o4, o5}
  Nullptr = Nullptr
  Free = Free
  RearmSees = FALSE
  SqSize = 3
  CqSize = 3
  Scripts <- OnceScripts
  Keys = {k1, k2}
  Sizes = {2}
  Nil = Nil
  ImageSize = 2
  Timeout = 1
  Slowest = 1
  Unset = Unset
  UnsetFails = TRUE
  CallsFail = FALSE
  Faulty = TRUE
SYMMETRY SymmetricOps
INVARIANTS ServerKeepsPromise DescriptorCurrent CrashesOnlyUnanswered
 
