SPECIFICATION FairSystem
CONSTANTS
  Ops = {o1, o2, o3, o4, o5}
  Nullptr = Nullptr
  Free = Free
  RearmSees = TRUE
  SqSize = 3
  CqSize = 3
  Scripts <- AllScripts
  Keys = {k1, k2}
  Sizes = {2}
  Nil = Nil
  ImageSize = 2
  Timeout = 1
  Slowest = 0
  Unset = Unset
  UnsetFails = FALSE
  CallsFail = FALSE
  Faulty = FALSE
INVARIANTS DescriptorCurrent CrashesOnlyReopening
PROPERTY ReachesEnd
