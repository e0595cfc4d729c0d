SPECIFICATION Spec
CONSTANTS
  MSG_SIZE = 46
  CacheIds = {1}
  CacheSizes = {1, 300}
  Strings <- MCStrings
  DescSizes = {0, 24}
  Fresh <- MCFresh
INVARIANTS TypeOK RoundTrip KindReadable NoStaleDescriptor PairReadable
CHECK_DEADLOCK FALSE
