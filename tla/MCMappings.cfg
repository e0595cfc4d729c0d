\* Two connections with a replica each, which they open with one of two sizes.
SPECIFICATION MappingsSpec
CONSTANTS
  m1 = m1
  m2 = m2
  p1 = p1
  p2 = p2
  Managers = {m1, m2}
  Paths = {p1, p2}
  Sizes = {1, 2}
  PathsOf <- OwnPaths
  Nil = Nil
  Top = 4
PROPERTY UnmapsWhatItMapped
