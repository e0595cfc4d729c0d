\* Two connections, two files, two sizes: a file may have the size asked for or
\* another one, and both connections may name p1.
CONSTANTS
  m1 = m1
  m2 = m2
  p1 = p1
  p2 = p2
  Managers = {m1, m2}
  Paths = {p1, p2}
  Sizes = {1, 2}
  PathsOf <- SharedPaths
  Nil = Nil
SPECIFICATION Spec
INVARIANTS TypeOK MappedAsAsked MappedHasFile
PROPERTIES NeverResized RemovedByClose
