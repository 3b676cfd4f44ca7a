SPECIFICATION Spec
CONSTANTS
  RootFile = root
  Files = {root, f1, f2, f3}
  Names = {a, b}
  Nil = Nil
  MaxId = 4
  MaxHandle = 2
  Ops <- StaleTruncateOps
  Platform = "linux"
  AttrSets <- SizeOnly
  MaxFds = 20
  MaxRefs = 2
  MaxHostOps = 0
SYMMETRY Symmetry
CHECK_DEADLOCK FALSE
INVARIANT ActsOnItsInode
