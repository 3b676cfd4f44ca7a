SPECIFICATION Spec
CONSTANTS
  RootFile = root
  Files = {root, f1}
  Names = {a}
  Nil = Nil
  MaxId = 2
  MaxHandle = 1
  Ops = {"create"}
  Platform = "linux"
  AttrSets <- SizeOnly
  MaxFds = 2
  MaxRefs = 2
  MaxHostOps = 0
SYMMETRY Symmetry
CHECK_DEADLOCK FALSE
INVARIANT FdsOwned
