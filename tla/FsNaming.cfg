SPECIFICATION Spec
CONSTANTS
  RootFile = root
  Files = {root, f1, f2, f3}
  Names = {a, b}
  Nil = Nil
  MaxId = 4
  MaxHandle = 1
  Ops <- NamingOps
  Platform = "linux"
  AttrSets <- AllAttrs
  MaxFds = 20
  MaxRefs = 2
  MaxHostOps = 0
SYMMETRY Symmetry
CHECK_DEADLOCK FALSE
INVARIANTS RefsMatch LocationCurrent ActsOnItsInode
