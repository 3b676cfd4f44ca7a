SPECIFICATION Spec
CONSTANTS
  RootFile = root
  Files = {root, f1, f2}
  Names = {a, b}
  Nil = Nil
  MaxId = 3
  MaxHandle = 1
  Ops <- AllOps
  Platform = "other"
  AttrSets <- SizeOnly
  MaxFds = 4
  MaxRefs = 2
  MaxHostOps = 2
SYMMETRY Symmetry
CHECK_DEADLOCK FALSE
INVARIANTS TypeOK LookupsPositive TablesAgree KeyIsFd OneInodePerFile
PROPERTY IdNamesOneFile
