SPECIFICATION Spec
CONSTANTS
  RootFile = root
  Files = {root, f1}
  Names = {a}
  Nil = Nil
  MaxId = 3
  MaxRefs = 2
  MaxMounts = 2
SYMMETRY Symmetry
CHECK_DEADLOCK FALSE
INVARIANTS TypeOK TablesAgree CountsCover
