SPECIFICATION Spec
CONSTANTS
  RootFile = root
  Files = {root, f1}
  Names = {a}
  Nil = Nil
  MaxId = 3
  MaxRefs = 3
  MaxMounts = 1
SYMMETRY Symmetry
CHECK_DEADLOCK FALSE
INVARIANT HeldIsTracked
