SPECIFICATION Spec
CONSTANTS
  RootFile = root
  Files = {root}
  Names = {a, b, c}
  Nil = Nil
  MaxHandle = 2
  MaxFit = 2
  MaxChanges = 2
SYMMETRY Symmetry
CHECK_DEADLOCK FALSE
INVARIANTS ListedOnce ListedAll SnapshotsOwned
