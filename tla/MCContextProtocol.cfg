CONSTANTS
  Ids = {a, b}
  MaxDepth = 4
SYMMETRY IdSymmetry
SPECIFICATION Spec
INVARIANTS
  TypeOK
  OneSnapshotPerScope
  CurrentIsVisible
  SnapshotsAreVisible
  ParamsFitFileScope
