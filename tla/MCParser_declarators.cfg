CONSTANTS
  Ids = {a, b}
  Features = {"definition", "params", "pointer", "attribute", "init"}
  MaxDepth = 2
  MaxBrackets = 2
SYMMETRY IdSymmetry
SPECIFICATION Spec
INVARIANTS
  TypeOK
  FileScopeClean
PROPERTIES
  UsesFeedback
  ClassifiedAsC11
  FollowsProtocol
CHECK_DEADLOCK FALSE
