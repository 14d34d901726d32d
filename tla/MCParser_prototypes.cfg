CONSTANTS
  Ids = {a, b}
  Features = {"definition", "params", "abstract", "enum"}
  MaxDepth = 3
  MaxBrackets = 2
SYMMETRY IdSymmetry
SPECIFICATION Spec
PROPERTIES
  ClassifiedAsC11
  FollowsProtocol
CHECK_DEADLOCK FALSE
