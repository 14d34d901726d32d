CONSTANTS
  Ids = {a, b}
  Features = {"definition", "params", "list", "init", "enum", "abstract", "attribute"}
  MaxDepth = 2
  MaxBrackets = 2
SYMMETRY IdSymmetry
SPECIFICATION Spec
PROPERTIES
  ClassifiedAsC11
  FollowsProtocol
CHECK_DEADLOCK FALSE
