CONSTANTS
  Ids = {a, b}
  Features = {"definition", "idlist", "block", "select", "iterate", "init", "list"}
  MaxDepth = 6
  MaxBrackets = 2
SYMMETRY IdSymmetry
SPECIFICATION Spec
PROPERTIES
  ClassifiedAsC11
  FollowsProtocol
CHECK_DEADLOCK FALSE
