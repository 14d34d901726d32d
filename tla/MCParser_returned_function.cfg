CONSTANTS
  Ids = {a, b}
  Features = {"definition", "params", "pointer", "idlist"}
  MaxDepth = 2
  MaxBrackets = 2
SYMMETRY IdSymmetry
SPECIFICATION Spec
PROPERTIES
  ClassifiedAsC11
CHECK_DEADLOCK FALSE
