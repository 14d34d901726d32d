CONSTANTS
  Ids = {a, b}
  Features = {"definition", "idlist", "declist", "array", "struct", "jump", "block", "attribute",
              "asm", "extension"}
  MaxDepth = 3
  MaxBrackets = 2
SYMMETRY IdSymmetry
SPECIFICATION Spec
PROPERTIES
  ClassifiedAsC11
  FollowsProtocol
CHECK_DEADLOCK FALSE
