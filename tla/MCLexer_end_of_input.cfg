CONSTANTS
  Ids = {a}
  MaxLine = 3
  MaxColumn = 6
SPECIFICATION Spec
INVARIANTS
  EndsOutsideLiterals
