CONSTANTS
  Ids = {a}
  BisonParams = {b1, b2}
  LexParams = {p1}
  Lexers = {x1, x2}
  MaxDepth = 2
  MaxLine = 2
SYMMETRY Symmetry
SPECIFICATION Spec
INVARIANTS
  TypeOK
  FileScopeKept
  LinesAgree
  NoStrayHalf
PROPERTIES
  OwnContext
  NeverThrows
CHECK_DEADLOCK FALSE
