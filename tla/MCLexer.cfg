CONSTANTS
  Ids = {a}
  MaxLine = 3
  MaxColumn = 5
SPECIFICATION Spec
INVARIANTS
  TypeOK
  StartConditions
  CleanBetweenCalls
  LocationExact
  NeverMatchesInSIdent
PROPERTIES
  ImplementsFeedback
  SplitTokens
  AtomicParenthesis
  DirectivesAtLineStart
  CallReturns
