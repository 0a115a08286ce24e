SPECIFICATION Spec
CONSTANTS
  MaxPairs = 2
  MaxNesting = 8
  YYINITDEPTH = 8
  YYMAXDEPTH = 22
INVARIANTS UpdateAsTyped
CHECK_DEADLOCK FALSE
