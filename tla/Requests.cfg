SPECIFICATION Spec
CONSTANTS
  MaxPairs = 2
  MaxNesting = 8
  YYINITDEPTH = 8
  YYMAXDEPTH = 22
INVARIANTS TreeAsTyped Faithful DepthInv FilterAsTyped JoinAsTyped ColumnsAsTyped AttributesAsTyped Supported
CHECK_DEADLOCK FALSE
