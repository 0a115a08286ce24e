SPECIFICATION Spec
CONSTANTS
  Name = {n1, n2, n3}
  Char = {1}
  IntegerSize = 2
  BooleanSize = 1
  DoubleSize = 3
  VarcharSizes = {0, 3}
  MaxColumns = 3
INVARIANTS SchemaInv ReadsBack
CHECK_DEADLOCK FALSE
