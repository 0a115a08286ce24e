SPECIFICATION Spec
CONSTANTS
  PageSize = 10
  DbHeaderSize = 1
  PageHeaderSize = 1
  RelHeaderSize = 4
  LenSize = 1
  ColumnSize = 1
  RowHeaderSize = 1
  Rel = {r1, r2}
  Column <- MCColumn
  Domain <- QueryDomain
  Schemas <- OnlyPair
  Compare <- MCCompare
  MaxPages = 3
PROPERTY Refinement
SYMMETRY RelSymmetry
