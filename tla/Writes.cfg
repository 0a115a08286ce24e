SPECIFICATION WritesSpec
CONSTANTS
  PageSize = 10
  DbHeaderSize = 1
  PageHeaderSize = 1
  RelHeaderSize = 4
  LenSize = 1
  ColumnSize = 1
  RowHeaderSize = 1
  Rel = {r1, r2}
  Column <- MCColumn
  Domain <- MCDomain
  Schemas <- MCSchemas
  Compare <- MCCompare
  MaxPages = 4
  MaxRows = 3
INVARIANTS WrittenInv WholeInv ConfinedInv
PROPERTY KillLosesLast
SYMMETRY RelSymmetry
VIEW View
