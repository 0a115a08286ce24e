SPECIFICATION Spec
CONSTANTS
  PageSize = 10
  DbHeaderSize = 1
  PageHeaderSize = 1
  RelHeaderSize = 4
  LenSize = 1
  ColumnSize = 1
  RowHeaderSize = 1
  Rel = {r1, r2}
  Column <- MCColumn
  Domain <- ShapeDomain
  Schemas <- BothSchemas
  Compare <- MCCompare
  MaxPages = 5
INVARIANTS TypeOK SavedInv CatalogInv ChainInv SpaceInv RowsInv ScanInv
PROPERTIES RowsStay OtherRelationsUntouched
SYMMETRY RelSymmetry
