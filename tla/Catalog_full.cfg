SPECIFICATION Spec
CONSTANTS
  Name = {n1, n2, n3, n4}
  PageSize = 40
  DbHeaderSize = 10
  PageHeaderSize = 5
  RelHeaderSize = 11
  MaxRelations = 6
INVARIANT NamesOnce
