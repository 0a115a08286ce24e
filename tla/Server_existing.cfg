SPECIFICATION Spec
CONSTANTS
  MaxPairs = 2
  MaxNesting = 3
  c1 = c1
  c2 = c2
  Client <- Clients
  Query <- Queries
  RequestPieces = 2
  RowsPieces = 2
  MaxAsked <- Asked
PROPERTY ExistingKept
