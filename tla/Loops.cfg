SPECIFICATION LoopsSpec
CONSTANTS
  PageSize = 10
  DbHeaderSize = 1
  PageHeaderSize = 1
  RelHeaderSize = 4
  LenSize = 1
  ColumnSize = 1
  RowHeaderSize = 1
  Rel = {r1, r2}
  Column <- MCColumn
  Domain <- MCDomain
  Schemas <- MCSchemas
  Compare <- MCCompare
  Schema <- MCSchema
  Chain <- MCChain
  Left <- MCLeft
  Right <- MCRight
  LeftChain <- MCLeftChain
  RightChain <- MCRightChain
  Equal <- MCEqual
INVARIANTS CursorInv LoopInv ResultInv ByLowByte JoinSound
PROPERTIES Terminates JoinTerminates
CHECK_DEADLOCK FALSE
