CONSTANTS
  Size = 4
  Bytes = {b0, b1}
  MaxChunk = 5
  MaxLen = 9

SPECIFICATION Spec

INVARIANTS
  TypeOK
  Spanned

PROPERTY KeepsOrder
