SPECIFICATION MessageSpec
CONSTANTS
  Chars <- MCChars
  HexDigits <- MCHexDigits
  LowerDigits <- MCLowerDigits
  BufferSize = 48
  KeySize = 4
  TakeSize = 4
  LongDigits = 4
  ZeroChar = 12
  Names <- MCNames
  Keys <- MCKeys
  Values <- MCValues
  MaxFields = 2
INVARIANT OnlyZerosSkipped
