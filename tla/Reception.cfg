SPECIFICATION ReceptionSpec
CONSTANTS
  ByteBits = 2
  CountMod = 48
  DataBytes = 2
  TriggerLevel = 3
  FilterBits = 8
  MaxCarrier = 99
  OregonPreamble = 2
  OregonBuffer = 2
  OregonIds <- MCIds
  OregonLength <- MCLength
  OregonRuns = {2, 7, 10, 15, 16, 30}
  V3Preamble = 2
  V3Sync = 2
  V3Lengths = {1, 2}
  V3MinBits = 5
  V3MaxHalf = 16
  HalfMod = 32
  V3Buffer = 2
  V3Runs = {1, 8, 13, 17, 40}
  HastaCounts = {3, 4, 6, 12, 27, 29, 44, 60, 88}
  BlockCounts <- MCBlockCounts
  MaxCount = 255
  SignalLength = 5
  MaxSignal = 9
  CodeSwitchDigits = 4
  EverflourishDigits = 4
  Pt2262Digits = 3
  MandolynDigits = 3
  CrcPolynom = {0, 1}
  HouseBits = 2
  UnitBits = 2
  Commands <- MCCommands
  Pulses <- MCPulses
  Silences = {211, 264, 265, 510, 511}
  Chars <- MCChars
  HexDigits <- MCHexDigits
  LowerDigits <- MCLowerDigits
  BufferSize = 48
  KeySize = 4
  TakeSize = 4
  LongDigits = 4
  ZeroChar = 12
  Names <- MCNames
  Keys <- MCKeys
  Values <- MCValues
  MaxFields = 2
INVARIANT ReceptionTypeOK
INVARIANT FilterOpens
INVARIANT RingInOrder
INVARIANT OregonHears
INVARIANT V3Hears
INVARIANT HastaHears
INVARIANT BlockHears
INVARIANT CommandHeard
INVARIANT AlsoTakenFor
INVARIANT TakenBack
