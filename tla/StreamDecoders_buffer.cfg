SPECIFICATION StreamSpec
CONSTANTS
  ByteBits = 2
  CountMod = 48
  OregonPreamble = 2
  OregonBuffer = 2
  OregonIds <- MCIds
  OregonLength <- MCLength
  OregonRuns = {2, 7, 10, 15, 16, 30}
  V3Preamble = 2
  V3Sync = 2
  V3Lengths = {1, 2}
  V3MinBits = 5
  V3MaxHalf = 16
  HalfMod = 32
  V3Buffer = 2
  V3Runs = {1, 8, 13, 17, 40}
  HastaCounts = {3, 4, 6, 12, 27, 29, 44, 60, 88}
INVARIANT V3FitsBuffer
