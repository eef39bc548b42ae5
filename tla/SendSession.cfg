SPECIFICATION FairSessionSpec
CONSTANTS
  MaxLen = 2
  MaxByte = 2
  MainQuota = 0
  Packets <- MCPackets
  Counts <- MCCounts
  DefaultRepeats = 2
  DefaultPause = 1
  ByteMod = 3
  Peak = 2
INVARIANT SessionTypeOK
INVARIANT NeverHearsItself
INVARIANT KeyedIntoAntenna
PROPERTY BackToListening
PROPERTY LedNeverJumps
PROPERTY LedGoesDark
