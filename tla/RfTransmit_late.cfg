SPECIFICATION FairSpec
CONSTANTS
  MaxLen = 5
  MaxByte = 3
  MainQuota = 0
  Packets <- MCPackets
INVARIANT TypeOK
INVARIANT LateInv
INVARIANT QuietWhenIdle
PROPERTY NeverCutShort
PROPERTY EveryCallReturns
