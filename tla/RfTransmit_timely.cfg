SPECIFICATION FairSpec
CONSTANTS
  MaxLen = 5
  MaxByte = 4
  MainQuota = 2
  Packets <- MCTimelyPackets
INVARIANT HandshakeInv
PROPERTY PlaysThePacket
