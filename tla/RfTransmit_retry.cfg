SPECIFICATION Spec
CONSTANTS
  MaxLen = 5
  MaxByte = 3
  MainQuota = 0
  Packets <- MCPackets
PROPERTY StoredTimeIsLoaded
