SPECIFICATION ReceiveSpec
CONSTANTS
  CountMod = 2
  ByteBits = 1
  DataBytes = 4
  LoMod = 2
  RequiredSilence = 1
  MinDist = 0
  MaxLag = 3
INVARIANT ReceiveTypeOK
INVARIANT ReadsWhatWasStored
PROPERTY EveryByteScanned
