SPECIFICATION ReceiveSpec
CONSTANTS
  CountMod = 4
  ByteBits = 2
  DataBytes = 3
  LoMod = 2
  RequiredSilence = 2
  MinDist = 2
  MaxLag = 1
INVARIANT StartOfDataMarked
