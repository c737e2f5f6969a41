CONSTANTS
  ArraySize = 3
  StoreTypeSize = 6
  Ids = {0, 1, 2, 3, 4}
  MinBits = 1
  MaxBits = 2
  DirectBits = 4
  FilePalettes <- SomePalettes
  BlockList <- SomeBlocks
  WeightBits = 1
  Read = Read
  Unreadable = Unreadable
SPECIFICATION Spec
INVARIANTS
  PeerSeesSection
  LightIsCounted
PROPERTY
  IsGrid
