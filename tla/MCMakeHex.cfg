CONSTANTS
  ByteRadix = 3
  Images <- MCImages
  Sizes = {0, 1, 2, 3}
SPECIFICATION HexSpec
INVARIANTS
  HexTypeOK
  ImageFaithful
CHECK_DEADLOCK FALSE
