SPECIFICATION Spec
CONSTANTS
  MaxPlaces = 32
  MaxInnerDepth = 1
  Alignment = 4
  DataBlock = 3
  Radix = 4
  CommonStrings <- MCCommonStrings
  IsMenuName <- MCIsMenuName
  Formats <- MCFormats
  Codec <- MCCodec
INVARIANTS
  RoundTrip
  LengthMatters
  ResavedSame
CHECK_DEADLOCK FALSE
