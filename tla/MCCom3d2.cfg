SPECIFICATION Spec
CONSTANTS
  MaxPlaces = 32
  MaxEventParameterDepth = 2
  MaxTableDepth = 3
  ToLower <- MCToLower
  CompressGlobs <- MCCompressGlobs
  ShiftJIS <- MCShiftJIS
  Utf8 <- MCUtf8
  Ascii <- MCAscii
  Formats <- MCFormats
  Codec <- MCCodec
INVARIANTS
  RoundTrip
  LengthMatters
  ResavedSame
CHECK_DEADLOCK FALSE
