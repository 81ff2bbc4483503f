SPECIFICATION PasswordSpec
CONSTANTS
  PASS_LENGTH = 4
  Sources <- UpToFourOctets
  Noise <- UpToEightChars
  Strings <- SomeStrings
  Texts <- SomeTexts
CHECK_DEADLOCK FALSE
INVARIANTS
  AlwaysPermutation
  EncodesBits
  DecodesBits
  PasswordReadBack
  AcceptedIfSizeFits
  StringReadBack
  ReadsJSONStrings
