SPECIFICATION Spec
CONSTANTS
  PatternTokens <- MCPatternTokens
  MaxPatternTokens = 4
  Alphabet = {"/", "a", "b"}
  MaxLength = 4
  Characters <- MCCharacters
  UrlTokens <- MCUrlTokens
  MaxUrlTokens = 4
  Schemes = {"s3", "S3", "ftp"}
  Lower <- MCLower
  Registered = {"s3"}
  Escapes <- MCEscapes
  NotUtf8 = {"0xFF", "0xF2"}
  MaxU64 = 31
  SizeFactor <- MCSizeFactor
  Bits = {"b", "k"}
  TimeFactor <- MCTimeFactor
  Texts <- MCTexts
  Strangers <- MCStrangers
  MaxOptions = 3
INVARIANTS
  MatchesMeaning ListingLosesNothing EveryNameHasAUrl SeparatorsAreVisible
  AcceptedIsMeant
CHECK_DEADLOCK FALSE
