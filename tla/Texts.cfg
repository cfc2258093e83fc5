SPECIFICATION TextsSpec
CONSTANTS
  MaxNames = 3
  MaxInt = 15
  MaxItems = 2
  MaxHrefs = 4
  ByteTexts <- MCByteTexts
  Strings <- MCStrings
  Sizes <- MCSizes
  Pages <- MCPages
  Versions <- MCVersions
  Endings <- MCEndings
INVARIANTS
  ParsesExactlyCommands
  Utf8AsEncoded
  StringsReadBack
  EveryStatusFits
  PicksNewest
  ComparesAsNumbers
PROPERTY
  ComparisonEnds
CHECK_DEADLOCK FALSE
