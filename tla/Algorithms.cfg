\* Every text, string, program and subject ends in a "done".
CONSTANTS
  Texts <- MCTexts
  Strings <- MCStrings
  Garbage <- MCGarbage
  HexTexts <- MCHexTexts
  HexStrings <- MCHexStrings
  Behind <- MCBehind
  Programs <- MCPrograms
  Fields = 2
  MaxStack = 30
SPECIFICATION MCSpec
INVARIANTS RoundTrip DecodeInside HexRoundTrip FitsBuffer StaysInside
  AssertionsHold SameMeaning FindIsMeant SameMatches
CHECK_DEADLOCK FALSE
