SPECIFICATION Spec
CONSTANTS
  Digits <- MCDigits
  Texts <- MCTexts
  Graphs <- MCDigits
  ImageOf <- MCImageOf
  KindOf <- AllText
  Selector <- Selectors
  Corpus <- SkippedAndNot
  Typed <- MCTyped
  Plans <- ScriptOnly
  MaxEdits = 0
INVARIANTS
  DumpIsConverted
CHECK_DEADLOCK FALSE
