SPECIFICATION Spec
CONSTANTS
  Digits <- MCDigits
  Texts <- MCTexts
  Graphs <- MCDigits
  ImageOf <- MCImageOf
  KindOf <- AllText
  Selector <- Selectors
  Corpus <- MCCorpus
  Typed <- MCTyped
  Plans <- MCPlans
  MaxEdits = 1
INVARIANTS
  EditsSurvive
  Recoverable
  RenumberingIsExact
  EmbeddingSettles
  DumpSound
PROPERTIES
  MeaningKept
  LinkIsExact
CHECK_DEADLOCK FALSE
