CONSTANTS
  Lines <- DocumentLines
  MaxLines = 4
  Texts <- ValueTexts
  Names <- QueueNames
  Fold <- FoldNames
  Upper <- UpperTexts
  NoName = NoName
  NoValue = NoValue
SPECIFICATION ConfSpec
INVARIANT FactorAsWritten
CHECK_DEADLOCK FALSE
