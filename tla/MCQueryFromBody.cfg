SPECIFICATION Spec
CONSTANTS
  QScale = 100
  Inf = 1000000
  NoId = 100
  Inputs <- MCInputs
  Num <- MCNum
  Time <- MCTime
  Loose <- MCLoose
  Bare <- MCBare
  Digit <- MCDigit
  NoByte = NoByte
  MaxInt32 = 9
  TooLarge <- MCTooLarge
  Norm <- MCNorm
  Risks <- MCRisks
INVARIANTS TypeOK SameQuery CutIsRefused ScoresOnlyTheBody
PROPERTIES ReadsOn
