SPECIFICATION FilterSpec
CONSTANTS
  Letters <- TypedLetters
  Chars <- TypedChars
  Lower <- TypedLower
  Batches <- UpToTwo
  MaxWords = 2
  MaxText = 4
INVARIANTS
  FindsAll
  HidesWords
