SPECIFICATION InputSpec
CONSTANTS
  Bytes <- Token
  Nul = "NUL"
  Align = 42
  MaxLen = 200
  Strings = {}
  Conversations <- Dialogues
  MaxAnswers = 3
INVARIANTS
  LegalStaysOpen
