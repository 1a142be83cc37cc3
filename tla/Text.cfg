SPECIFICATION TextSpec
CONSTANTS
  Bytes = {x, y}
  Nul = Nul
  Align = 2
  MaxLen = 5
  MaxString = 2
  Strings <- ShortStrings
  Size = 16
  MaxLines = 3
  MaxTokens = 6
  Streams <- ClientStreams
INVARIANTS
  NoFault
  EmptyingKeepsBlock
  ParseType
  PiecesDoNotMatter
PROPERTIES
  QueueSpec
