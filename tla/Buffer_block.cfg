SPECIFICATION TextSpec
CONSTANTS
  Bytes = {x, y}
  Nul = Nul
  Align = 2
  MaxLen = 5
  MaxString = 2
  Strings <- ShortStrings
  Size = 16
  MaxLines = 0
  MaxTokens = 0
  Streams <- ClientStreams
PROPERTIES
  RemoveReplaces
