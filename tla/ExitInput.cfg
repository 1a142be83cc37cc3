SPECIFICATION ExitInputSpec
CONSTANTS
  Workers = {w1, w2}
  Accepts = {a1, a2}
  Faults = {"init", "event", "port", "bind", "extension", "thread", "accept", "cancel"}
  MaxConnects = 1
  None = None
  Bytes <- Token
  Nul = "NUL"
  Align = 42
  MaxLen = 200
  Strings = {}
  Conversations <- Talks
  MaxAnswers = 3
INVARIANTS
  ServerOutlivesWorkers
  NoDeletedInUse
  NoDeletedInFlight
  StopReclaims
  DecodeExact
  AnsweredOnce
PROPERTIES
  StopReturns
