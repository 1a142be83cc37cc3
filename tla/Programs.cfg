SPECIFICATION ProgramsSpec
CONSTANTS
  Rounds = 5
  NumHosts = 2
  MaxAddrs = 2
  Timeouts = 3
  PortClients = {c1}
  MaxAsked = 3
  PortWorkers = {w1, w2}
  ApcClients = {a1}
  BufSize = 2
  MaxBytes = 3
  EventClients = {e1, e2, e3}
  Listener = e0
  WaitEvents = 3
  MaxUnits = 1
  Conns = 2
  Fds = 6
  Times = 5
  Numbers = {1, 2}
INVARIANTS
  ConnectSound RoundsSuffice CountsAgree EchoInOrder HandleOutlives
  ApcClosesLeft ArraysParallel OneAnswerEach SumExact
  ZombieOnlyMerged
PROPERTIES
  ConnectDecides NbcEnds ApcTakesAll EventsServed AllAnswered
