SPECIFICATION ReplicationSpec
CONSTANTS
  a = a
  b = b
  c = c
  k1 = k1
  k2 = k2
  Nodes = {a, b, c}
  NoNode = NoNode
  Commands = {x, y}
  MaxTerm = 3
  MaxLog = 2
  Keys = {k1, k2}
  Values = {x, y}
  Missing = Missing
  MaxVersion = 2
  MaxEvents = 2
  MaxMessages = 2
  Amounts = {2}
  MaxUpdates = 2
  MaxCopies = 2
  Participants = 3
  Members = {1, 2, 3}
  Strangers = {4}
  MachineCount = 2
  SequenceSize = 2
  MaxTime = 2
  MaxIds = 4
  Writers <- SomeShared
  Ring <- Line
INVARIANTS IInv ElectionSafety NewestHeardIsHeld MergesAreExact TransactionsEndWhole LeaderIsHighestAlive IdsNeverRepeat
PROPERTIES CommittedNeverLost Spreads
CHECK_DEADLOCK FALSE
