SPECIFICATION Spec
CONSTANTS
  Nodes = {n1, n2, n3}
  NoNode = NoNode
  Commands = {x}
  MaxTerm = 3
  MaxLog = 1
PROPERTIES NewerTermWins
CHECK_DEADLOCK FALSE
