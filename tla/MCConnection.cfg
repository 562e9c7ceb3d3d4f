CONSTANTS
  Hives = {1, 2}
  Byte = 4
  LengthBytes = 2
  BufferSize = 6
  FloodSize = 1
  MaxSockets = 4
  MaxConns = 4
  Budgets <- MCBudgets
  None = None
SPECIFICATION Spec
INVARIANTS TypeOK EndsMatch
PROPERTIES ImplementsChannel HandshakeEnds PeerIsForgotten
CHECK_DEADLOCK FALSE
