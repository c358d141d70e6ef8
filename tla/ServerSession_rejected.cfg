SPECIFICATION Spec
CONSTANTS
  SymbolCapacity = 1
  QueryLimit = 1
  MaxSockets = 2
  MaxEvents = 1
  MaxQueries = 2
INVARIANT SocketsDestroyedOnce
