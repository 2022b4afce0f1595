SPECIFICATION HSpec
CONSTANTS
  MaxItems = 6
  MaxDepth = 3
  Keys <- MCKeys
  VarWrites <- MCVarWrites
  IndexWrites <- MCIndexWrites
  FieldWrites <- MCFieldWrites
  Bindings <- MCBindings
  HostStarts <- MCHostStarts
  HostWrites = 1
  MaxOperations = 5
INVARIANT NothingIsShared
PROPERTY ContainersAreValues
VIEW MCView
CHECK_DEADLOCK FALSE
