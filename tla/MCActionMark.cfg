SPECIFICATION Spec
CONSTANTS
  MaxActions = 3
  MaxSaid = 3
  MaxQueue = 2
INVARIANTS
  IInv
  AttributedToOwnAction
PROPERTY
  EveryActionIsSent
