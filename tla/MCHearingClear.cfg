SPECIFICATION Spec
CONSTANTS
  Capacity = 2
  MaxSaid = 2
  MaxCancels = 1
  MaxLaunches = 1
  MaxEmptied = 1
INVARIANT
  HearsSinceTheLastAction
