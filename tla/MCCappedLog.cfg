SPECIFICATION Spec
CONSTANTS
  Items = {hello, bye}
  Capacity = 2
  MaxHistory = 4
INVARIANTS
  IInv
PROPERTIES
  ImplementsAppendLog
