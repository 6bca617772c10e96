SPECIFICATION Spec
CONSTANTS
  Capacity = 2
  MaxSaid = 4
  MaxCancels = 1
  MaxLaunches = 3
  MaxEmptied = 3
INVARIANTS
  IInv
  OnlyNewSpeechIsShown
  NewSpeechIsShown
  CancelledAreCounted
PROPERTY
  AbsenceIsReal
