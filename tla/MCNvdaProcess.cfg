SPECIFICATION Spec
CONSTANTS
  MaxProcesses = 4
  Ports = {n1, n2}
INVARIANTS
  TypeOK
  OwnsWhatItSpawned
  NeverAttachedToRetired
  ClientFollowsProcess
  AdoptedAreStopped
PROPERTY
  EveryOperationEnds
