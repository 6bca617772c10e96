SPECIFICATION Spec
CONSTANTS
  MaxProcesses = 3
  Ports = {n1, n2}
INVARIANT
  HandshakeIsOwn
