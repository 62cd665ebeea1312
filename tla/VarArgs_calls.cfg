SPECIFICATION Spec
CONSTANTS
  GpRegs = 1
  FpRegs = 1
  CallsAt <- MCCallsAt
  MaxDepth = 4
INVARIANTS
  TypeOK
  VarargsAreClean
  CallerStaysPoisoned
