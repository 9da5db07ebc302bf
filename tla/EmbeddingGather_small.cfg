SPECIFICATION Spec
INVARIANTS TypeOK ReducedExact
CONSTANTS
  MaxRows = 9
  TpSizes <- MCTpSizes
