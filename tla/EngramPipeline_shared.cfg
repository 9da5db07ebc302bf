SPECIFICATION Spec
INVARIANTS TypeOK OutputsExact NoOverrun
CONSTANTS
  Lists <- MCLists
  NumRows = 3
  OwnedRows = {0, 1}
  MaxForwards = 3
CHECK_DEADLOCK FALSE
