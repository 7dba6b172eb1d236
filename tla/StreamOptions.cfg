SPECIFICATION Spec
CONSTANTS
  Requests <- MCRequests
  MaxRequests = 3
INVARIANTS
  FirstRequestWins
  CopiesAgree
CHECK_DEADLOCK FALSE
