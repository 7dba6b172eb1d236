SPECIFICATION Spec
CONSTANTS
  Pages = 5
  FirstPage = 0
  LastPage = 0
  MaxQueued = 2
PROPERTIES
  FailureReturns
