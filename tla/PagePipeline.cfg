\* Pages 2 to 6 of 7: one page skipped at each end, and enough in the range to fill the
\* queue twice over.
SPECIFICATION Spec
CONSTANTS
  Pages = 7
  FirstPage = 2
  LastPage = 6
  MaxQueued = 2
INVARIANTS
  PagesInOrder
  TrueMeansAll
PROPERTIES
  HealthyPaintReturns
