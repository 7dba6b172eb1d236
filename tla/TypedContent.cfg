SPECIFICATION Spec
CONSTANTS
  MaxShapeGroupDepth = 1
  MaxWarnings = 2
  Documents <- MCDocuments
  Selections <- MCSelections
INVARIANTS
  NumberedInOrder
  SelectionOnlyFilters
  NothingUnscanned
  RefusalReported
