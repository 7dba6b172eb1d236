SPECIFICATION Spec
CONSTANTS
  Parts = {0, 1}
  MaxText = 3
  MaxBlocks = 2
  MaxItems = 4
  MaxMarks = 2
INVARIANTS
  StructurallyValid
  SheetsKeepTheirRows
  AnchorsPlaced
  ReferencesFound
