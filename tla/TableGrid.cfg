SPECIFICATION GridSpec
CONSTANTS
  Sum = 6
  Tables <- MCTables
INVARIANTS
  RowsKeepTheirEdges
  LinesFollowThePage
  AlignedIfWide
  SideBySide
