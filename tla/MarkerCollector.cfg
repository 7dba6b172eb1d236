\* Two marks of any two kinds, in a document of three characters.
SPECIFICATION MarksSpec
CONSTANTS
  Marks = {1, 2}
  MaxText = 3
INVARIANTS
  EachMarkOnce
  SpansTrue
  TextBetween
