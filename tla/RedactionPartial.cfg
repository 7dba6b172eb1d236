SPECIFICATION Spec
CONSTANTS
  a = a
  b = b
  Letters = {a, b}
  Space = Space
  Glyph = Glyph
  Documents <- MCDocuments
  Requests <- MCRequests
INVARIANTS
  AddressedTextGone
