--------------------------- MODULE MCTypedContent ---------------------------
(***************************************************************************)
(* A document of each type with every sort of element, among them a table  *)
(* in a text frame, a picture in a group, a group too deep, an element     *)
(* that is not what it should be, and marks in places only some walks      *)
(* reach; selections of one part, of two, and of all.                      *)
(***************************************************************************)
EXTENDS TypedContent

E(is, depth, mark) == [is |-> is, depth |-> depth, mark |-> mark]
P(is, depth) == E(is, depth, "none")

Metadata == <<P("metadata", 0)>>
TextDocument ==
  [type |-> "text",
   of |-> [metadata |-> Metadata, objects |-> <<P("object", 0)>>,
     body |-> <<E("paragraph", 0, "comment"), E("table", 0, "field"), P("other", 0)>>,
     footnotes |-> <<E("footnote", 0, "comment")>>, endnotes |-> <<>>,
     indexes |-> <<>>, styles |-> <<P("style", 0), E("header", 1, "field")>>,
     frames |-> <<P("frame", 0), E("table", 1, "comment"), P("table", 1)>>,
     shapes |-> <<P("control", 1), P("group", 1), P("picture", 2)>>, finish |-> <<P("other", 0)>>]]
OtherTextDocument ==
  [type |-> "text",
   of |-> [metadata |-> Metadata, objects |-> <<P("other", 0), P("object", 0)>>,
     body |-> <<P("table", 0), E("paragraph", 0, "field"), P("paragraph", 0)>>,
     footnotes |-> <<P("odd", 0)>>, endnotes |-> <<P("footnote", 0)>>,
     indexes |-> <<E("index", 0, "comment")>>, styles |-> <<>>,
     frames |-> <<E("frame", 0, "comment"), P("frame", 0), P("table", 1)>>,
     shapes |-> <<P("group", 1), P("group", 2), P("picture", 3), E("shape", 1, "comment")>>,
     finish |-> <<P("other", 0)>>]]
Spreadsheet ==
  [type |-> "spreadsheet",
   of |-> [metadata |-> Metadata, objects |-> <<P("object", 0), P("other", 0), P("object", 0)>>,
     ranges |-> <<P("named", 0), P("named", 0), P("database", 0)>>,
     sheets |-> <<P("sheet", 0), P("row", 1), P("note", 1), P("chart", 1), P("pivot", 1),
                  P("picture", 1), P("group", 1), P("picture", 2),
                  P("sheet", 0), P("picture", 1)>>]]
Presentation ==
  [type |-> "presentation",
   of |-> [metadata |-> Metadata, objects |-> <<P("object", 0)>>,
     slides |-> <<P("slide", 0), P("shape", 1), P("group", 1), P("picture", 2), P("notes", 1),
                  P("annotation", 1), P("slide", 0), P("picture", 1), P("annotation", 1)>>]]
Drawing ==
  [type |-> "drawing",
   of |-> [metadata |-> Metadata, objects |-> <<>>,
     pages |-> <<P("page", 0), P("group", 1), P("picture", 2), P("group", 2), P("picture", 3),
                 P("page", 0), P("picture", 1)>>]]

MCDocuments == {TextDocument, OtherTextDocument, Spreadsheet, Presentation, Drawing}
MCSelections == {Kinds} \cup {{a, b} : a \in Kinds, b \in Kinds}
=============================================================================
