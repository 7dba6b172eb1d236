---------------------------- MODULE DoclingMapper ----------------------------
(***************************************************************************)
(* How the events of a parse become one document tree (DoclingMapper in    *)
(* src/src/docling_map.cpp): every event adds items under the group its    *)
(* place in the document calls for, and what is anchored in the body's     *)
(* text (comments, changes, bookmarks, form fields) waits for the terminal *)
(* status, when all of the body is known.                                  *)
(*                                                                         *)
(* An item is its reference; its text, formatting and provenance are left  *)
(* out, and of the text the length stays.                                  *)
(***************************************************************************)
EXTENDS Integers, Sequences, FiniteSets, SequencesExt

CONSTANTS Parts,     \* the slides, sheets or pages a document may have
          MaxText,   \* bound: characters of the body, paragraph ends included
          MaxBlocks, \* bound: items and records of a text document but its paragraphs
          MaxItems,  \* bound: items of any other document
          MaxMarks   \* bound: anchored marks

ASSUME MapperAssumption ==
  Parts \subseteq Nat /\ {MaxText, MaxBlocks, MaxItems, MaxMarks} \subseteq Nat

VARIABLES
  type,       \* document_type_
  offset,     \* the annotation text walked so far, which the events' offsets count
  tree,       \* document_: the size of each arena, the parent of each item and the
              \* children of each parent
  groups,     \* slide_group_, sheet_group_, sheet_comments_, draw_groups_,
              \* writer_groups_ and comments_group_ref_, by what each is for
  sheetTable, \* sheet_table_
  cells,      \* the sheets whose rows each table holds
  fine,       \* references beside the tree: graph cells, attachments, table comments
  spans,      \* body_spans_
  pending,    \* pending_comments_, _changes_, _anchors_ and _field_spans_
  threads,    \* pending_comment_parents_ and pending_references_
  names,      \* comment_ref_by_name_
  placed,     \* what the anchors resolved to
  joined,     \* what the names resolved to
  finished    \* finished_

anchoring == <<pending, threads, names>>
results == <<placed, joined, finished>>
sheets == <<sheetTable, cells>>
vars == <<type, offset, tree, groups, sheets, fine, spans, anchoring, results>>

Types == {"text", "presentation", "spreadsheet", "drawing"}
Arenas == {"groups", "texts", "pictures", "tables", "field_items", "field_regions", "form_items"}
Body == <<"body", 0>>
Furniture == <<"furniture", 0>>

----------------------------------------------------------------------------
(* The tree *)

With(f, x, y) == [k \in DOMAIN f \cup {x} |-> IF k = x THEN y ELSE f[k]]
NewRef(t, arena) == <<arena, t.size[arena]>>
Has(t, ref) == ref \in DOMAIN t.parent

\* group_by_ref knows the two roots and the groups, and link_child the form arenas;
\* the children of anything else go to the body.
GroupByRef(t, ref) ==
  IF ref = Furniture \/ (ref[1] = "groups" /\ Has(t, ref)) THEN ref ELSE Body
WithoutForms(t, ref) == GroupByRef(t, ref)   \* mutant: no case for the form arenas
LinkTarget(t, ref) ==
  IF ref[1] \in {"field_regions", "field_items"} /\ Has(t, ref) THEN ref
  ELSE GroupByRef(t, ref)

\* add_group, add_text, add_picture, add_table: an item at the end of its arena.
Add(t, arena, parentRef) ==
  LET ref == NewRef(t, arena)
      into == LinkTarget(t, parentRef)
  IN  [size     |-> [t.size EXCEPT ![arena] = @ + 1],
       parent   |-> With(t.parent, ref, parentRef),
       children |-> With([t.children EXCEPT ![into] = @ \cup {ref}], ref, {})]

Under(key) == IF key \in DOMAIN groups THEN groups[key] ELSE Body
Group(key, ref) == With(groups, key, ref)

Init ==
  /\ type \in Types
  /\ offset = 0
  /\ tree = [size |-> [arena \in Arenas |-> 0], parent |-> << >>,
             children |-> [r \in {Body, Furniture} |-> {}]]
  /\ groups = << >> /\ sheetTable = << >> /\ cells = {} /\ fine = {}
  /\ spans = <<>> /\ pending = {} /\ threads = {} /\ names = << >>
  /\ placed = {} /\ joined = {} /\ finished = FALSE

\* An event that leaves one item more under a parent.
Leaf(arena, parentRef) == tree' = Add(tree, arena, parentRef)

\* Items and records beyond the paragraphs and the comments section.
Items == Cardinality(DOMAIN tree.parent \ {groups[k] : k \in DOMAIN groups \cap {<<"comments">>}})
         - Len(spans) + Cardinality({p \in pending : p.kind \in {"change", "bookmark"}})
Event(types) == ~finished /\ type \in types /\ Items < (IF type = "text" THEN MaxBlocks ELSE MaxItems)
Kept == UNCHANGED <<type, offset, spans, results>>

----------------------------------------------------------------------------
(* The body's text *)

Bookmarks == 1..MaxMarks
Comments == 1..MaxMarks

\* on_paragraph, for a paragraph of any length; a run of it may be a cross-reference.
OnParagraph ==
  /\ ~finished /\ type = "text"
  /\ \E length \in 0..(MaxText - 1 - offset) :
       /\ offset' = offset + length + 1
       /\ Leaf("texts", Body)
       /\ spans' = Append(spans, [start |-> offset, end |-> offset + length,
                                  ref |-> NewRef(tree, "texts")])
       /\ \/ UNCHANGED threads
          \/ \E name \in Bookmarks :
               /\ length > 0
               /\ threads' = threads \cup
                    {[to |-> "bookmark", from |-> NewRef(tree, "texts"), name |-> name]}
  /\ UNCHANGED <<type, groups, sheets, fine, pending, names, results>>

\* A paragraph that the walk counts and no event carries: the caller did not select
\* paragraphs. (A table's cells are outside the annotation space: on_table is a block.)
WalkOn ==
  /\ ~finished /\ type = "text"
  /\ \E length \in 0..(MaxText - 1 - offset) : offset' = offset + length + 1
  /\ UNCHANGED <<type, tree, groups, sheets, fine, spans, anchoring, results>>

Positions == -1..(MaxText - 1)
Anchored(types) == Event(types) /\ Cardinality(pending) < MaxMarks

Wait(kind, item, start, end) ==
  pending' = pending \cup {[kind |-> kind, item |-> item, start |-> start, end |-> end]}

\* on_comment: a text in the comments section, which comes with the first.
OnComment ==
  /\ Anchored({"text", "presentation"})
  /\ LET key == <<"comments">>
         section == IF key \in DOMAIN groups THEN groups[key] ELSE NewRef(tree, "groups")
         with == IF key \in DOMAIN groups THEN tree ELSE Add(tree, "groups", Furniture)
         ref == NewRef(with, "texts")
     IN  /\ groups' = Group(key, section)
         /\ tree' = Add(with, "texts", section)
         /\ \E name \in Comments \ DOMAIN names, parent \in Comments :
              /\ names' \in {names, With(names, name, ref)}
              /\ \/ UNCHANGED threads
                 \/ /\ parent # name
                    /\ threads' = threads \cup {[to |-> "comment", from |-> ref, name |-> parent]}
         /\ \/ /\ type = "text"
               /\ \E start, end \in Positions :
                    0 <= start /\ start <= end /\ Wait("comment", ref, start, end)
            \/ UNCHANGED pending
  /\ UNCHANGED <<sheets, fine>> /\ Kept

\* on_tracked_change and on_bookmark: records that only wait.
OnTrackedChange ==
  /\ Anchored({"text"})
  /\ \E start, end \in Positions :
       /\ (start < 0 \/ end < 0 \/ start <= end)
       /\ Wait("change", Cardinality({p \in pending : p.kind = "change"}), start, end)
  /\ UNCHANGED <<tree, groups, sheets, fine, threads, names>> /\ Kept

OnBookmark ==
  /\ Anchored({"text"})
  /\ \E start, end \in Positions, name \in Bookmarks :
       /\ (start < 0 \/ end < 0 \/ start <= end)
       /\ \A p \in pending : p.kind = "bookmark" => p.item # name
       /\ Wait("bookmark", name, start, end)
  /\ UNCHANGED <<tree, groups, sheets, fine, threads, names>> /\ Kept

\* on_form_field: the region and the form with the first field, then the field with
\* its heading and its value, both in the form's graph.
OnFormField ==
  /\ Anchored({"text"})
  /\ \E start, end \in Positions, labelled \in BOOLEAN :
       LET region == <<"field_regions", 0>>
           arena == IF Has(tree, region) THEN tree
                    ELSE Add(Add(tree, "field_regions", Body), "form_items", Body)
           field == NewRef(arena, "field_items")
           item == Add(arena, "field_items", region)
           heading == IF labelled THEN Add(item, "texts", field) ELSE item
       IN  /\ start <= end
           /\ tree' = Add(heading, "texts", field)
           /\ fine' = fine \cup {NewRef(heading, "texts")}
                           \cup (IF labelled THEN {NewRef(item, "texts")} ELSE {})
           /\ IF start >= 0 THEN Wait("field", field, start, end) ELSE UNCHANGED pending
  /\ UNCHANGED <<groups, sheets, threads, names>> /\ Kept

\* on_table, on_footnote, on_document_index, and on_header_footer of one paragraph.
OnBodyBlock ==
  /\ Event({"text"})
  /\ \/ Leaf("tables", Body) \/ Leaf("texts", Body) \/ Leaf("texts", Furniture)
  /\ UNCHANGED <<groups, sheets, fine, anchoring>> /\ Kept

\* on_text_frame: a group that holds the frame's text.
Framed(parentRef) ==
  tree' = Add(Add(tree, "groups", parentRef), "texts", NewRef(tree, "groups"))
OnTextFrame ==
  /\ Event({"text"})
  /\ Framed(Body)
  /\ UNCHANGED <<groups, sheets, fine, anchoring>> /\ Kept

----------------------------------------------------------------------------
(* Shapes, slides and embedded content *)

Paths == {<<>>, <<0>>, <<0, 0>>}   \* bound: group_path, by z_order

OpenGroup(key, parentRef) ==
  /\ Leaf("groups", parentRef)
  /\ groups' = Group(key, NewRef(tree, "groups"))

\* on_shape: a container is the group of its children's path.
OnShape ==
  /\ Event({"text"})
  /\ \E path \in Paths :
       \/ /\ <<"writer", Append(path, 0)>> \notin DOMAIN groups
          /\ OpenGroup(<<"writer", Append(path, 0)>>, Under(<<"writer", path>>))
       \/ Framed(Under(<<"writer", path>>)) /\ UNCHANGED groups
  /\ UNCHANGED <<sheets, fine, anchoring>> /\ Kept

\* on_drawing_shape, on the page of a drawing.
OnDrawingShape ==
  /\ Event({"drawing"})
  /\ \E page \in Parts, path \in Paths :
       LET container == Under(<<"draw", page, path>>)
       IN  \/ /\ <<"draw", page, Append(path, 0)>> \notin DOMAIN groups
              /\ OpenGroup(<<"draw", page, Append(path, 0)>>, container)
           \/ (Leaf("texts", container) \/ Leaf("pictures", container)) /\ UNCHANGED groups
  /\ UNCHANGED <<sheets, fine, anchoring>> /\ Kept

\* on_embedded_image; a sheet's images go under the body.
OnEmbeddedImage ==
  /\ Event(Types)
  /\ \/ /\ type = "presentation"
        /\ \E page \in Parts : Leaf("pictures", Under(<<"slide", page>>))
     \/ /\ type # "presentation"
        /\ \E path \in Paths : Leaf("pictures", Under(<<"writer", path>>))
  /\ UNCHANGED <<groups, sheets, fine, anchoring>> /\ Kept

OnSlide ==
  /\ Event({"presentation"})
  /\ \E index \in Parts :
       <<"slide", index>> \notin DOMAIN groups /\ OpenGroup(<<"slide", index>>, Body)
  /\ UNCHANGED <<sheets, fine, anchoring>> /\ Kept

\* on_slide_shape: a table, a picture, or a text, an outline of two lines being two.
OnSlideShape ==
  /\ Event({"presentation"})
  /\ \E index \in Parts :
       LET slide == Under(<<"slide", index>>)
       IN  \/ \E arena \in {"tables", "pictures", "texts"} : Leaf(arena, slide)
           \/ tree' = Add(Add(tree, "texts", slide), "texts", slide)
  /\ UNCHANGED <<groups, sheets, fine, anchoring>> /\ Kept

\* on_embedded_object registers the payload with the item that stands for it.
OnEmbeddedObject ==
  /\ Event(Types)
  /\ \E arena \in {"texts", "tables", "pictures"} :
       Leaf(arena, Body) /\ fine' = fine \cup {NewRef(tree, arena)}
  /\ UNCHANGED <<groups, sheets, anchoring>> /\ Kept

----------------------------------------------------------------------------
(* Spreadsheets *)

AfterAdding == <<"tables", tree.size["tables"] + 1>>   \* mutant: the size is read late
OwnTable == NewRef(tree, "tables")

\* on_sheet: the sheet's group and, in it, the table of its cells.
OnSheet ==
  /\ Event({"spreadsheet"})
  /\ \E index \in Parts \ DOMAIN sheetTable :
       LET group == NewRef(tree, "groups")
       IN  /\ groups' = Group(<<"sheet", index>>, group)
           /\ tree' = Add(Add(tree, "groups", Body), "tables", group)
           /\ sheetTable' = With(sheetTable, index, OwnTable)
  /\ UNCHANGED <<cells, fine, anchoring>> /\ Kept

\* on_sheet_row, which drops the row of a sheet that was not announced.
OnSheetRow ==
  /\ ~finished /\ type = "spreadsheet"
  /\ \E index \in DOMAIN sheetTable : cells' = cells \cup {[sheet |-> index, table |-> sheetTable[index]]}
  /\ UNCHANGED <<tree, groups, sheetTable, fine, anchoring>> /\ Kept

\* on_sheet_cell_comment: a text in the sheet's own comments section, which comes
\* with the first, named by the sheet's table.
OnSheetCellComment ==
  /\ Event({"spreadsheet"})
  /\ \E index \in Parts :
       LET key == <<"sheet_comments", index>>
           section == IF key \in DOMAIN groups THEN groups[key] ELSE NewRef(tree, "groups")
           with == IF key \in DOMAIN groups THEN tree
                   ELSE Add(tree, "groups", Under(<<"sheet", index>>))
       IN  /\ groups' = Group(key, section)
           /\ tree' = Add(with, "texts", section)
           /\ fine' = IF index \in DOMAIN sheetTable THEN fine \cup {NewRef(with, "texts")} ELSE fine
  /\ UNCHANGED <<sheets, anchoring>> /\ Kept

\* on_sheet_chart and on_sheet_pivot_table, whose output is a table of its own.
OnSheetChartOrPivot ==
  /\ Event({"spreadsheet"})
  /\ \E index \in Parts, arena \in {"pictures", "tables"} : Leaf(arena, Under(<<"sheet", index>>))
  /\ UNCHANGED <<groups, sheets, fine, anchoring>> /\ Kept

----------------------------------------------------------------------------
(* The terminal status *)

\* resolve_doc_span: the last paragraph that starts at or before the position, if
\* the position is in it.
Least(a, b) == IF a < b THEN a ELSE b
Before(start) == Cardinality({i \in 1..Len(spans) : spans[i].start <= start})
Outside(span, start) == start >= span.end /\ start # span.start
Resolves(p) == p.start >= 0 /\ Before(p.start) > 0 /\ ~Outside(spans[Before(p.start)], p.start)
Unclipped(p) ==   \* mutant: a range may leave its item
  LET span == spans[Before(p.start)]
  IN  [mark |-> p, ref |-> span.ref, from |-> p.start - span.start,
       to |-> (IF p.end > p.start THEN p.end ELSE p.start) - span.start]
Resolved(p) ==
  LET span == spans[Before(p.start)]
      length == span.end - span.start
  IN  [mark |-> p, ref |-> span.ref, from |-> Least(p.start - span.start, length),
       to |-> Least((IF p.end > p.start THEN p.end ELSE p.start) - span.start, length)]

Anchors == {Resolved(p) : p \in {q \in pending : Resolves(q)}}
KnownFirst(t) ==   \* mutant: only what came before
  {[thread |-> t, ref |-> names[n]] : n \in {m \in DOMAIN names : m = t.name /\ names[m][2] < t.from[2]}}
Answers(t) == {[thread |-> t, ref |-> names[n]] : n \in {t.name} \cap DOMAIN names}
Pointed(t) == {[thread |-> t, ref |-> a.ref] :
                 a \in {b \in Anchors : b.mark.kind = "bookmark" /\ b.mark.item = t.name}}

\* on_status, once the walk is over: no mark lies behind the last paragraph's end.
OnStatus ==
  /\ ~finished /\ finished' = TRUE
  /\ \A p \in pending : p.start < offset /\ p.end < offset
  /\ placed' = Anchors
  /\ joined' = UNION {IF t.to = "comment" THEN Answers(t) ELSE Pointed(t) : t \in threads}
  /\ UNCHANGED <<type, offset, tree, groups, sheets, fine, spans, anchoring>>

Done == finished /\ UNCHANGED vars

Next ==
  \/ OnParagraph \/ WalkOn \/ OnComment \/ OnTrackedChange \/ OnBookmark \/ OnFormField
  \/ OnBodyBlock \/ OnTextFrame \/ OnShape \/ OnDrawingShape \/ OnEmbeddedImage
  \/ OnSlide \/ OnSlideShape \/ OnEmbeddedObject
  \/ OnSheet \/ OnSheetRow \/ OnSheetCellComment \/ OnSheetChartOrPivot
  \/ OnStatus \/ Done

Spec == Init /\ [][Next]_vars

----------------------------------------------------------------------------
(* Properties *)

Refs == {Body, Furniture} \cup DOMAIN tree.parent

\* Every reference the mapper remembers names an item of the document, by its arena and
\* an index in it.
TypeOK ==
  /\ type \in Types /\ offset \in 0..MaxText /\ finished \in BOOLEAN
  /\ \A r \in DOMAIN tree.parent : r[1] \in Arenas /\ r[2] \in 0..(tree.size[r[1]] - 1)
  /\ DOMAIN tree.children = Refs
  /\ \A key \in DOMAIN groups : groups[key] \in DOMAIN tree.parent /\ groups[key][1] = "groups"
  /\ \A i \in DOMAIN sheetTable : i \in Parts /\ sheetTable[i] \in DOMAIN tree.parent
  /\ \A p \in pending : p.kind \in {"comment", "change", "bookmark", "field"}

\* "Structurally valid at any point in the stream" (docling_map.h), in the words of
\* docling_integrity_errors: every item's parent exists and lists it, nothing else
\* does, every listed child exists, and no reference beside the tree dangles.
StructurallyValid ==
  /\ \A r \in DOMAIN tree.parent : tree.parent[r] \in Refs /\ r \in tree.children[tree.parent[r]]
  /\ \A q \in Refs : \A r \in tree.children[q] : r \in DOMAIN tree.parent /\ tree.parent[r] = q
  /\ fine \cup {a.ref : a \in placed} \cup {j.ref : j \in joined} \subseteq Refs

\* The rows of a sheet land in the table under the sheet's own group, however many
\* tables (pivots, embedded spreadsheets) the document has by then.
SheetsKeepTheirRows ==
  \A c \in cells : /\ c.table \in DOMAIN tree.parent
                   /\ tree.parent[c.table] = groups[<<"sheet", c.sheet>>]

Covered(p) == {i \in 0..(offset - 1) : p.start <= i /\ i < p.end}
In(span) == {i \in 0..(offset - 1) : span.start <= i /\ i < span.end}

\* A mark that starts in an emitted paragraph is placed on it, once, on exactly the
\* characters of the mark the paragraph has; any other mark is kept without a place.
AnchorsPlaced ==
  finished => \A p \in pending :
    LET homes == {s \in Range(spans) : p.start = s.start \/ p.start \in In(s)}
    IN  /\ Cardinality({a \in placed : a.mark = p}) = Cardinality(homes)
        /\ \A a \in placed, s \in homes : a.mark = p =>
             /\ a.ref = s.ref
             /\ {i \in 0..(offset - 1) : s.start + a.from <= i /\ i < s.start + a.to}
                  = Covered(p) \cap In(s)

\* A reply points at the comment it answers and a cross-reference at its bookmark's
\* paragraph whenever the document has them, whichever of the two came first.
ReferencesFound ==
  finished => \A t \in threads :
    LET known == IF t.to = "comment" THEN {names[n] : n \in {t.name} \cap DOMAIN names}
                 ELSE {a.ref : a \in {b \in placed : b.mark.kind = "bookmark" /\ b.mark.item = t.name}}
    IN  {j.ref : j \in {k \in joined : k.thread = t}} = known
=============================================================================
