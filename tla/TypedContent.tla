---------------------------- MODULE TypedContent ----------------------------
(***************************************************************************)
(* The walk over a loaded document that sends its typed events             *)
(* (src/src/uno_extract.cpp, emit_typed_content_with and the emit_         *)
(* functions under it). A selection of parts says which events are wanted; *)
(* emit_fn takes an event or refuses it; what the office core fails to     *)
(* give is warned of and left out. Under a redaction the same walk runs    *)
(* twice on a text document: a scan of every part, whose events are only   *)
(* looked at, and after it the walk that sends what was selected.          *)
(*                                                                         *)
(* A document is cut into stages in the order they are walked; a stage is  *)
(* a sequence of elements in document order, what an element encloses      *)
(* following it one level deeper. An element may carry one mark: a comment *)
(* (which stands for the marks finish sweeps up) or a form field (which it *)
(* does not). Spans and covered text of marks are in MarkerCollector.      *)
(***************************************************************************)
EXTENDS Integers, Sequences, FiniteSets

CONSTANTS
  Documents,            \* loaded documents
  Selections,           \* selections of parts, as sets of event kinds
  MaxShapeGroupDepth,   \* kMaxShapeGroupDepth
  MaxWarnings           \* bound: reads that fail in one walk

\* An event is named for the part that selects it.
Kinds == {"metadata", "object", "paragraph", "table", "footnote", "index", "style",
          "header", "frame", "shape", "image", "comment", "field", "sheet", "slide"}

Walk(type) ==
  <<"metadata", "objects">> \o
  CASE type = "text" -> <<"body", "footnotes", "endnotes", "indexes", "styles", "frames",
                          "shapes", "finish">>
    [] type = "spreadsheet" -> <<"ranges", "sheets">>
    [] type = "presentation" -> <<"slides">>
    [] type = "drawing" -> <<"pages">>

\* What a stage is walked for.
Wanted == [metadata |-> {"metadata"}, objects |-> {"object"},
  body |-> {"paragraph", "table", "comment", "field"},
  footnotes |-> {"footnote"}, endnotes |-> {"footnote"}, indexes |-> {"index"},
  styles |-> {"style", "header"}, frames |-> {"frame"},
  shapes |-> {"image", "shape", "field"}, finish |-> {"comment", "field"},
  ranges |-> {"sheet"}, sheets |-> {"sheet", "image"},
  slides |-> {"slide", "comment", "image"}, pages |-> {"shape", "image"}]

\* What is met in a stage, besides what tells nothing or is not what it should be.
Met == [metadata |-> {"metadata"}, objects |-> {"object"}, body |-> {"paragraph", "table"},
  footnotes |-> {"footnote"}, endnotes |-> {"footnote"}, indexes |-> {"index"},
  styles |-> {"style", "header"}, frames |-> {"frame", "table"},
  shapes |-> {"shape", "group", "picture", "control"}, finish |-> {},
  ranges |-> {"named", "database"},
  sheets |-> {"sheet", "row", "note", "chart", "pivot", "shape", "group", "picture"},
  slides |-> {"slide", "notes", "annotation", "shape", "group", "picture"},
  pages |-> {"page", "shape", "group", "picture"}]

\* A document: doc.of gives the elements of each of its stages. Marks are those
\* of a text; the metadata and the objects carry none. finish is one element.
Stages(type) == {Walk(type)[s] : s \in 1..Len(Walk(type))}
Element(type, s) ==
  [is : Met[s] \cup {"other", "odd"}, depth : Nat,
   mark : IF type # "text" \/ s \in {"metadata", "objects", "finish"} THEN {"none"}
          ELSE {"none", "comment", "field"}]
ASSUME TypedContentAssumption ==
  /\ MaxShapeGroupDepth \in Nat \ {0} /\ MaxWarnings \in Nat
  /\ \A d \in Documents :
       /\ d.type \in {"text", "spreadsheet", "presentation", "drawing"}
       /\ DOMAIN d.of = Stages(d.type)
       /\ \A s \in Stages(d.type) : d.of[s] \in Seq(Element(d.type, s))
       /\ d.type = "text" => Len(d.of["finish"]) = 1
  /\ \A wanted \in Selections : wanted \subseteq Kinds

VARIABLES doc, parts,
          pass,       \* the scan of a redaction, the walk that sends after it,
                      \* or the only walk, without a redaction
          stage, at,  \* the element to be read next
          offers,     \* events of the element just read, still to be offered
          count,      \* events offered of each kind: the next index
          seen,       \* elements whose comment the collector has met
          failed,     \* MarkerCollector::failed_
          sent,       \* events offered to emit_fn in this walk
          shown,      \* history: what a scan that passed has looked at
          warnings,   \* Warner::count
          result

place == <<stage, at>>
vars == <<doc, parts, pass, stage, at, offers, count, seen, failed, sent, shown,
          warnings, result>>

Name == Walk(doc.type)[stage]
Elements == doc.of[Name]
Reading == result = "none" /\ stage <= Len(Walk(doc.type))
Ready == Reading /\ offers = <<>> /\ at <= Len(Elements)

----------------------------------------------------------------------------
(* What an element tells, and in which order *)

\* The shape event of a stage that walks a draw page.
Drawn(s) == CASE s = "sheets" -> <<>> [] s = "slides" -> <<"slide">> [] OTHER -> <<"shape">>

Own(s, e) ==
  CASE e.is \in {"odd", "page", "other"} -> <<>>
    [] e.is \in {"shape", "group"} -> Drawn(s)
    [] e.is = "picture" -> (IF s = "shapes" THEN <<>> ELSE Drawn(s)) \o <<"image">>
    [] e.is = "control" -> <<"field">>
    [] e.is = "annotation" -> <<"comment">>
    [] e.is = "notes" -> <<"slide">>
    [] e.is \in {"named", "database", "row", "note", "chart", "pivot"} -> <<"sheet">>
    [] OTHER -> <<e.is>>

\* A table of the body is sent before its marks are walked; a table in a text
\* frame is not walked for marks at all.
Marks(s, e) ==
  IF e.mark = "none" \/ (e.is = "table" /\ s = "frames") THEN <<>> ELSE <<e.mark>>
Tells(s, e) ==
  IF e.is = "table" THEN Own(s, e) \o Marks(s, e) ELSE Marks(s, e) \o Own(s, e)

\* Outside the body marks are met only in what is read for its own event.
IsRead(s, e) == s = "body" \/ \E i \in 1..Len(Own(s, e)) : Own(s, e)[i] \in parts
Item == <<Name, at>>
Told(kinds) ==
  LET told[n \in 0..Len(kinds)] ==
        IF n = 0 THEN <<>>
        ELSE IF kinds[n] \in parts THEN Append(told[n - 1], [kind |-> kinds[n], item |-> Item])
        ELSE told[n - 1]
  IN  told[Len(kinds)]

\* The end of what an element encloses, and of its like beside it.
First(found) ==
  IF found = {} THEN Len(Elements) + 1 ELSE CHOOSE i \in found : \A j \in found : i <= j
Enclosed == First({i \in (at + 1)..Len(Elements) : Elements[i].depth <= Elements[at].depth})
Series ==
  First({i \in (at + 1)..Len(Elements) :
           \/ Elements[i].depth < Elements[at].depth
           \/ (Elements[i].depth = Elements[at].depth /\ Elements[i].is # Elements[at].is)})

\* A top-level shape has depth 1. Groups are entered whatever is selected, for
\* the pictures in them.
TooDeep(e) == e.is = "group" /\ e.depth > MaxShapeGroupDepth
EnteredIfWanted(e) == ~TooDeep(e) /\ (e.is = "group" => IsRead(Name, e))   \* mutant
Entered(e) == ~TooDeep(e)

----------------------------------------------------------------------------
Start(walk, wanted) ==
  /\ pass' = walk /\ parts' = wanted
  /\ stage' = 1 /\ at' = 1 /\ offers' = <<>> /\ count' = [kind \in Kinds |-> 0]
  /\ seen' = {} /\ failed' = FALSE /\ sent' = <<>> /\ warnings' = 0 /\ result' = "none"

Init ==
  /\ doc \in Documents
  /\ \/ doc.type = "text" /\ pass = "scan" /\ parts = Kinds
     \/ pass = "send" /\ parts \in Selections
  /\ stage = 1 /\ at = 1 /\ offers = <<>> /\ count = [kind \in Kinds |-> 0]
  /\ seen = {} /\ failed = FALSE /\ sent = <<>> /\ shown = {} /\ warnings = 0
  /\ result = "none"

\* The next stage that some selected part is walked for.
Visited(s) == Wanted[Walk(doc.type)[s]] \cap parts # {}

\* marks->finish answers for the whole walk of a text document.
FinishedWell == "true"   \* mutant: the collector is not asked
Finish == IF failed THEN "false" ELSE "true"
NextStage ==
  /\ result = "none" /\ offers = <<>>
  /\ ~(Visited(stage) /\ at <= Len(Elements))
  /\ IF stage < Len(Walk(doc.type))
     THEN stage' = stage + 1 /\ at' = 1 /\ UNCHANGED result
     ELSE result' = Finish /\ UNCHANGED place
  /\ UNCHANGED <<doc, parts, pass, offers, count, seen, failed, sent, shown, warnings>>

\* An element is read. One that is not what it should be is warned of; so is
\* a group that lies too deep (once, but a count is only compared with none).
ReadAs(kinds) ==
  LET e == Elements[at]
  IN  /\ offers' = Told(kinds)
      /\ seen' = IF kinds = Tells(Name, e) /\ Marks(Name, e) = <<"comment">> THEN seen \cup {Item} ELSE seen
      /\ at' = IF Entered(e) THEN at + 1 ELSE Enclosed
Read ==
  /\ Ready /\ Visited(stage) /\ Name # "finish"
  /\ LET e == Elements[at]
     IN  /\ ReadAs(IF IsRead(Name, e) THEN Tells(Name, e) ELSE <<>>)
         /\ warnings' = IF e.is = "odd" \/ TooDeep(e) THEN warnings + 1 ELSE warnings
  /\ UNCHANGED <<doc, parts, pass, stage, count, failed, sent, shown, result>>

\* The office core fails inside an element that is told nevertheless, with
\* what was read of it by then: with its mark or without.
ReadInPart ==
  /\ Ready /\ Visited(stage) /\ Name # "finish" /\ warnings < MaxWarnings
  /\ LET e == Elements[at]
     IN  IsRead(Name, e) /\ (ReadAs(Own(Name, e)) \/ ReadAs(Tells(Name, e)))
  /\ warnings' = warnings + 1
  /\ UNCHANGED <<doc, parts, pass, stage, count, failed, sent, shown, result>>

\* It fails before the element is known, which is lost with all it encloses;
\* with the rest of a series that is read under one handler; or, under the
\* handler of a sheet's draw page, with the rest of that page.
Kept(e) ==
  \/ e.is \in {"metadata", "paragraph", "footnote", "index", "frame"}
  \/ e.is = "table" /\ Name = "body"
  \/ e.is = "object" /\ doc.type = "text"
InSeries == {"table", "named", "database", "note", "chart", "pivot", "annotation", "notes"}
PageEnd == First({i \in (at + 1)..Len(Elements) : Elements[i].depth = 0})
LostTo(e) ==
  IF e.is \in InSeries THEN {Series}
  ELSE IF Name = "sheets" /\ e.is \in {"shape", "group", "picture"} THEN {Enclosed, PageEnd}
  ELSE {Enclosed}
GiveUp ==
  /\ Ready /\ Visited(stage) /\ Name # "finish" /\ warnings < MaxWarnings
  /\ ~Kept(Elements[at]) /\ at' \in LostTo(Elements[at])
  /\ warnings' = warnings + 1
  /\ UNCHANGED <<doc, parts, pass, stage, offers, count, seen, failed, sent, shown, result>>

\* A text document whose body cannot be enumerated ends the walk there.
NoBody ==
  /\ Ready /\ Visited(stage) /\ Name = "body" /\ at = 1 /\ warnings < MaxWarnings
  /\ warnings' = warnings + 1 /\ result' = "true"
  /\ UNCHANGED <<doc, parts, pass, place, offers, count, seen, failed, sent, shown>>

\* An exception that nothing on the way catches: "extraction aborted", and
\* the walk returns true.
Abort ==
  /\ Ready /\ Visited(stage) /\ warnings < MaxWarnings
  /\ warnings' = warnings + 1 /\ result' = "aborted"
  /\ UNCHANGED <<doc, parts, pass, place, offers, count, seen, failed, sent, shown>>

\* The comments that no walk has met, wherever they are.
Commented ==
  UNION {{<<s, i>> : i \in {i \in 1..Len(doc.of[s]) : doc.of[s][i].mark = "comment"}} :
           s \in DOMAIN doc.of}
Sweep ==
  /\ Ready /\ Visited(stage) /\ Name = "finish"
  /\ LET rest == IF "comment" \in parts THEN Commented \ seen ELSE {}
     IN  \E order \in [1..Cardinality(rest) -> rest] :
           /\ \A i \in 1..Len(order), j \in 1..Len(order) : order[i] = order[j] => i = j
           /\ offers' = [i \in 1..Len(order) |-> [kind |-> "comment", item |-> order[i]]]
  /\ at' = at + 1
  /\ UNCHANGED <<doc, parts, pass, stage, count, seen, failed, sent, shown, warnings, result>>

\* Numbered by what was sent of the kind before, over all stages: body
\* tables and those of frames, pictures of all pages. The rest say where
\* they stand.
Counted(kind) ==
  kind \in {"object", "paragraph", "table", "image", "comment", "field"}
    \/ (kind = "shape" /\ doc.type = "text")
IndexByStage(kind, item) ==   \* mutant: each stage counts its own
  IF Counted(kind)
  THEN Cardinality({i \in 1..Len(sent) : sent[i].kind = kind /\ sent[i].item[1] = item[1]})
  ELSE item[2]
Index(kind, item) == IF Counted(kind) THEN count[kind] ELSE item[2]

IsMark(kind) == doc.type = "text" /\ kind \in {"comment", "field"}
\* Where marks->failed() is looked at: after each element of the body and
\* after each control of the draw page.
Checked(item) == \/ item[1] = "body"
                 \/ item[1] = "shapes" /\ doc.of["shapes"][item[2]].is = "control"

\* One event goes to emit_fn. The collector keeps a refusal to itself, and
\* offers nothing any more; any other refusal ends the walk.
Offer ==
  /\ Reading /\ offers # <<>>
  /\ LET next == Head(offers)
         silent == failed /\ IsMark(next.kind)
     IN  \E taken \in BOOLEAN :
           /\ silent => taken
           /\ sent' = IF silent THEN sent
                      ELSE Append(sent, [kind |-> next.kind, item |-> next.item,
                                         index |-> Index(next.kind, next.item), taken |-> taken])
           /\ failed' = (failed \/ (~taken /\ IsMark(next.kind)))
           /\ result' = IF \/ ~taken /\ ~IsMark(next.kind)
                           \/ failed' /\ Len(offers) = 1 /\ Checked(next.item)
                        THEN "false" ELSE "none"
           /\ count' = [count EXCEPT ![next.kind] = @ + 1]
           /\ offers' = Tail(offers)
  /\ UNCHANGED <<doc, parts, pass, place, seen, shown, warnings>>

\* apply_redaction goes on only after a scan that saw the whole document and
\* found nothing; then the document is painted, and sent as selected.
PassedIfFinished == result = "true"   \* mutant: warnings do not matter
Passed == result = "true" /\ warnings = 0
Redacted ==
  /\ pass = "scan" /\ result # "none" /\ UNCHANGED doc
  /\ IF Passed
     THEN /\ \E wanted \in Selections : Start("redacted", wanted)
          /\ shown' = {<<sent[i].kind, sent[i].item>> : i \in 1..Len(sent)}
     ELSE /\ pass' = "refused"
          /\ UNCHANGED <<parts, place, offers, count, seen, failed, sent, shown, warnings, result>>

Done == result # "none" /\ pass # "scan" /\ UNCHANGED vars

Next ==
  \/ NextStage \/ Read \/ ReadInPart \/ GiveUp \/ NoBody \/ Abort \/ Sweep \/ Offer
  \/ Redacted \/ Done

Spec == Init /\ [][Next]_vars

----------------------------------------------------------------------------
Places == UNION {{<<s, i>> : i \in 1..Len(doc.of[s])} : s \in DOMAIN doc.of}
Offered == [kind : Kinds, item : Places]
Event == [kind : Kinds, item : Places, index : Nat, taken : BOOLEAN]
TypeOK ==
  /\ doc \in Documents /\ parts \subseteq Kinds
  /\ offers \in Seq(Offered)
  /\ sent \in Seq(Event)
  /\ shown \subseteq Kinds \X Places
  /\ pass \in {"scan", "send", "redacted", "refused"}
  /\ stage \in 1..Len(Walk(doc.type)) /\ at \in Nat \ {0}
  /\ count \in [Kinds -> Nat] /\ seen \subseteq Commented
  /\ failed \in BOOLEAN /\ warnings \in Nat
  /\ result \in {"none", "true", "false", "aborted"}

\* One index space for each kind: the events of a kind are numbered from 0 in
\* the order they are sent, across the stages and pages that share a counter,
\* whatever was not selected, could not be read or is only met in the sweep.
NumberedInOrder ==
  \A i \in 1..Len(sent) :
    Counted(sent[i].kind) =>
      sent[i].index = Cardinality({j \in 1..(i - 1) : sent[j].kind = sent[i].kind})

\* What a document holds of a kind, from the document alone. Tables in text frames
\* come with the frames.
Holds(s, i, kind) ==
  LET e == doc.of[s][i]
      drawn == CASE s = "slides" -> {"slide"} [] s \in {"shapes", "pages"} -> {"shape"} [] OTHER -> {}
  IN  CASE kind = "image" -> e.is = "picture"
        [] kind = "shape" -> \/ e.is \in {"shape", "group"} /\ kind \in drawn
                             \/ e.is = "picture" /\ s = "pages"
        [] kind = "slide" -> \/ e.is \in {"slide", "notes"}
                             \/ e.is \in {"shape", "group", "picture"} /\ kind \in drawn
        [] kind = "sheet" -> e.is \in {"sheet", "named", "database", "row", "note", "chart", "pivot"}
        [] kind = "comment" -> e.is = "annotation" \/ e.mark = "comment"
        [] OTHER -> e.is = kind

PlacesOf(kind) ==
  {p \in Places : /\ Holds(p[1], p[2], kind)
                  /\ kind = "table" /\ p[1] = "frames" => "frame" \in parts}

\* a is met before b.
Precedes(a, b) ==
  \E s, t \in 1..Len(Walk(doc.type)) :
    a[1] = Walk(doc.type)[s] /\ b[1] = Walk(doc.type)[t] /\ (s < t \/ (s = t /\ a[2] < b[2]))

\* A selection leaves out whole kinds and nothing else: what is selected comes
\* of the same elements and in the same order as from the whole document. The
\* comments of a text come all, once, but the sweep tells what no selected walk
\* has met, so their order depends on the selection; form fields are not swept.
Whole == result = "true" /\ warnings = 0 /\ \A i \in 1..Len(sent) : sent[i].taken
Sent(kind) == {sent[i].item : i \in {j \in 1..Len(sent) : sent[j].kind = kind}}
Follows(kind, a, b) == IF IsMark(kind) THEN kind = "comment" => a # b ELSE Precedes(a, b)
SelectionOnlyFilters ==
  /\ \A i \in 1..Len(sent) : sent[i].kind \in parts
  /\ Whole =>
       /\ \A kind \in parts \ {"field"} : Sent(kind) = PlacesOf(kind)
       /\ \A i, j \in 1..Len(sent) :
            i < j /\ sent[i].kind = sent[j].kind =>
              Follows(sent[i].kind, sent[i].item, sent[j].item)

\* "The guard on outgoing events should never find what this missed": after a
\* redaction nothing is sent that the scan has not looked at, whatever the
\* selection, and whatever fails in the second walk.
NothingUnscanned ==
  pass = "redacted" =>
    \A i \in 1..Len(sent) : <<sent[i].kind, sent[i].item>> \in shown

\* A refusal of emit_fn is never lost: the walk that met one does not return
\* true (unless it is aborted), and one that returns false has met one; and
\* but for the marks' own, it ends the walk at once.
RefusalReported ==
  /\ result = "true" => \A i \in 1..Len(sent) : sent[i].taken
  /\ result = "false" => \E i \in 1..Len(sent) : ~sent[i].taken
  /\ \A i \in 1..(Len(sent) - 1) : sent[i].taken \/ IsMark(sent[i].kind)
=============================================================================
