----------------------------- MODULE Redaction -----------------------------
(***************************************************************************)
(* How apply_redaction (src/src/uno_extract.cpp) takes text out of a       *)
(* loaded text document: the spans of the request resolve to pieces of     *)
(* text, every occurrence of a piece is rewritten to glyphs wherever the   *)
(* walk reaches, and three checks refuse the request when a piece is still *)
(* there. Nothing has been emitted yet, so a refusal sends nothing.        *)
(*                                                                         *)
(* A paragraph is a sequence of cells, one per code point: its character,  *)
(* the text segment it belongs to, and whether the segment is nested in a  *)
(* content control, where the walk reads it but the annotation text space  *)
(* and the typed events do not. One string stands for each family of the   *)
(* document's other text: apart, which is rewritten (comments, alt text,   *)
(* cells, headers, properties); name, which is only checked; author, which *)
(* only a typed event carries; index, which is generated from the first    *)
(* paragraph; and the content of an embedded object.                       *)
(***************************************************************************)
EXTENDS Integers, Sequences, FiniteSets

CONSTANTS Letters,     \* characters that are not space
          Space,       \* any character redaction_space accepts
          Glyph,       \* kRedactionGlyph
          Documents,   \* documents as loaded
          Requests     \* the redact_spans of a request: sets of <<first, last>>

Char == Letters \cup {Space, Glyph}
Text == Seq(Char)
Cell == [char : Char, segment : Nat, nested : BOOLEAN]
Document == [body : Seq(Seq(Cell)), apart : Text, name : Text, author : Text,
             index : Text, object : Text, foreign : BOOLEAN]

ASSUME RedactionAssumption ==
  /\ Space \notin Letters /\ Glyph \notin Letters /\ Space # Glyph
  /\ Documents \subseteq Document
  /\ \A d \in Documents : d.body # <<>>
  /\ Requests \subseteq SUBSET (Nat \X Nat)

VARIABLES original,   \* history: the document as loaded
          doc,        \* the loaded document
          spans,      \* RenderOptions::redact_spans
          pieces,     \* the text the spans resolved to
          step,       \* the stage of apply_redaction
          refusal,    \* why it refused
          missed      \* history: a rewrite failed and was only warned of

vars == <<original, doc, spans, pieces, step, refusal, missed>>

Refusals == {"threw", "unread", "past end", "object", "name", "remains", "typed"}
Stages == {"resolve", "inspect", "rewrite strings", "rewrite body", "check names",
           "update index", "verify", "typed check"}

----------------------------------------------------------------------------
(* Occurrences of the pieces in a text *)

OccursAt(piece, text, at) ==
  /\ at + Len(piece) - 1 <= Len(text)
  /\ \A k \in 1..Len(piece) : text[at + k - 1] = piece[k]

Carries(text, sought) ==
  \E piece \in sought, at \in 1..Len(text) : OccursAt(piece, text, at)

\* covered_intervals, as the set of the positions they cover.
Covered(text, sought) ==
  {i \in 1..Len(text) : \E piece \in sought, at \in 1..i :
     i < at + Len(piece) /\ OccursAt(piece, text, at)}

Masked(text, where) ==
  [i \in 1..Len(text) |-> IF i \in where THEN Glyph ELSE text[i]]

----------------------------------------------------------------------------
(* A paragraph as the walk reads it, and as it is annotated *)

Joined(paragraph) == [i \in 1..Len(paragraph) |-> paragraph[i].char]

\* Content controls are left out, and the rest keeps its order.
Annotated(paragraph) ==
  LET kept == {i \in 1..Len(paragraph) : ~paragraph[i].nested}
      place(k) == CHOOSE i \in kept : Cardinality({j \in kept : j <= i}) = k
  IN  [k \in 1..Cardinality(kept) |-> paragraph[place(k)].char]

\* annotation_space: where each paragraph starts, a newline after each one,
\* and at last the length.
Starts(body) ==
  LET start[p \in 1..(Len(body) + 1)] ==
        IF p = 1 THEN 0 ELSE start[p - 1] + Len(Annotated(body[p - 1])) + 1
  IN  start

\* redaction_space is trimmed from both ends: at most one text is left.
Trimmed(text) ==
  LET solid == {i \in 1..Len(text) : text[i] # Space}
  IN  {[k \in 1..(ends[2] - ends[1] + 1) |-> text[ends[1] + k - 1]] :
         ends \in {ends \in solid \X solid :
                    \A i \in solid : ends[1] <= i /\ i <= ends[2]}}

\* The part of a paragraph between two positions of the annotation space.
Piece(span, text, start) ==
  Trimmed(SubSeq(text, span[1] - start + 1, span[2] - start))

\* What lies of a span in a paragraph. Mutant: its end is taken as inclusive.
ClippedShort(span, body, p) ==
  LET start == Starts(body)[p]
      end == start + Len(Annotated(body[p]))
  IN  <<IF span[1] < start THEN start ELSE span[1], IF span[2] > end THEN end ELSE span[2] - 1>>
Clipped(span, body, p) ==
  LET start == Starts(body)[p]
      end == start + Len(Annotated(body[p]))
  IN  <<IF span[1] < start THEN start ELSE span[1], IF span[2] > end THEN end ELSE span[2]>>
Resolved(asked, body) ==
  {piece \in UNION {Piece(Clipped(s, body, p), Annotated(body[p]), Starts(body)[p]) :
                      s \in asked, p \in 1..Len(body)} :
     \E k \in 1..Len(piece) : piece[k] # Glyph}

----------------------------------------------------------------------------
Init ==
  /\ original \in Documents /\ doc = original
  /\ spans \in Requests
  /\ pieces = {} /\ step = "resolve" /\ refusal = "none" /\ missed = FALSE

To(next) == step' = next /\ UNCHANGED refusal
Refuse(why) == step' = "refused" /\ refusal' = why

\* The office core throws out of a stage: no stage is repeated or skipped.
Throw ==
  /\ step \in Stages
  /\ Refuse("threw") /\ UNCHANGED <<original, doc, spans, pieces, missed>>

\* Spans that are empty or reversed are ignored. A portion that cannot be
\* read would shift every offset after it.
Resolve ==
  /\ step = "resolve"
  /\ UNCHANGED <<original, doc, spans, missed>>
  /\ LET asked == {s \in spans : s[1] < s[2]}
         found == Resolved(asked, doc.body)
     IN  \/ asked = {} /\ To("done") /\ UNCHANGED pieces
         \/ asked # {} /\ Refuse("unread") /\ UNCHANGED pieces
         \/ /\ \E s \in asked : s[2] > Starts(doc.body)[Len(doc.body) + 1]
            /\ Refuse("past end") /\ UNCHANGED pieces
         \/ /\ asked # {}
            /\ \A s \in asked : s[2] <= Starts(doc.body)[Len(doc.body) + 1]
            /\ pieces' = found
            /\ IF found = {} THEN To("done") ELSE To("inspect")

\* check_embedded_objects: what an object shows cannot be rewritten.
Inspect ==
  /\ step = "inspect"
  /\ IF doc.foreign \/ Carries(doc.object, pieces)
     THEN Refuse("object") ELSE To("rewrite strings")
  /\ UNCHANGED <<original, doc, spans, pieces, missed>>

\* redact_value
Cleaned(text) == Masked(text, Covered(text, pieces))

\* One string is rewritten whole; if that fails it stays, with a warning.
RewriteStrings ==
  /\ step = "rewrite strings"
  /\ \/ doc' = [doc EXCEPT !.apart = Cleaned(@)] /\ UNCHANGED missed
     \/ Carries(doc.apart, pieces) /\ missed' = TRUE /\ UNCHANGED doc
  /\ To("rewrite body") /\ UNCHANGED <<original, spans, pieces>>

\* redact_paragraph and rewrite_segment: what an occurrence covers of each
\* segment is edited by itself, the rightmost stretch first, and an edit that
\* fails leaves that stretch and those before it in the segment. left[s] is
\* the last character that stays, or 0.
Touched(body) ==
  UNION {{body[p][i].segment : i \in Covered(Joined(body[p]), pieces)} : p \in 1..Len(body)}

StretchEnds(body, s) ==
  UNION {LET mine == {i \in Covered(Joined(body[p]), pieces) : body[p][i].segment = s}
         IN  {i \in mine : i + 1 \notin mine} : p \in 1..Len(body)}

SegmentRewritten(paragraph, left) ==   \* mutant: what is touched goes whole
  LET touched == {paragraph[i].segment : i \in Covered(Joined(paragraph), pieces)}
  IN  [i \in 1..Len(paragraph) |->
         IF paragraph[i].segment \in touched /\ i > left[paragraph[i].segment]
         THEN [paragraph[i] EXCEPT !.char = Glyph] ELSE paragraph[i]]
Rewritten(paragraph, left) ==
  LET covered == Covered(Joined(paragraph), pieces)
  IN  [i \in 1..Len(paragraph) |->
         IF i \in covered /\ i > left[paragraph[i].segment]
         THEN [paragraph[i] EXCEPT !.char = Glyph] ELSE paragraph[i]]

BodyRewritten(body, left) == [p \in 1..Len(body) |-> Rewritten(body[p], left)]

Edits(body) ==
  {left \in [Touched(body) -> {0} \cup UNION {StretchEnds(body, s) : s \in Touched(body)}] :
     \A s \in Touched(body) : left[s] \in StretchEnds(body, s) \cup {0}}

\* The paragraphs of an index are paragraphs of the body.
RewriteBody ==
  /\ step = "rewrite body"
  /\ \E left \in Edits(doc.body) :
       \/ /\ doc' = [doc EXCEPT !.body = BodyRewritten(@, left), !.index = Cleaned(@)]
          /\ missed' = (missed \/ \E s \in DOMAIN left : left[s] > 0)
       \/ /\ Carries(doc.index, pieces)
          /\ doc' = [doc EXCEPT !.body = BodyRewritten(@, left)]
          /\ missed' = TRUE
  /\ To("check names") /\ UNCHANGED <<original, spans, pieces>>

\* check_name: other objects refer to an object by its name.
CheckNames ==
  /\ step = "check names"
  /\ IF Carries(doc.name, pieces) THEN Refuse("name") ELSE To("update index")
  /\ UNCHANGED <<original, doc, spans, pieces, missed>>

HeadingBefore == Joined(original.body[1])   \* mutant: the index comes first
Heading == Joined(doc.body[1])

\* Regenerated last, from a heading that is rewritten by now.
UpdateIndex ==
  /\ step = "update index"
  /\ \/ doc' = [doc EXCEPT !.index = Heading] /\ UNCHANGED missed
     \/ missed' = TRUE /\ UNCHANGED doc
  /\ To("verify") /\ UNCHANGED <<original, spans, pieces>>

\* The second walk of redact_text_document, which only looks. What it cannot
\* read it does not vouch for.
Walked ==
  {Joined(doc.body[p]) : p \in 1..Len(doc.body)} \cup {doc.apart, doc.name, doc.index}
Verify ==
  /\ step = "verify"
  /\ \/ Refuse("unread")
     \/ IF \E text \in Walked : Carries(text, pieces)
        THEN Refuse("remains") ELSE To("typed check")
  /\ UNCHANGED <<original, doc, spans, pieces, missed>>

\* The document as every typed event would carry it.
Typed ==
  {Annotated(doc.body[p]) : p \in 1..Len(doc.body)}
    \cup {doc.apart, doc.name, doc.author, doc.index}
TypedCheck ==
  /\ step = "typed check"
  /\ \/ Refuse("unread")
     \/ IF \E text \in Typed : Carries(text, pieces) THEN Refuse("typed") ELSE To("done")
  /\ UNCHANGED <<original, doc, spans, pieces, missed>>

Finished == step \in {"done", "refused"} /\ UNCHANGED vars

Next ==
  \/ Resolve \/ Inspect \/ RewriteStrings \/ RewriteBody \/ CheckNames
  \/ UpdateIndex \/ Verify \/ TypedCheck \/ Throw \/ Finished

Spec == Init /\ [][Next]_vars

----------------------------------------------------------------------------
TypeOK ==
  /\ original \in Document /\ doc \in Document /\ doc.body # <<>>
  /\ spans \in Requests /\ \A piece \in pieces : Len(piece) \in Nat \ {0}
  /\ step \in Stages \cup {"done", "refused"}
  /\ refusal \in Refusals \cup {"none"} /\ missed \in BOOLEAN

\* When the request goes on, no piece is left in any text that the walks or
\* the typed events reach, whichever rewrites failed on the way.
NothingRemains ==
  step = "done" =>
    /\ \A p \in 1..Len(doc.body) : ~Carries(Joined(doc.body[p]), pieces)
    /\ \A p \in 1..Len(doc.body) : ~Carries(Annotated(doc.body[p]), pieces)
    /\ \A text \in {doc.apart, doc.name, doc.author, doc.index, doc.object} :
         ~Carries(text, pieces)

\* A rewrite changes nothing but characters of an occurrence, into glyphs,
\* and moves nothing: a mark's or a span's offset still means what it meant.
OnlyOccurrencesRewritten ==
  /\ Len(doc.body) = Len(original.body)
  /\ \A p \in 1..Len(doc.body) :
       /\ Len(doc.body[p]) = Len(original.body[p])
       /\ \A i \in 1..Len(doc.body[p]) :
            \/ doc.body[p][i] = original.body[p][i]
            \/ /\ doc.body[p][i] = [original.body[p][i] EXCEPT !.char = Glyph]
               /\ i \in Covered(Joined(original.body[p]), pieces)

\* The cells a request addresses, by counting in the annotation text space
\* rather than by resolving spans to text.
Before(paragraph, i) == Cardinality({j \in 1..(i - 1) : ~paragraph[j].nested})
Addressed(p) ==
  {i \in 1..Len(original.body[p]) :
     /\ ~original.body[p][i].nested
     /\ LET position == Starts(original.body)[p] + Before(original.body[p], i)
        IN  \E s \in spans : s[1] <= position /\ position < s[2]}
Nests == \E p \in 1..Len(doc.body) : \E i \in 1..Len(doc.body[p]) : doc.body[p][i].nested

\* "That text leaves the document model": every character a span addresses,
\* space apart, is a glyph when the request goes on.
AddressedTextGone ==
  step = "done" =>
    \A p \in 1..Len(doc.body) : \A i \in Addressed(p) :
      original.body[p][i].char = Space \/ doc.body[p][i].char = Glyph

\* It is so when no rewrite failed and no text is nested out of the
\* annotation space, whichever way the spans overlap and cross paragraphs.
AddressedGoneIfRewritten == ~missed /\ ~Nests => AddressedTextGone

\* The checks after the rewrite refuse nothing that was rewritten as it
\* should be: the verify walk only after a failed rewrite or for a piece with
\* glyphs of its own, the typed check, whatever failed before it, only for
\* nested text or for a text that it reads and the walks do not.
HasGlyph == \E piece \in pieces : \E k \in 1..Len(piece) : piece[k] = Glyph
VerifyRefusesForCause == refusal = "remains" => missed \/ HasGlyph
TypedRefusesForCause == refusal = "typed" => Nests \/ Carries(original.author, pieces)
RefusedForCause == VerifyRefusesForCause /\ TypedRefusesForCause
=============================================================================
