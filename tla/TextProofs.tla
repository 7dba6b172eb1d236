----------------------------- MODULE TextProofs -----------------------------
(***************************************************************************)
(* What is proved of the two passes over a text document.                  *)
(*                                                                         *)
(* Redaction, for documents, requests and failures of any size: nothing    *)
(* but occurrences is rewritten, nothing is left when the request goes on, *)
(* what was addressed by offset is gone from where it stood, a rewrite     *)
(* that took effect is not refused by the verify walk, and neither check   *)
(* refuses without a cause.                                                *)
(*                                                                         *)
(* MarkerCollector, for any number of marks in a text of any length: each  *)
(* mark is told once, with the offsets of its own boundaries and the text  *)
(* between them; only the marks that a boundary without its name may have  *)
(* been taken for are excepted.                                            *)
(***************************************************************************)
EXTENDS Redaction, MarkerCollector, FiniteSetTheorems, SequenceTheorems,
        WellFoundedInduction, TLAPS

----------------------------------------------------------------------------
(* Redaction *)

\* A text that is as long as another has its length.
LEMMA MaskedLength ==
  ASSUME NEW text, Len(text) \in Nat, NEW where
  PROVE  /\ Len(Masked(text, where)) = Len(text)
         /\ \A i \in 1..Len(text) :
              Masked(text, where)[i] = IF i \in where THEN Glyph ELSE text[i]
BY DEF Masked

\* Masking every occurrence leaves none, and makes no new one of glyphs and
\* what is left, unless a piece has a glyph itself or is empty.
LEMMA MaskedCarriesNothing ==
  ASSUME NEW text, Len(text) \in Nat, NEW sought,
         \A piece \in sought : Len(piece) \in Nat /\ Len(piece) > 0,
         \A piece \in sought : \A k \in 1..Len(piece) : piece[k] # Glyph
  PROVE  ~Carries(Masked(text, Covered(text, sought)), sought)
<1> DEFINE after == Masked(text, Covered(text, sought))
<1>1. Len(after) = Len(text)
  BY MaskedLength
<1> SUFFICES ASSUME NEW piece \in sought, NEW at \in 1..Len(text),
                    OccursAt(piece, after, at)
             PROVE  FALSE
  BY <1>1 DEF Carries
<1>2. at + Len(piece) - 1 <= Len(text)
  BY <1>1 DEF OccursAt
<1>3. ASSUME NEW k \in 1..Len(piece) PROVE text[at + k - 1] = piece[k]
  <2>1. at + k - 1 \in 1..Len(text)
    BY <1>2
  <2>2. after[at + k - 1] = piece[k]
    BY DEF OccursAt
  <2>3. after[at + k - 1] # Glyph
    BY <2>2
  <2> QED BY <2>1, <2>2, <2>3, MaskedLength
<1>4. OccursAt(piece, text, at)
  BY <1>2, <1>3 DEF OccursAt
<1>5. at \in Covered(text, sought)
  <2>1. at \in 1..at /\ at < at + Len(piece)
    OBVIOUS
  <2> QED BY <2>1, <1>4 DEF Covered
<1>6. after[at] = Glyph
  BY <1>5, MaskedLength
<1>7. after[at] = piece[1] /\ 1 \in 1..Len(piece)
  BY DEF OccursAt
<1> QED BY <1>6, <1>7

\* Nothing is carried of no pieces.
LEMMA CarriesNone == \A text : ~Carries(text, {})
BY DEF Carries

\* Masking a text of the document leaves a text of it.
LEMMA MaskedIsText ==
  ASSUME NEW text \in Text, NEW where
  PROVE  Masked(text, where) \in Text
BY DEF Masked, Text, Char

\* A paragraph as a text: the characters of its cells.
LEMMA JoinedIsText ==
  ASSUME NEW paragraph \in Seq(Cell)
  PROVE  /\ Joined(paragraph) \in Text
         /\ Len(Joined(paragraph)) = Len(paragraph)
         /\ \A i \in 1..Len(paragraph) : Joined(paragraph)[i] = paragraph[i].char
<1>1. ASSUME NEW i \in 1..Len(paragraph) PROVE paragraph[i].char \in Char
  <2>1. paragraph[i] \in Cell
    OBVIOUS
  <2> QED BY <2>1 DEF Cell
<1>2. Len(paragraph) \in Nat
  OBVIOUS
<1> QED BY <1>1, <1>2 DEF Joined, Text

\* A rewritten paragraph differs in characters of occurrences only.
LEMMA RewrittenParagraph ==
  ASSUME NEW paragraph \in Seq(Cell), NEW left
  PROVE  /\ Rewritten(paragraph, left) \in Seq(Cell)
         /\ Len(Rewritten(paragraph, left)) = Len(paragraph)
         /\ \A i \in 1..Len(paragraph) :
              \/ Rewritten(paragraph, left)[i] = paragraph[i]
              \/ /\ Rewritten(paragraph, left)[i] = [paragraph[i] EXCEPT !.char = Glyph]
                 /\ i \in Covered(Joined(paragraph), pieces)
<1> DEFINE after == Rewritten(paragraph, left)
<1>1. after = [i \in 1..Len(paragraph) |-> after[i]]
  BY DEF Rewritten
<1>2. ASSUME NEW i \in 1..Len(paragraph)
      PROVE  \/ after[i] = paragraph[i]
             \/ /\ after[i] = [paragraph[i] EXCEPT !.char = Glyph]
                /\ i \in Covered(Joined(paragraph), pieces)
  BY DEF Rewritten
<1>3. ASSUME NEW i \in 1..Len(paragraph) PROVE after[i] \in Cell
  <2>1. paragraph[i] \in Cell /\ Glyph \in Char
    BY DEF Char
  <2>2. [paragraph[i] EXCEPT !.char = Glyph] \in Cell
    BY <2>1 DEF Cell
  <2> HIDE DEF after
  <2> QED BY <1>2, <2>1, <2>2
<1>4. after \in [1..Len(paragraph) -> Cell]
  <2> HIDE DEF after
  <2> QED BY <1>1, <1>3
<1>5. Len(paragraph) \in Nat
  OBVIOUS
<1> HIDE DEF after
<1>6. after \in Seq(Cell) /\ Len(after) = Len(paragraph)
  BY <1>4, <1>5
<1> QED BY <1>2, <1>6 DEF after

\* If no edit failed the rewritten paragraph reads as it would be masked.
LEMMA RewrittenIsMasked ==
  ASSUME NEW paragraph \in Seq(Cell), NEW left,
         \A i \in Covered(Joined(paragraph), pieces) : left[paragraph[i].segment] = 0
  PROVE  Joined(Rewritten(paragraph, left))
           = Masked(Joined(paragraph), Covered(Joined(paragraph), pieces))
<1> DEFINE after == Rewritten(paragraph, left)
<1> DEFINE covered == Covered(Joined(paragraph), pieces)
<1>1. /\ Len(after) = Len(paragraph) /\ Len(Joined(paragraph)) = Len(paragraph)
      /\ Len(paragraph) \in Nat
  BY RewrittenParagraph, JoinedIsText
<1>2. ASSUME NEW i \in 1..Len(paragraph)
      PROVE  after[i].char = IF i \in covered THEN Glyph ELSE Joined(paragraph)[i]
  <2>1. CASE i \in covered
    <3>1. left[paragraph[i].segment] = 0 /\ i > 0
      BY <2>1
    <3>2. after[i] = [paragraph[i] EXCEPT !.char = Glyph]
      BY <2>1, <3>1 DEF Rewritten
    <3>3. paragraph[i] \in Cell
      OBVIOUS
    <3>4. [paragraph[i] EXCEPT !.char = Glyph].char = Glyph
      BY <3>3 DEF Cell
    <3> QED BY <2>1, <3>2, <3>4
  <2>2. CASE i \notin covered
    <3>1. after[i] = paragraph[i]
      BY <2>2 DEF Rewritten
    <3> QED BY <2>2, <3>1, JoinedIsText
  <2> QED BY <2>1, <2>2
<1>3. Joined(after) = [i \in 1..Len(paragraph) |-> after[i].char]
  BY <1>1 DEF Joined
<1>4. Masked(Joined(paragraph), covered)
        = [i \in 1..Len(paragraph) |-> IF i \in covered THEN Glyph ELSE Joined(paragraph)[i]]
  BY <1>1 DEF Masked
<1> HIDE DEF after, covered
<1> QED BY <1>2, <1>3, <1>4 DEF after, covered

\* What the spans resolve to is never empty.
LEMMA ResolvedNotEmpty ==
  ASSUME NEW asked, NEW body, NEW piece \in Resolved(asked, body)
  PROVE  Len(piece) \in Nat \ {0}
<1>1. PICK s \in asked, p \in 1..Len(body) :
        piece \in Piece(Clipped(s, body, p), Annotated(body[p]), Starts(body)[p])
  BY DEF Resolved
<1>2. PICK text : piece \in Trimmed(text)
  BY <1>1 DEF Piece
<1>3. PICK first \in 1..Len(text), last \in 1..Len(text) :
        /\ piece = [k \in 1..(last - first + 1) |-> text[first + k - 1]]
        /\ first <= last
  BY <1>2 DEF Trimmed
<1>4. last - first + 1 \in Nat \ {0}
  BY <1>3
<1>5. Len(piece) = last - first + 1
  BY <1>3, <1>4
<1> QED BY <1>4, <1>5

----------------------------------------------------------------------------
\* The document keeps its shape: paragraphs of cells, and texts.
LEMMA DocumentParts ==
  ASSUME TypeOK
  PROVE  /\ doc.body \in Seq(Seq(Cell)) /\ Len(doc.body) \in Nat \ {0}
         /\ doc.apart \in Text /\ doc.name \in Text /\ doc.author \in Text
         /\ doc.index \in Text /\ doc.object \in Text
         /\ \A p \in 1..Len(doc.body) : doc.body[p] \in Seq(Cell)
<1>1. doc \in Document /\ doc.body # <<>>
  BY DEF TypeOK
<1>2. doc.body \in Seq(Seq(Cell))
  BY <1>1 DEF Document
<1>3. Len(doc.body) \in Nat \ {0}
  BY <1>1, <1>2
<1>4. \A p \in 1..Len(doc.body) : doc.body[p] \in Seq(Cell)
  BY <1>2
<1> QED BY <1>1, <1>2, <1>3, <1>4 DEF Document

\* A cleaned text is a text.
LEMMA CleanedIsText == ASSUME NEW text \in Text PROVE Cleaned(text) \in Text
BY MaskedIsText DEF Cleaned

\* A rewritten body has the paragraphs of the body, each rewritten.
LEMMA BodyRewrittenParts ==
  ASSUME TypeOK, NEW left
  PROVE  /\ BodyRewritten(doc.body, left) \in Seq(Seq(Cell))
         /\ Len(BodyRewritten(doc.body, left)) = Len(doc.body)
         /\ \A p \in 1..Len(doc.body) :
              BodyRewritten(doc.body, left)[p] = Rewritten(doc.body[p], left)
<1>1. \A p \in 1..Len(doc.body) : Rewritten(doc.body[p], left) \in Seq(Cell)
  BY DocumentParts, RewrittenParagraph
<1>2. Len(doc.body) \in Nat
  BY DocumentParts
<1>3. BodyRewritten(doc.body, left) \in [1..Len(doc.body) -> Seq(Cell)]
  BY <1>1 DEF BodyRewritten
<1> QED BY <1>2, <1>3 DEF BodyRewritten

\* What each change of the document leaves of its other fields.
LEMMA DocumentChanges ==
  ASSUME TypeOK, NEW text \in Text, NEW body \in Seq(Seq(Cell)), Len(body) = Len(doc.body)
  PROVE  /\ [doc EXCEPT !.apart = text] \in Document
         /\ [doc EXCEPT !.index = text] \in Document
         /\ [doc EXCEPT !.body = body] \in Document
         /\ [doc EXCEPT !.body = body, !.index = text] \in Document
         /\ body # <<>>
<1>1. doc \in Document
  BY DEF TypeOK
<1>2. body # <<>>
  BY DocumentParts
<1> QED BY <1>1, <1>2 DEF Document

\* The types, one step of apply_redaction at a time.
LEMMA TypeInit == ASSUME Init PROVE TypeOK
BY RedactionAssumption DEF Init, TypeOK, Stages

LEMMA TypeStep == ASSUME TypeOK, [Next]_vars PROVE TypeOK'
<1> USE DEF Stages, Refusals
<1>0. doc \in Document /\ doc.body # <<>> /\ missed \in BOOLEAN
  BY DEF TypeOK
<1>1. CASE Resolve
  <2>0. pieces' = pieces \/ pieces' = Resolved({s \in spans : s[1] < s[2]}, doc.body)
    BY <1>1 DEF Resolve
  <2>1. ASSUME NEW piece \in pieces' PROVE Len(piece) \in Nat \ {0}
    <3>1. CASE piece \in pieces
      BY <3>1 DEF TypeOK
    <3>2. CASE piece \in Resolved({s \in spans : s[1] < s[2]}, doc.body)
      BY <3>2, ResolvedNotEmpty
    <3> QED BY <2>0, <3>1, <3>2
  <2>2. step' \in Stages \cup {"done", "refused"} /\ refusal' \in Refusals \cup {"none"}
    BY <1>1 DEF Resolve, TypeOK, To, Refuse
  <2>3. UNCHANGED <<original, doc, spans, missed>>
    BY <1>1 DEF Resolve
  <2> QED BY <2>1, <2>2, <2>3 DEF TypeOK
<1>2. CASE RewriteStrings
  <2>1. [doc EXCEPT !.apart = Cleaned(doc.apart)] \in Document
    BY DocumentParts, CleanedIsText, DocumentChanges
  <2>2. doc' \in Document /\ doc'.body # <<>> /\ missed' \in BOOLEAN
    BY <1>0, <1>2, <2>1 DEF RewriteStrings, Document
  <2> QED BY <1>2, <2>2 DEF RewriteStrings, TypeOK, To
<1>3. CASE RewriteBody
  <2>1. PICK left \in Edits(doc.body) :
          \/ /\ doc' = [doc EXCEPT !.body = BodyRewritten(doc.body, left),
                                  !.index = Cleaned(doc.index)]
             /\ missed' = (missed \/ \E s \in DOMAIN left : left[s] > 0)
          \/ /\ doc' = [doc EXCEPT !.body = BodyRewritten(doc.body, left)]
             /\ missed' = TRUE
    BY <1>3 DEF RewriteBody
  <2>2. /\ [doc EXCEPT !.body = BodyRewritten(doc.body, left),
                      !.index = Cleaned(doc.index)] \in Document
        /\ [doc EXCEPT !.body = BodyRewritten(doc.body, left)] \in Document
        /\ BodyRewritten(doc.body, left) # <<>>
    BY DocumentParts, BodyRewrittenParts, CleanedIsText, DocumentChanges
  <2>3. doc' \in Document /\ doc'.body # <<>>
    BY <1>0, <2>1, <2>2 DEF Document
  <2>4. missed' \in BOOLEAN
    BY <2>1
  <2> QED BY <1>3, <2>3, <2>4 DEF RewriteBody, TypeOK, To
<1>4. CASE UpdateIndex
  <2>1. Heading \in Text
    BY DocumentParts, JoinedIsText DEF Heading
  <2>2. [doc EXCEPT !.index = Heading] \in Document
    BY <2>1, DocumentParts, DocumentChanges
  <2>3. doc' \in Document /\ doc'.body # <<>> /\ missed' \in BOOLEAN
    BY <1>0, <1>4, <2>2 DEF UpdateIndex, Document
  <2> QED BY <1>4, <2>3 DEF UpdateIndex, TypeOK, To
<1>5. CASE Inspect \/ CheckNames \/ Verify \/ TypedCheck \/ Throw \/ Finished \/ UNCHANGED vars
  BY <1>5 DEF TypeOK, Inspect, CheckNames, Verify, TypedCheck, Throw, Finished, To, Refuse, vars
<1> QED BY <1>1, <1>2, <1>3, <1>4, <1>5 DEF Next

\* The type invariant, for documents and requests of any size.
THEOREM TypeCorrect == Spec => []TypeOK
<1>1. Init => TypeOK
  BY TypeInit
<1>2. TypeOK /\ [Next]_vars => TypeOK'
  BY TypeStep
<1> QED BY <1>1, <1>2, PTL DEF Spec

----------------------------------------------------------------------------
(* Only occurrences are rewritten *)

\* The body is the loaded one until it is rewritten, and nothing is sought
\* before the spans are resolved.
Ordered ==
  /\ step \in {"resolve", "inspect", "rewrite strings", "rewrite body"} =>
       doc.body = original.body
  /\ step = "resolve" => pieces = {} /\ refusal = "none"

\* Nothing is sought or refused before the first stage.
LEMMA OrderedInit == ASSUME Init PROVE Ordered /\ OnlyOccurrencesRewritten
BY DEF Init, Ordered, OnlyOccurrencesRewritten

LEMMA OrderedStep == ASSUME TypeOK, Ordered, [Next]_vars PROVE Ordered'
<1>0. doc \in Document
  BY DEF TypeOK
<1>1. CASE RewriteStrings
  <2>1. doc'.body = doc.body
    BY <1>0, <1>1 DEF RewriteStrings, Document
  <2> QED BY <1>1, <2>1 DEF RewriteStrings, Ordered, To
<1>2. CASE Next /\ ~RewriteStrings
  BY <1>2 DEF Next, Ordered, Resolve, Inspect, RewriteBody, CheckNames, UpdateIndex,
              Verify, TypedCheck, Throw, Finished, To, Refuse, Stages, vars
<1> QED BY <1>1, <1>2 DEF Ordered, vars

\* The body and the pieces, once the rewrite may have begun, change together
\* with nothing else that OnlyOccurrencesRewritten speaks of.
LEMMA OnlyOccurrencesStep ==
  ASSUME TypeOK, Ordered, OnlyOccurrencesRewritten, [Next]_vars
  PROVE  OnlyOccurrencesRewritten'
<1>0. doc \in Document
  BY DEF TypeOK
<1>1. CASE Resolve
  <2>1. doc.body = original.body /\ doc' = doc /\ original' = original
    BY <1>1 DEF Resolve, Ordered
  <2> QED BY <2>1 DEF OnlyOccurrencesRewritten
<1>2. CASE RewriteBody
  <2>1. PICK left \in Edits(doc.body) :
          \/ doc' = [doc EXCEPT !.body = BodyRewritten(doc.body, left),
                               !.index = Cleaned(doc.index)]
          \/ doc' = [doc EXCEPT !.body = BodyRewritten(doc.body, left)]
    BY <1>2 DEF RewriteBody
  <2>2. doc'.body = BodyRewritten(doc.body, left)
    BY <1>0, <2>1 DEF Document
  <2>3. doc.body = original.body /\ original' = original /\ pieces' = pieces
    BY <1>2 DEF RewriteBody, Ordered
  <2>4. Len(doc'.body) = Len(doc.body)
    BY <2>2, BodyRewrittenParts
  <2>5. ASSUME NEW p \in 1..Len(doc.body)
        PROVE  /\ Len(doc'.body[p]) = Len(doc.body[p])
               /\ \A i \in 1..Len(doc.body[p]) :
                    \/ doc'.body[p][i] = doc.body[p][i]
                    \/ /\ doc'.body[p][i] = [doc.body[p][i] EXCEPT !.char = Glyph]
                       /\ i \in Covered(Joined(doc.body[p]), pieces)
    <3>1. doc'.body[p] = Rewritten(doc.body[p], left)
      BY <2>2, BodyRewrittenParts
    <3>2. doc.body[p] \in Seq(Cell)
      BY DocumentParts
    <3>3. /\ Len(Rewritten(doc.body[p], left)) = Len(doc.body[p])
          /\ \A i \in 1..Len(doc.body[p]) :
               \/ Rewritten(doc.body[p], left)[i] = doc.body[p][i]
               \/ /\ Rewritten(doc.body[p], left)[i] = [doc.body[p][i] EXCEPT !.char = Glyph]
                  /\ i \in Covered(Joined(doc.body[p]), pieces)
      BY <3>2, RewrittenParagraph
    <3> QED BY <3>1, <3>3
  <2> QED BY <2>3, <2>4, <2>5 DEF OnlyOccurrencesRewritten
<1>3. CASE RewriteStrings \/ UpdateIndex
  <2>1. doc'.body = doc.body /\ original' = original /\ pieces' = pieces
    BY <1>0, <1>3 DEF RewriteStrings, UpdateIndex, Document
  <2> QED BY <2>1 DEF OnlyOccurrencesRewritten
<1>4. CASE Inspect \/ CheckNames \/ Verify \/ TypedCheck \/ Throw \/ Finished \/ UNCHANGED vars
  <2>1. UNCHANGED <<original, doc, pieces>>
    BY <1>4 DEF Inspect, CheckNames, Verify, TypedCheck, Throw, Finished, vars
  <2> QED BY <2>1 DEF OnlyOccurrencesRewritten
<1> QED BY <1>1, <1>2, <1>3, <1>4 DEF Next

\* Whatever is rewritten, and whatever fails, no character changes but those
\* of an occurrence, into glyphs, and nothing moves.
THEOREM OnlyOccurrences == Spec => []OnlyOccurrencesRewritten
<1>1. Init => TypeOK /\ Ordered /\ OnlyOccurrencesRewritten
  BY TypeInit, OrderedInit
<1>2. TypeOK /\ Ordered /\ OnlyOccurrencesRewritten /\ [Next]_vars
        => (TypeOK /\ Ordered /\ OnlyOccurrencesRewritten)'
  BY TypeStep, OrderedStep, OnlyOccurrencesStep
<1> QED BY <1>1, <1>2, PTL DEF Spec

----------------------------------------------------------------------------
(* Nothing remains *)

\* What each check has established when the next stage begins.
Checked ==
  /\ step \in (Stages \ {"resolve", "inspect"}) \cup {"done"} =>
       ~Carries(doc.object, pieces)
  /\ step = "typed check" => \A text \in Walked : ~Carries(text, pieces)
  /\ NothingRemains

LEMMA CheckedInit == ASSUME Init PROVE Checked
BY DEF Init, Checked, NothingRemains, Stages

LEMMA CheckedStep == ASSUME TypeOK, Ordered, Checked, [Next]_vars PROVE Checked'
<1> USE DEF Stages
<1>0. doc \in Document
  BY DEF TypeOK
<1>1. CASE Resolve
  <2>1. CASE step' = "done"
    <3>1. pieces' = {}
      BY <1>1, <2>1 DEF Resolve, Ordered, To, Refuse
    <3> QED BY <2>1, <3>1, CarriesNone DEF Checked, NothingRemains
  <2>2. CASE step' # "done"
    <3>1. step' \in {"inspect", "refused"}
      BY <1>1, <2>2 DEF Resolve, To, Refuse
    <3> QED BY <3>1 DEF Checked, NothingRemains
  <2> QED BY <2>1, <2>2
<1>2. CASE Inspect
  BY <1>2 DEF Inspect, Checked, NothingRemains, To, Refuse
<1>3. CASE RewriteStrings \/ RewriteBody \/ UpdateIndex
  <2>1. doc'.object = doc.object /\ pieces' = pieces
    BY <1>0, <1>3 DEF RewriteStrings, RewriteBody, UpdateIndex, Document
  <2>2. step \in Stages \ {"resolve", "inspect"} /\ step' \notin {"typed check", "done"}
    BY <1>3 DEF RewriteStrings, RewriteBody, UpdateIndex, To
  <2> QED BY <2>1, <2>2 DEF Checked, NothingRemains
<1>4. CASE CheckNames
  <2>1. UNCHANGED <<doc, pieces>> /\ step = "check names" /\ step' \in {"update index", "refused"}
    BY <1>4 DEF CheckNames, To, Refuse
  <2> QED BY <2>1 DEF Checked, NothingRemains
<1>5. CASE Verify
  <2>1. UNCHANGED <<doc, pieces>> /\ step = "verify"
    BY <1>5 DEF Verify
  <2>2. \/ step' = "refused"
        \/ step' = "typed check" /\ \A text \in Walked : ~Carries(text, pieces)
    BY <1>5 DEF Verify, To, Refuse
  <2>3. Walked' = Walked
    BY <2>1 DEF Walked
  <2> QED BY <2>1, <2>2, <2>3 DEF Checked, NothingRemains
<1>6. CASE TypedCheck
  <2>1. UNCHANGED <<doc, pieces>> /\ step = "typed check"
    BY <1>6 DEF TypedCheck
  <2>2. CASE step' = "refused"
    BY <2>2 DEF Checked, NothingRemains
  <2>3. CASE step' = "done"
    <3>1. \A text \in Typed : ~Carries(text, pieces)
      BY <1>6, <2>3 DEF TypedCheck, To, Refuse
    <3>2. /\ \A text \in Walked : ~Carries(text, pieces)
          /\ ~Carries(doc.object, pieces)
      BY <2>1 DEF Checked
    <3>3. \A p \in 1..Len(doc.body) : Joined(doc.body[p]) \in Walked
      BY DEF Walked
    <3>4. \A p \in 1..Len(doc.body) : Annotated(doc.body[p]) \in Typed
      BY DEF Typed
    <3>5. {doc.apart, doc.name, doc.author, doc.index} \subseteq Typed
      BY DEF Typed
    <3>6. NothingRemains'
      BY <2>1, <3>1, <3>2, <3>3, <3>4, <3>5 DEF NothingRemains
    <3> QED BY <2>1, <2>3, <3>2, <3>6 DEF Checked
  <2> QED BY <1>6, <2>2, <2>3 DEF TypedCheck, To, Refuse
<1>7. CASE Throw
  BY <1>7 DEF Throw, Refuse, Checked, NothingRemains
<1>8. CASE Finished \/ UNCHANGED vars
  <2>1. UNCHANGED vars
    BY <1>8 DEF Finished
  <2> QED BY <2>1 DEF vars, Checked, NothingRemains, Walked
<1> QED BY <1>1, <1>2, <1>3, <1>4, <1>5, <1>6, <1>7, <1>8 DEF Next

\* A request that goes on leaves no piece in any text the walks or the typed
\* events reach, whichever rewrites failed.
THEOREM NothingRemainsWhenDone == Spec => []NothingRemains
<1>1. Init => TypeOK /\ Ordered /\ Checked
  BY TypeInit, OrderedInit, CheckedInit
<1>2. TypeOK /\ Ordered /\ Checked /\ [Next]_vars => (TypeOK /\ Ordered /\ Checked)'
  BY TypeStep, OrderedStep, CheckedStep
<1>3. Checked => NothingRemains
  BY DEF Checked
<1> QED BY <1>1, <1>2, <1>3, PTL DEF Spec

----------------------------------------------------------------------------
(* The verify walk refuses for a cause *)

\* What is clean after each stage, unless an edit failed or a piece has a
\* glyph of its own.
Excused == missed \/ HasGlyph
CleanByStage ==
  /\ step \in {"rewrite body", "check names", "update index", "verify"} =>
       Excused \/ ~Carries(doc.apart, pieces)
  /\ step \in {"check names", "update index", "verify"} =>
       Excused \/ \A p \in 1..Len(doc.body) : ~Carries(Joined(doc.body[p]), pieces)
  /\ step \in {"update index", "verify"} => ~Carries(doc.name, pieces)
  /\ step = "verify" => Excused \/ ~Carries(doc.index, pieces)
  /\ step \in Stages => refusal = "none"
  /\ VerifyRefusesForCause

\* Cleaning a text leaves no occurrence of a piece.
LEMMA CleanedIsClean ==
  ASSUME TypeOK, ~HasGlyph, NEW text \in Text
  PROVE  ~Carries(Cleaned(text), pieces)
<1>1. \A piece \in pieces : Len(piece) \in Nat /\ Len(piece) > 0
  BY DEF TypeOK
<1>2. \A piece \in pieces : \A k \in 1..Len(piece) : piece[k] # Glyph
  BY DEF HasGlyph
<1>3. Len(text) \in Nat
  BY DEF Text
<1> QED BY <1>1, <1>2, <1>3, MaskedCarriesNothing DEF Cleaned

\* If no edit failed, no stretch of an occurrence is left in its segment.
LEMMA NoneLeft ==
  ASSUME TypeOK, NEW left \in Edits(doc.body), \A s \in DOMAIN left : ~(left[s] > 0),
         NEW p \in 1..Len(doc.body), NEW i \in Covered(Joined(doc.body[p]), pieces)
  PROVE  left[doc.body[p][i].segment] = 0
<1>1. doc.body[p][i].segment \in Touched(doc.body)
  BY DEF Touched
<1>2. /\ left \in [Touched(doc.body) -> {0} \cup UNION {StretchEnds(doc.body, s) :
                                                   s \in Touched(doc.body)}]
      /\ \A s \in Touched(doc.body) : left[s] \in StretchEnds(doc.body, s) \cup {0}
  BY DEF Edits
<1>3. \A s : \A at \in StretchEnds(doc.body, s) : at \in Nat /\ at > 0
  BY DEF StretchEnds, Covered
<1>4. DOMAIN left = Touched(doc.body)
  BY <1>2
<1> QED BY <1>1, <1>2, <1>3, <1>4

LEMMA CleanInit == ASSUME Init PROVE CleanByStage
BY DEF Init, CleanByStage, VerifyRefusesForCause

LEMMA CleanStep == ASSUME TypeOK, Ordered, CleanByStage, [Next]_vars PROVE CleanByStage'
<1> USE DEF Stages
<1>0. doc \in Document /\ missed \in BOOLEAN
  BY DEF TypeOK
<1>1. CASE Resolve
  <2>1. step' \in {"inspect", "done", "refused"} /\ refusal' # "remains"
    BY <1>1 DEF Resolve, CleanByStage, To, Refuse
  <2>2. step' # "refused" => refusal' = "none"
    BY <1>1 DEF Resolve, CleanByStage, To, Refuse
  <2> QED BY <2>1, <2>2 DEF CleanByStage, VerifyRefusesForCause
<1>2. CASE RewriteStrings
  <2>1. pieces' = pieces /\ step' = "rewrite body" /\ refusal' = "none"
    BY <1>2 DEF RewriteStrings, To, CleanByStage
  <2>2. CASE doc' = [doc EXCEPT !.apart = Cleaned(doc.apart)]
    <3>1. doc'.apart = Cleaned(doc.apart)
      BY <1>0, <2>2 DEF Document
    <3>2. HasGlyph \/ ~Carries(doc'.apart, pieces)
      BY <3>1, DocumentParts, CleanedIsClean
    <3> QED BY <2>1, <3>2 DEF CleanByStage, VerifyRefusesForCause, Excused, HasGlyph
  <2>3. CASE missed'
    BY <2>1, <2>3 DEF CleanByStage, VerifyRefusesForCause, Excused
  <2> QED BY <1>2, <2>2, <2>3 DEF RewriteStrings
<1>3. CASE RewriteBody
  <2>1. pieces' = pieces /\ step' = "check names" /\ refusal' = "none" /\ step = "rewrite body"
    BY <1>3 DEF RewriteBody, To, CleanByStage
  <2>2. PICK left \in Edits(doc.body) :
          \/ /\ doc' = [doc EXCEPT !.body = BodyRewritten(doc.body, left),
                                  !.index = Cleaned(doc.index)]
             /\ missed' = (missed \/ \E s \in DOMAIN left : left[s] > 0)
          \/ missed' = TRUE
    BY <1>3 DEF RewriteBody
  <2>3. CASE missed' \/ HasGlyph
    <3>1. Excused'
      BY <2>1, <2>3 DEF Excused, HasGlyph
    <3> QED BY <2>1, <3>1 DEF CleanByStage, VerifyRefusesForCause
  <2>4. CASE ~missed' /\ ~HasGlyph
    <3>1. /\ doc'.body = BodyRewritten(doc.body, left) /\ doc'.apart = doc.apart
          /\ ~missed /\ \A s \in DOMAIN left : ~(left[s] > 0)
      BY <1>0, <2>2, <2>4 DEF Document
    <3>2. ~Carries(doc'.apart, pieces)
      BY <2>1, <2>4, <3>1 DEF CleanByStage, Excused
    <3>3. ASSUME NEW p \in 1..Len(doc.body)
          PROVE  ~Carries(Joined(doc'.body[p]), pieces)
      <4>1. doc'.body[p] = Rewritten(doc.body[p], left)
        BY <3>1, BodyRewrittenParts
      <4>2. doc.body[p] \in Seq(Cell)
        BY DocumentParts
      <4>3. \A i \in Covered(Joined(doc.body[p]), pieces) : left[doc.body[p][i].segment] = 0
        BY <3>1, NoneLeft
      <4>4. Joined(Rewritten(doc.body[p], left)) = Cleaned(Joined(doc.body[p]))
        BY <4>2, <4>3, RewrittenIsMasked DEF Cleaned
      <4>5. Joined(doc.body[p]) \in Text
        BY <4>2, JoinedIsText
      <4>6. ~Carries(Cleaned(Joined(doc.body[p])), pieces)
        BY <2>4, <4>5, CleanedIsClean
      <4> QED BY <4>1, <4>4, <4>6
    <3>4. Len(doc'.body) = Len(doc.body)
      BY <3>1, BodyRewrittenParts
    <3> QED BY <2>1, <3>2, <3>3, <3>4 DEF CleanByStage, VerifyRefusesForCause
  <2> QED BY <2>3, <2>4
<1>4. CASE UpdateIndex
  <2>1. /\ pieces' = pieces /\ step' = "verify" /\ refusal' = "none"
        /\ step = "update index"
    BY <1>4 DEF UpdateIndex, To, CleanByStage
  <2>2. /\ doc'.body = doc.body /\ doc'.apart = doc.apart /\ doc'.name = doc.name
        /\ missed' = missed \/ missed' = TRUE
    BY <1>0, <1>4 DEF UpdateIndex, Document
  <2>3. CASE missed' \/ HasGlyph
    <3>1. Excused'
      BY <2>1, <2>3 DEF Excused, HasGlyph
    <3> QED BY <2>1, <2>2, <3>1 DEF CleanByStage, VerifyRefusesForCause
  <2>4. CASE ~missed' /\ ~HasGlyph
    <3> DEFINE updated == [doc EXCEPT !.index = Heading]
    <3>a. (doc' = updated /\ missed' = missed) \/ missed' = TRUE
      BY <1>4 DEF UpdateIndex
    <3> HIDE DEF updated
    <3>b. doc' = updated
      BY <2>4, <3>a
    <3>c. missed' = missed
      BY <2>4, <3>a
    <3>0. doc' = [doc EXCEPT !.index = Heading] /\ ~missed
      BY <2>4, <3>b, <3>c DEF updated
    <3>1. doc'.index = Joined(doc.body[1])
      BY <1>0, <3>0 DEF Document, Heading
    <3>2. 1 \in 1..Len(doc.body)
      BY DocumentParts
    <3>3. ~Carries(doc'.index, pieces)
      BY <2>1, <2>4, <3>0, <3>1, <3>2 DEF CleanByStage, Excused
    <3> QED BY <2>1, <2>2, <2>4, <3>1, <3>3 DEF CleanByStage, VerifyRefusesForCause, Excused
  <2> QED BY <2>3, <2>4
<1>5. CASE Verify
  <2>1. UNCHANGED <<doc, pieces, missed>> /\ step = "verify" /\ refusal = "none"
    BY <1>5 DEF Verify, CleanByStage
  <2>2. CASE refusal' = "remains"
    <3>1. step' = "refused" /\ \E text \in Walked : Carries(text, pieces)
      BY <1>5, <2>1, <2>2 DEF Verify, To, Refuse
    <3>2. Excused
      BY <2>1, <3>1 DEF Walked, CleanByStage
    <3> QED BY <2>1, <3>1, <3>2 DEF CleanByStage, VerifyRefusesForCause, Excused, HasGlyph
  <2>3. CASE refusal' # "remains"
    <3>1. \/ step' = "refused"
          \/ step' = "typed check" /\ refusal' = "none"
      BY <1>5, <2>1, <2>3 DEF Verify, To, Refuse
    <3> QED BY <2>1, <2>3, <3>1 DEF CleanByStage, VerifyRefusesForCause
  <2> QED BY <2>2, <2>3
<1>6. CASE CheckNames
  BY <1>6 DEF CheckNames, To, Refuse, CleanByStage, VerifyRefusesForCause, Excused, HasGlyph
<1>7. CASE Inspect \/ TypedCheck \/ Throw
  BY <1>7 DEF Inspect, TypedCheck, Throw, To, Refuse, CleanByStage, VerifyRefusesForCause
<1>8. CASE Finished \/ UNCHANGED vars
  <2>1. UNCHANGED vars
    BY <1>8 DEF Finished
  <2> QED BY <2>1 DEF vars, CleanByStage, VerifyRefusesForCause, Excused, HasGlyph
<1> QED BY <1>1, <1>2, <1>3, <1>4, <1>5, <1>6, <1>7, <1>8 DEF Next

----------------------------------------------------------------------------
(* The typed check refuses for a cause *)

\* A paragraph without content controls is annotated as the walk reads it.
LEMMA AnnotatedPlain ==
  ASSUME NEW paragraph \in Seq(Cell), \A i \in 1..Len(paragraph) : ~paragraph[i].nested
  PROVE  Annotated(paragraph) = Joined(paragraph)
<1> DEFINE n == Len(paragraph)
           kept == {i \in 1..n : ~paragraph[i].nested}
           spot(k) == CHOOSE i \in kept : Cardinality({j \in kept : j <= i}) = k
<1>1. n \in Nat
  OBVIOUS
<1>2. kept = 1..n
  OBVIOUS
<1>3. ASSUME NEW i \in 1..n PROVE Cardinality({j \in kept : j <= i}) = i
  <2> HIDE DEF kept
  <2>1. {j \in kept : j <= i} = 1..i
    BY <1>1, <1>2
  <2>2. Cardinality(1..i) = i
    BY <1>1, FS_Interval
  <2> QED BY <2>1, <2>2
<1>4. Cardinality(kept) = n
  <2>1. Cardinality(1..n) = n
    BY <1>1, FS_Interval
  <2> QED BY <1>2, <2>1
<1>5. Annotated(paragraph) = [k \in 1..Cardinality(kept) |-> paragraph[spot(k)].char]
  BY DEF Annotated
<1>6. ASSUME NEW k \in 1..n PROVE spot(k) = k
  <2> HIDE DEF kept
  <2>1. k \in kept /\ Cardinality({j \in kept : j <= k}) = k
    BY <1>2, <1>3
  <2>2. spot(k) \in kept /\ Cardinality({j \in kept : j <= spot(k)}) = k
    BY Zenon, <2>1
  <2> HIDE DEF spot
  <2> QED BY <1>2, <1>3, <2>2
<1> HIDE DEF kept, spot
<1>7. Annotated(paragraph) = [k \in 1..n |-> paragraph[k].char]
  BY <1>4, <1>5, <1>6
<1> QED BY <1>7 DEF Joined

\* What the typed check finds that the verify walk has not refused lies in
\* an author, which no rewrite touches, or in nested text.
TypedByStage ==
  /\ doc.author = original.author
  /\ TypedRefusesForCause

LEMMA TypedByStageInit == ASSUME Init PROVE TypedByStage
BY DEF Init, TypedByStage, TypedRefusesForCause

LEMMA TypedByStageStep ==
  ASSUME TypeOK, Checked, CleanByStage, TypedByStage, [Next]_vars
  PROVE  TypedByStage'
<1>0. doc \in Document
  BY DEF TypeOK
<1>1. CASE TypedCheck
  <2>1. UNCHANGED <<original, doc, pieces>> /\ step = "typed check" /\ refusal = "none"
    BY <1>1 DEF TypedCheck, CleanByStage, Stages
  <2>2. CASE refusal' = "typed" /\ ~Nests
    <3>1. PICK text \in Typed : Carries(text, pieces)
      BY <1>1, <2>1, <2>2 DEF TypedCheck, To, Refuse
    <3>2. \A other \in Walked : ~Carries(other, pieces)
      BY <2>1 DEF Checked
    <3>3. ASSUME NEW p \in 1..Len(doc.body) PROVE Annotated(doc.body[p]) \in Walked
      <4>1. doc.body[p] \in Seq(Cell)
        BY DocumentParts
      <4>2. \A i \in 1..Len(doc.body[p]) : ~doc.body[p][i].nested
        BY <2>2 DEF Nests
      <4>3. Annotated(doc.body[p]) = Joined(doc.body[p])
        BY <4>1, <4>2, AnnotatedPlain
      <4> QED BY <4>3 DEF Walked
    <3>4. {doc.apart, doc.name, doc.index} \subseteq Walked
      BY DEF Walked
    <3>5. text = doc.author
      BY <3>1, <3>2, <3>3, <3>4 DEF Typed
    <3>6. Carries(original'.author, pieces')
      BY <2>1, <3>1, <3>5 DEF TypedByStage
    <3> QED BY <2>1, <3>6 DEF TypedByStage, TypedRefusesForCause
  <2>3. CASE refusal' = "typed" /\ Nests
    BY <2>1, <2>3 DEF TypedByStage, TypedRefusesForCause, Nests
  <2>4. CASE refusal' # "typed"
    BY <2>1, <2>4 DEF TypedByStage, TypedRefusesForCause
  <2> QED BY <2>2, <2>3, <2>4
<1>2. CASE RewriteStrings \/ RewriteBody \/ UpdateIndex
  <2>1. doc'.author = doc.author /\ original' = original
    BY <1>0, <1>2 DEF RewriteStrings, RewriteBody, UpdateIndex, Document
  <2>2. refusal' = "none"
    BY <1>2 DEF RewriteStrings, RewriteBody, UpdateIndex, To, CleanByStage, Stages
  <2> QED BY <2>1, <2>2 DEF TypedByStage, TypedRefusesForCause
<1>3. CASE Resolve \/ Inspect \/ CheckNames \/ Verify \/ Throw
  <2>1. UNCHANGED <<original, doc>>
    BY <1>3 DEF Resolve, Inspect, CheckNames, Verify, Throw
  <2>2. step \in Stages
    BY <1>3 DEF Resolve, Inspect, CheckNames, Verify, Throw, Stages
  <2>3. refusal' # "typed"
    BY <1>3, <2>2 DEF Resolve, Inspect, CheckNames, Verify, Throw, To, Refuse, CleanByStage
  <2> QED BY <2>1, <2>3 DEF TypedByStage, TypedRefusesForCause
<1>4. CASE Finished \/ UNCHANGED vars
  <2>1. UNCHANGED vars
    BY <1>4 DEF Finished
  <2> QED BY <2>1 DEF vars, TypedByStage, TypedRefusesForCause, Nests
<1> QED BY <1>1, <1>2, <1>3, <1>4 DEF Next

\* No redaction is refused without a cause: by the verify walk only after a
\* failed rewrite or for a piece with glyphs of its own, by the typed check
\* only for nested text or a text that no walk reads.
THEOREM RefusalHasCause == Spec => []RefusedForCause
<1>1. Init => TypeOK /\ Ordered /\ Checked /\ CleanByStage /\ TypedByStage
  BY TypeInit, OrderedInit, CheckedInit, CleanInit, TypedByStageInit
<1>2. TypeOK /\ Ordered /\ Checked /\ CleanByStage /\ TypedByStage /\ [Next]_vars
        => (TypeOK /\ Ordered /\ Checked /\ CleanByStage /\ TypedByStage)'
  BY TypeStep, OrderedStep, CheckedStep, CleanStep, TypedByStageStep
<1>3. CleanByStage /\ TypedByStage => RefusedForCause
  BY DEF CleanByStage, TypedByStage, RefusedForCause
<1> QED BY <1>1, <1>2, <1>3, PTL DEF Spec

----------------------------------------------------------------------------
(* What the spans address is what the pieces cover *)

Below == {pair \in Nat \X Nat : pair[1] < pair[2]}

\* Every set of naturals that is not empty has a least element.
LEMMA LeastNumber ==
  ASSUME NEW N, N \subseteq Nat, N # {}
  PROVE  \E n \in N : \A m \in N : n <= m
<1>1. IsWellFoundedOn(Below, Nat)
  BY NatLessThanWellFounded DEF OpToRel, Below
<1>2. PICK n \in N : \A m \in N : <<m, n>> \notin Below
  BY <1>1, WFMin
<1>3. ASSUME NEW m \in N PROVE n <= m
  <2>1. m \in Nat /\ n \in Nat /\ ~(m < n)
    BY <1>2 DEF Below
  <2> QED BY <2>1
<1> QED BY <1>3

\* Every paragraph starts somewhere: the recursion of Starts has a solution.
LEMMA StartsAreNumbers ==
  ASSUME NEW body, Len(body) \in Nat,
         \A p \in 1..Len(body) : Len(Annotated(body[p])) \in Nat
  PROVE  \A p \in 1..Len(body) : Starts(body)[p] \in Int
<1> DEFINE n == Len(body)
           Chain(s, m) == s = [p \in 1..m |-> IF p = 1 THEN 0
                                ELSE s[p - 1] + Len(Annotated(body[p - 1])) + 1]
           Failed == {m \in Nat : m <= n + 1 /\ ~ \E s : Chain(s, m)}
<1>1. 0 \notin Failed
  <2>1. [p \in 1..0 |-> 0] = [p \in 1..0 |-> IF p = 1 THEN 0
           ELSE [q \in 1..0 |-> 0][p - 1] + Len(Annotated(body[p - 1])) + 1]
    OBVIOUS
  <2>2. Chain([p \in 1..0 |-> 0], 0)
    BY <2>1
  <2> HIDE DEF Chain
  <2> QED BY <2>2
<1>2. ASSUME NEW m \in Nat, NEW s, Chain(s, m)
      PROVE  \E t : Chain(t, m + 1)
  <2> DEFINE t == [p \in 1..(m + 1) |-> IF p = 1 THEN 0
                     ELSE s[p - 1] + Len(Annotated(body[p - 1])) + 1]
  <2>1. ASSUME NEW p \in 1..(m + 1), p # 1 PROVE t[p - 1] = s[p - 1]
    <3>1. p - 1 \in 1..m /\ p - 1 \in 1..(m + 1)
      BY <2>1
    <3> QED BY <1>2, <3>1
  <2>2. t = [p \in 1..(m + 1) |-> IF p = 1 THEN 0
               ELSE t[p - 1] + Len(Annotated(body[p - 1])) + 1]
    BY <2>1
  <2>3. Chain(t, m + 1)
    <3> HIDE DEF t
    <3> QED BY <2>2
  <2> HIDE DEF Chain
  <2> QED BY <2>3
<1>3. Failed = {}
  <2> SUFFICES ASSUME Failed # {} PROVE FALSE
    OBVIOUS
  <2>1. Failed \subseteq Nat
    OBVIOUS
  <2>2. PICK m \in Failed : \A k \in Failed : m <= k
    <3> HIDE DEF Failed
    <3> QED BY <2>1, LeastNumber
  <2>3. m \in Nat /\ m # 0 /\ m <= n + 1
    BY <1>1, <2>2
  <2>4. m - 1 \in Nat /\ m - 1 \notin Failed
    <3> HIDE DEF Failed
    <3> QED BY <2>2, <2>3
  <2> HIDE DEF Chain
  <2>5. PICK s : Chain(s, m - 1)
    BY <2>3, <2>4
  <2>6. \E t : Chain(t, (m - 1) + 1)
    BY <1>2, <2>4, <2>5
  <2>7. (m - 1) + 1 = m
    BY <2>3
  <2> QED BY <2>2, <2>6, <2>7
<1>4. \E s : Chain(s, n + 1)
  <2>1. n + 1 \in Nat /\ n + 1 \notin Failed
    BY <1>3
  <2> HIDE DEF Chain
  <2> QED BY <2>1
<1> DEFINE start == Starts(body)
<1>5. Chain(start, n + 1)
  <2>1. start = CHOOSE s : Chain(s, n + 1)
    BY Zenon DEF Starts
  <2> HIDE DEF Chain, start
  <2> QED BY Zenon, <1>4, <2>1
<1>6. /\ start[1] = 0
      /\ \A p \in 1..n : start[p + 1] = start[p] + Len(Annotated(body[p])) + 1
  <2> HIDE DEF start
  <2>1. \A p \in 1..(n + 1) :
          start[p] = IF p = 1 THEN 0 ELSE start[p - 1] + Len(Annotated(body[p - 1])) + 1
    BY <1>5
  <2>2. start[1] = 0
    BY <2>1
  <2>3. ASSUME NEW p \in 1..n
        PROVE  start[p + 1] = start[p] + Len(Annotated(body[p])) + 1
    <3>1. p + 1 \in 1..(n + 1) /\ p + 1 # 1 /\ (p + 1) - 1 = p
      OBVIOUS
    <3> HIDE DEF Chain
    <3> QED BY <2>1, <3>1
  <2> QED BY <2>2, <2>3
<1> HIDE DEF start, Chain
<1>7. \A p \in 1..n : start[p] \in Int
  <2> DEFINE Bad == {p \in 1..n : start[p] \notin Int}
  <2> SUFFICES ASSUME Bad # {} PROVE FALSE
    OBVIOUS
  <2>1. Bad \subseteq Nat
    OBVIOUS
  <2>2. PICK p \in Bad : \A q \in Bad : p <= q
    <3> HIDE DEF Bad
    <3> QED BY <2>1, LeastNumber
  <2>3. p \in 1..n /\ start[p] \notin Int
    BY <2>2
  <2>4. p # 1
    BY <1>6, <2>3
  <2>5. p - 1 \in 1..n /\ p - 1 \notin Bad /\ (p - 1) + 1 = p
    <3> HIDE DEF Bad
    <3> QED BY <2>2, <2>3, <2>4
  <2>6. start[p - 1] \in Int /\ Len(Annotated(body[p - 1])) \in Nat
    BY <2>5
  <2>7. start[p] = start[p - 1] + Len(Annotated(body[p - 1])) + 1
    BY <1>6, <2>5
  <2> QED BY <2>3, <2>6, <2>7
<1> QED BY <1>7 DEF start

\* Trimming keeps every character that is not space, and what lies between.
LEMMA TrimmedKeeps ==
  ASSUME NEW text, Len(text) \in Nat, NEW i \in 1..Len(text), text[i] # Space
  PROVE  \E first \in 1..i, last \in i..Len(text) :
           [k \in 1..(last - first + 1) |-> text[first + k - 1]] \in Trimmed(text)
<1> DEFINE n == Len(text)
           solid == {k \in 1..n : text[k] # Space}
           mirrored == {n - k : k \in solid}
<1>1. solid \subseteq Nat /\ i \in solid
  OBVIOUS
<1>2. PICK first \in solid : \A k \in solid : first <= k
  <2> HIDE DEF solid
  <2> QED BY <1>1, LeastNumber
<1>3. mirrored \subseteq Nat /\ mirrored # {}
  BY <1>1
<1>4. PICK least \in mirrored : \A m \in mirrored : least <= m
  <2> HIDE DEF mirrored
  <2> QED BY <1>3, LeastNumber
<1>5. PICK last \in solid : least = n - last
  BY <1>4
<1>6. \A k \in solid : k <= last
  <2> SUFFICES ASSUME NEW k \in solid PROVE k <= last
    OBVIOUS
  <2>1. n - last <= n - k
    BY <1>4, <1>5
  <2> QED BY <2>1
<1>7. first \in 1..i /\ last \in i..n
  BY <1>1, <1>2, <1>6
<1>8. <<first, last>> \in {pair \in solid \X solid :
                             \A k \in solid : pair[1] <= k /\ k <= pair[2]}
  <2> HIDE DEF solid
  <2> QED BY <1>2, <1>5, <1>6
<1>9. [k \in 1..(last - first + 1) |-> text[first + k - 1]] \in Trimmed(text)
  <2> DEFINE Between(pair) == [k \in 1..(pair[2] - pair[1] + 1) |-> text[pair[1] + k - 1]]
  <2>1. Between(<<first, last>>) \in Trimmed(text)
    BY <1>8 DEF Trimmed
  <2> QED BY <2>1
<1> QED BY <1>7, <1>9

\* A character that is not space, between the ends of a span in a paragraph,
\* lies in the piece the span resolves to there.
LEMMA SpanCovers ==
  ASSUME NEW text \in Text, NEW start \in Int, NEW low \in Int, NEW high \in Int,
         start <= low, high <= start + Len(text),
         NEW i \in 1..Len(text), low <= start + i - 1, start + i - 1 < high,
         text[i] # Space, text[i] # Glyph
  PROVE  \E piece \in Piece(<<low, high>>, text, start) :
           /\ \E k \in 1..Len(piece) : piece[k] # Glyph
           /\ i \in Covered(text, {piece})
<1> DEFINE m == low - start + 1
           part == SubSeq(text, m, high - start)
           at == i - m + 1
<1>1. Len(text) \in Nat /\ \A k \in 1..Len(text) : text[k] \in Char
  BY DEF Text
<1>2. m \in 1..i /\ high - start \in i..Len(text)
  BY <1>1
<1>3. Len(part) = high - start - m + 1 /\ \A k \in 1..Len(part) : part[k] = text[m + k - 1]
  <2>1. \A k \in m..(high - start) : text[k] \in Char
    BY <1>1, <1>2
  <2>2. /\ Len(part) = IF m <= high - start THEN high - start - m + 1 ELSE 0
        /\ \A k \in 1..(high - start - m + 1) : part[k] = text[m + k - 1]
    BY <2>1, SubSeqProperties
  <2> HIDE DEF part
  <2> QED BY <1>2, <2>2
<1> HIDE DEF part
<1>4. at \in 1..Len(part) /\ part[at] = text[i] /\ Len(part) \in Nat
  BY <1>2, <1>3
<1>5. PICK first \in 1..at, last \in at..Len(part) :
        [k \in 1..(last - first + 1) |-> part[first + k - 1]] \in Trimmed(part)
  <2> HIDE DEF at
  <2> QED BY <1>4, TrimmedKeeps
<1> DEFINE piece == [k \in 1..(last - first + 1) |-> part[first + k - 1]]
<1>6. piece \in Piece(<<low, high>>, text, start)
  BY <1>5 DEF Piece, part
<1>7. Len(piece) = last - first + 1
  BY <1>4, <1>5
<1>8. at - first + 1 \in 1..Len(piece) /\ piece[at - first + 1] = text[i]
  BY <1>4, <1>5, <1>7
<1>9. OccursAt(piece, text, m + first - 1)
  <2>1. (m + first - 1) + Len(piece) - 1 <= Len(text)
    BY <1>2, <1>3, <1>4, <1>5, <1>7
  <2>2. ASSUME NEW k \in 1..Len(piece) PROVE text[(m + first - 1) + k - 1] = piece[k]
    <3>1. first + k - 1 \in 1..Len(part)
      <4>1. /\ first \in Int /\ last \in Int /\ k \in Int /\ Len(part) \in Nat
            /\ 1 <= first /\ last <= Len(part)
        BY <1>4, <1>5
      <4>2. 1 <= k /\ k <= last - first + 1
        BY <1>7, <4>1
      <4> HIDE DEF piece, at, m
      <4> QED BY <4>1, <4>2
    <3>2. piece[k] = part[first + k - 1]
      BY <1>7
    <3>3. m + (first + k - 1) - 1 = (m + first - 1) + k - 1
      BY <1>2
    <3> QED BY <1>3, <3>1, <3>2, <3>3
  <2> QED BY <2>1, <2>2 DEF OccursAt
<1>10. m + first - 1 \in 1..i /\ i < (m + first - 1) + Len(piece)
  BY <1>2, <1>4, <1>5, <1>7
<1> HIDE DEF piece, m, at
<1>11. i \in Covered(text, {piece})
  BY <1>9, <1>10 DEF Covered
<1>12. \E k \in 1..Len(piece) : piece[k] # Glyph
  BY <1>8
<1> QED BY <1>6, <1>11, <1>12

Plain(body) == \A p \in 1..Len(body) : \A i \in 1..Len(body[p]) : ~body[p][i].nested

\* Counting the cells outside content controls is counting cells, if there
\* is no content control.
LEMMA BeforeIsPosition ==
  ASSUME NEW paragraph \in Seq(Cell), \A i \in 1..Len(paragraph) : ~paragraph[i].nested,
         NEW i \in 1..Len(paragraph)
  PROVE  Before(paragraph, i) = i - 1
<1>1. {j \in 1..(i - 1) : ~paragraph[j].nested} = 1..(i - 1)
  OBVIOUS
<1>2. Cardinality(1..(i - 1)) = i - 1
  BY FS_Interval
<1> QED BY <1>1, <1>2 DEF Before

\* Every addressed character that is neither space nor a glyph lies in an
\* occurrence of what the spans resolve to.
LEMMA AddressedIsCovered ==
  ASSUME TypeOK, original = doc, Plain(doc.body),
         NEW p \in 1..Len(doc.body), NEW i \in Addressed(p),
         doc.body[p][i].char \notin {Space, Glyph}
  PROVE  i \in Covered(Joined(doc.body[p]), Resolved({s \in spans : s[1] < s[2]}, doc.body))
<1> DEFINE body == doc.body
           text == Joined(body[p])
           asked == {s \in spans : s[1] < s[2]}
           start == Starts(body)[p]
<1>1. /\ Len(body) \in Nat
      /\ \A q \in 1..Len(body) : body[q] \in Seq(Cell) /\ Annotated(body[q]) = Joined(body[q])
  BY DocumentParts, AnnotatedPlain DEF Plain
<1>2. \A q \in 1..Len(body) : Len(Annotated(body[q])) \in Nat
  BY <1>1, JoinedIsText
<1>3. start \in Int
  BY <1>1, <1>2, StartsAreNumbers
<1>4. /\ text \in Text /\ Len(text) = Len(body[p]) /\ i \in 1..Len(text)
      /\ text[i] = body[p][i].char /\ Annotated(body[p]) = text
  <2>1. i \in 1..Len(body[p])
    BY DEF Addressed
  <2> QED BY <1>1, <2>1, JoinedIsText
<1>5. Before(body[p], i) = i - 1
  BY <1>1, <1>4, BeforeIsPosition DEF Plain
<1>6. PICK s \in spans : s[1] <= start + (i - 1) /\ start + (i - 1) < s[2]
  BY <1>5 DEF Addressed
<1>7. s[1] \in Nat /\ s[2] \in Nat
  BY RedactionAssumption DEF TypeOK
<1> HIDE DEF start, text
<1>8. s \in asked
  BY <1>3, <1>4, <1>6, <1>7
<1> DEFINE end == start + Len(text)
           low == IF s[1] < start THEN start ELSE s[1]
           high == IF s[2] > end THEN end ELSE s[2]
<1>9. Clipped(s, body, p) = <<low, high>>
  BY <1>4 DEF Clipped, start
<1>10. Len(text) \in Nat
  BY <1>4 DEF Text
<1>11. /\ low \in Int /\ high \in Int /\ start <= low /\ high <= start + Len(text)
       /\ low <= start + i - 1 /\ start + i - 1 < high
  <2>1. start \in Int /\ end \in Int /\ s[1] \in Int /\ s[2] \in Int /\ i \in 1..Len(text)
    BY <1>3, <1>4, <1>7, <1>10
  <2>2. low \in Int /\ start <= low /\ low <= start + i - 1
    <3> HIDE DEF end
    <3> QED BY <1>6, <1>10, <2>1
  <2>3. high \in Int /\ high <= end /\ start + i - 1 < high
    <3>1. start + i - 1 < end
      BY <1>10, <2>1
    <3> HIDE DEF end
    <3> QED BY <1>6, <1>10, <2>1, <3>1
  <2> HIDE DEF low, high
  <2> QED BY <2>2, <2>3
<1> HIDE DEF low, high, end
<1>12. PICK piece \in Piece(<<low, high>>, text, start) :
         /\ \E k \in 1..Len(piece) : piece[k] # Glyph
         /\ i \in Covered(text, {piece})
  BY <1>3, <1>4, <1>11, SpanCovers
<1>13. piece \in Resolved(asked, body)
  <2>1. piece \in Piece(Clipped(s, body, p), Annotated(body[p]), Starts(body)[p])
    BY <1>4, <1>9, <1>12 DEF start
  <2> HIDE DEF asked, body
  <2>2. p \in 1..Len(body)
    BY DEF body
  <2> QED BY <1>8, <1>12, <2>1, <2>2 DEF Resolved
<1>14. i \in Covered(text, Resolved(asked, body))
  <2> HIDE DEF asked, body
  <2> QED BY <1>12, <1>13 DEF Covered
<1> QED BY <1>14 DEF text

----------------------------------------------------------------------------
(* What the spans address goes, if no rewrite failed *)

\* From the resolution on, the pieces cover what was addressed; from the
\* rewrite of the body on, what they cover is gone.
Resolves ==
  step \notin {"resolve", "refused"} /\ Plain(original.body) =>
    \A p \in 1..Len(original.body) : \A i \in Addressed(p) :
      \/ original.body[p][i].char \in {Space, Glyph}
      \/ i \in Covered(Joined(original.body[p]), pieces)
Rewrites ==
  step \in {"check names", "update index", "verify", "typed check", "done"} /\ ~missed =>
    \A p \in 1..Len(original.body) :
      \A i \in Covered(Joined(original.body[p]), pieces) : doc.body[p][i].char = Glyph
GoneByStage ==
  /\ step \in {"resolve", "inspect"} => doc = original
  /\ Resolves
  /\ Rewrites

LEMMA GoneInit == ASSUME Init PROVE GoneByStage
BY DEF Init, GoneByStage, Resolves, Rewrites

LEMMA GoneStep ==
  ASSUME TypeOK, Ordered, GoneByStage, [Next]_vars PROVE GoneByStage'
<1>0. doc \in Document /\ missed \in BOOLEAN
  BY DEF TypeOK
<1>a. UNCHANGED <<original, spans>>
  BY DEF Next, vars, Resolve, Inspect, RewriteStrings, RewriteBody, CheckNames,
         UpdateIndex, Verify, TypedCheck, Throw, Finished
<1>b. Plain(original.body)' = Plain(original.body) /\ \A p : Addressed(p)' = Addressed(p)
  BY <1>a DEF Plain, Addressed
<1>1. CASE Resolve
  <2> DEFINE asked == {s \in spans : s[1] < s[2]}
             found == Resolved(asked, doc.body)
  <2>1. doc = original /\ doc' = doc /\ pieces = {}
    BY <1>1 DEF Resolve, GoneByStage, Ordered
  <2>2. CASE step' = "refused"
    BY <1>a, <2>1, <2>2 DEF GoneByStage, Resolves, Rewrites
  <2>3. CASE step' # "refused"
    <3>1. /\ step' \in {"inspect", "done"}
          /\ step' = "done" => pieces' = {}
          /\ asked = {} \/ pieces' = found
      BY <1>1, <2>1, <2>3 DEF Resolve, To, Refuse
    <3>2. ASSUME Plain(original.body), NEW p \in 1..Len(original.body), NEW i \in Addressed(p)
          PROVE  \/ original.body[p][i].char \in {Space, Glyph}
                 \/ i \in Covered(Joined(original.body[p]), pieces')
      <4>1. CASE asked = {}
        <5>1. PICK s \in spans :
                LET position == Starts(original.body)[p] + Before(original.body[p], i)
                IN  s[1] <= position /\ position < s[2]
          BY DEF Addressed
        <5>2. /\ Len(doc.body) \in Nat
              /\ \A q \in 1..Len(doc.body) : Len(Annotated(doc.body[q])) \in Nat
          BY <2>1, <3>2, DocumentParts, AnnotatedPlain, JoinedIsText DEF Plain
        <5>3. Starts(original.body)[p] \in Int
          BY <2>1, <5>2, StartsAreNumbers
        <5>4. doc.body[p] \in Seq(Cell) /\ i \in 1..Len(doc.body[p])
          BY <2>1, DocumentParts DEF Addressed
        <5>5. Before(original.body[p], i) = i - 1
          BY <2>1, <3>2, <5>4, BeforeIsPosition DEF Plain
        <5>6. s[1] \in Nat /\ s[2] \in Nat
          BY RedactionAssumption DEF TypeOK
        <5> QED BY <4>1, <5>1, <5>3, <5>4, <5>5, <5>6
      <4>2. CASE pieces' = found
        BY <2>1, <3>2, <4>2, AddressedIsCovered
      <4> QED BY <3>1, <4>1, <4>2
    <3>3. Resolves'
      BY <1>a, <1>b, <3>2 DEF Resolves
    <3>4. Rewrites'
      BY <3>1 DEF Rewrites, Covered
    <3>5. doc' = original'
      BY <1>a, <2>1
    <3> QED BY <3>3, <3>4, <3>5 DEF GoneByStage
  <2> QED BY <2>2, <2>3
<1>2. CASE Inspect \/ CheckNames \/ Verify \/ TypedCheck \/ Throw
  <2>1. UNCHANGED <<doc, pieces, missed>>
    BY <1>2 DEF Inspect, CheckNames, Verify, TypedCheck, Throw
  <2>2. \/ step' = "refused"
        \/ step = "inspect" /\ step' = "rewrite strings"
        \/ step = "check names" /\ step' = "update index"
        \/ step = "verify" /\ step' = "typed check"
        \/ step = "typed check" /\ step' = "done"
    BY <1>2 DEF Inspect, CheckNames, Verify, TypedCheck, Throw, To, Refuse
  <2>3. Resolves'
    BY <1>a, <1>b, <2>1, <2>2 DEF GoneByStage, Resolves
  <2>4. Rewrites'
    BY <1>a, <2>1, <2>2 DEF GoneByStage, Rewrites
  <2> QED BY <2>2, <2>3, <2>4 DEF GoneByStage
<1>3. CASE RewriteStrings
  <2>1. /\ pieces' = pieces /\ step = "rewrite strings" /\ step' = "rewrite body"
    BY <1>3 DEF RewriteStrings, To
  <2>2. Resolves'
    BY <1>a, <1>b, <2>1 DEF GoneByStage, Resolves
  <2> QED BY <2>1, <2>2 DEF GoneByStage, Rewrites
<1>4. CASE RewriteBody
  <2>1. /\ pieces' = pieces /\ step = "rewrite body" /\ step' = "check names"
        /\ doc.body = original.body
    BY <1>4 DEF RewriteBody, To, Ordered
  <2>2. Resolves'
    BY <1>a, <1>b, <2>1 DEF GoneByStage, Resolves
  <2>3. PICK left \in Edits(doc.body) :
          \/ /\ doc' = [doc EXCEPT !.body = BodyRewritten(doc.body, left),
                                  !.index = Cleaned(doc.index)]
             /\ missed' = (missed \/ \E s \in DOMAIN left : left[s] > 0)
          \/ missed' = TRUE
    BY <1>4 DEF RewriteBody
  <2>4. ASSUME ~missed', NEW p \in 1..Len(doc.body),
               NEW i \in Covered(Joined(doc.body[p]), pieces)
        PROVE  doc'.body[p][i].char = Glyph
    <3>1. doc'.body = BodyRewritten(doc.body, left) /\ \A s \in DOMAIN left : ~(left[s] > 0)
      BY <1>0, <2>3, <2>4 DEF Document
    <3>2. doc'.body[p] = Rewritten(doc.body[p], left)
      BY <3>1, BodyRewrittenParts
    <3>3. doc.body[p] \in Seq(Cell)
      BY DocumentParts
    <3>4. \A at \in Covered(Joined(doc.body[p]), pieces) : left[doc.body[p][at].segment] = 0
      BY <3>1, NoneLeft
    <3>5. Joined(Rewritten(doc.body[p], left))
            = Masked(Joined(doc.body[p]), Covered(Joined(doc.body[p]), pieces))
      BY <3>3, <3>4, RewrittenIsMasked
    <3>6. /\ Rewritten(doc.body[p], left) \in Seq(Cell)
          /\ Len(Rewritten(doc.body[p], left)) = Len(doc.body[p])
      BY <3>3, RewrittenParagraph
    <3>7. i \in 1..Len(Joined(doc.body[p])) /\ Len(Joined(doc.body[p])) = Len(doc.body[p])
      BY <3>3, JoinedIsText DEF Covered
    <3>8. Joined(Rewritten(doc.body[p], left))[i] = doc'.body[p][i].char
      BY <3>2, <3>6, <3>7, JoinedIsText
    <3>9. Masked(Joined(doc.body[p]), Covered(Joined(doc.body[p]), pieces))[i] = Glyph
      <4>1. Len(Joined(doc.body[p])) \in Nat
        BY <3>3, <3>7
      <4> QED BY <3>7, <4>1, MaskedLength
    <3> QED BY <3>5, <3>8, <3>9
  <2>5. Rewrites'
    BY <1>a, <2>1, <2>4 DEF Rewrites
  <2> QED BY <2>1, <2>2, <2>5 DEF GoneByStage
<1>5. CASE UpdateIndex
  <2>1. /\ pieces' = pieces /\ step = "update index" /\ step' = "verify"
        /\ doc'.body = doc.body /\ (missed => missed')
    BY <1>0, <1>5 DEF UpdateIndex, To, Document
  <2>2. Resolves'
    BY <1>a, <1>b, <2>1 DEF GoneByStage, Resolves
  <2>3. Rewrites'
    BY <1>a, <2>1 DEF GoneByStage, Rewrites
  <2> QED BY <2>1, <2>2, <2>3 DEF GoneByStage
<1>6. CASE Finished \/ UNCHANGED vars
  <2>1. UNCHANGED vars
    BY <1>6 DEF Finished
  <2> QED BY <1>b, <2>1 DEF vars, GoneByStage, Resolves, Rewrites
<1> QED BY <1>1, <1>2, <1>3, <1>4, <1>5, <1>6 DEF Next

\* A cell that is not nested now was not nested when the document was loaded.
LEMMA PlainBefore ==
  ASSUME TypeOK, OnlyOccurrencesRewritten, ~Nests PROVE Plain(original.body)
<1> SUFFICES ASSUME NEW p \in 1..Len(original.body), NEW i \in 1..Len(original.body[p])
             PROVE  ~original.body[p][i].nested
  BY DEF Plain
<1>1. p \in 1..Len(doc.body) /\ i \in 1..Len(doc.body[p])
  BY DEF OnlyOccurrencesRewritten
<1>2. ~doc.body[p][i].nested
  BY <1>1 DEF Nests
<1>3. original.body[p][i] \in Cell
  <2>1. original.body \in Seq(Seq(Cell))
    BY DEF TypeOK, Document
  <2>2. original.body[p] \in Seq(Cell)
    BY <2>1
  <2> QED BY <2>2
<1>4. \/ doc.body[p][i] = original.body[p][i]
      \/ doc.body[p][i] = [original.body[p][i] EXCEPT !.char = Glyph]
  BY <1>1 DEF OnlyOccurrencesRewritten
<1> QED BY <1>2, <1>3, <1>4 DEF Cell

\* Every character a span addresses, space apart, is a glyph when the request
\* goes on, if no rewrite failed and no text is nested: the pieces the spans
\* resolve to cover it, however the spans overlap or cross paragraphs.
THEOREM AddressedGone == Spec => []AddressedGoneIfRewritten
<1>1. Init => TypeOK /\ Ordered /\ GoneByStage
  BY TypeInit, OrderedInit, GoneInit
<1>2. TypeOK /\ Ordered /\ GoneByStage /\ [Next]_vars => (TypeOK /\ Ordered /\ GoneByStage)'
  BY TypeStep, OrderedStep, GoneStep
<1>3. TypeOK /\ OnlyOccurrencesRewritten /\ GoneByStage => AddressedGoneIfRewritten
  <2> SUFFICES ASSUME TypeOK, OnlyOccurrencesRewritten, GoneByStage, ~missed, ~Nests,
                      step = "done", NEW p \in 1..Len(doc.body), NEW i \in Addressed(p)
               PROVE  original.body[p][i].char = Space \/ doc.body[p][i].char = Glyph
    BY DEF AddressedGoneIfRewritten, AddressedTextGone
  <2>1. p \in 1..Len(original.body) /\ i \in 1..Len(doc.body[p])
    BY DEF OnlyOccurrencesRewritten, Addressed
  <2>2. \/ original.body[p][i].char \in {Space, Glyph}
        \/ i \in Covered(Joined(original.body[p]), pieces)
    BY <2>1, PlainBefore DEF GoneByStage, Resolves
  <2>3. CASE i \in Covered(Joined(original.body[p]), pieces)
    BY <2>1, <2>3 DEF GoneByStage, Rewrites
  <2>4. CASE original.body[p][i].char = Glyph
    <3>1. original.body[p][i] \in Cell
      <4>1. original.body \in Seq(Seq(Cell))
        BY DEF TypeOK, Document
      <4>2. original.body[p] \in Seq(Cell) /\ i \in 1..Len(original.body[p])
        BY <2>1, <4>1 DEF OnlyOccurrencesRewritten
      <4> QED BY <4>2
    <3>2. \/ doc.body[p][i] = original.body[p][i]
          \/ doc.body[p][i] = [original.body[p][i] EXCEPT !.char = Glyph]
      BY <2>1 DEF OnlyOccurrencesRewritten
    <3> QED BY <2>4, <3>1, <3>2 DEF Cell
  <2> QED BY <2>2, <2>3, <2>4
<1> QED BY <1>1, <1>2, <1>3, OnlyOccurrences, PTL DEF Spec

----------------------------------------------------------------------------
(* The marks of a text document *)

Told == {events[i].mark : i \in 1..Len(events)}

\* No mark is told twice unless it was guessed at: one that is told is not open
\* any more, its end was met, and the sweep knows of it.
NeverTwice ==
  \A i \in 1..Len(events), j \in 1..Len(events) :
    events[i].mark \in Clear /\ events[i].mark = events[j].mark => i = j
Once ==
  /\ NeverTwice
  /\ \A m \in DOMAIN open : m \in Clear => m \notin Told
  /\ \A m \in DOMAIN open \ {Anon} : starts[m] # Unmet
  /\ \A m \in Marks :
       /\ m \in Clear /\ m \in Told /\ ends[m] = Unmet => place \notin Walks
       /\ kind[m] # "field" /\ m \in Told \cup DOMAIN open => m \in seen
       /\ starts[m] = Unmet => ends[m] = Unmet
  /\ place \in {"sweep", "done"} => DOMAIN open = {}

\* The text of the body from where a mark starts.
Width(m) == IF starts[m] = Outside THEN 0 ELSE offset - starts[m]

\* What is known of the marks when everything could be read. A mark that is
\* open is open from its start, or is a comment of which only the end was met.
OpenRight(m) ==
  \/ Started(m) /\ ~EndMet(m) /\ open[m].from = starts[m]
  \/ kind[m] = "comment" /\ ~Started(m) /\ EndMet(m) /\ open[m].from = ends[m]

\* One that has started and is not open waits for its name.
Waits(m) == kind[m] = "comment" /\ Anon \in DOMAIN open /\ Inside(m)
WaitsRight(m) == open[Anon].from = starts[m] /\ open[Anon].covered = Width(m) + stray[m]

SpanTrue(e, m) ==
  \/ Started(m) /\ EndMet(m) /\ e.from = starts[m] /\ e.to = ends[m]
  \/ /\ Started(m) /\ ~EndMet(m) /\ e.from = starts[m]
     /\ e.to = -1 \/ (kind[m] = "comment" /\ e.to = starts[m])
  \/ /\ ~Started(m) /\ EndMet(m) /\ e.to = ends[m]
     /\ e.from = -1 \/ (kind[m] = "comment" /\ e.from = ends[m])
  \/ ~Started(m) /\ ~EndMet(m) /\ e.from = -1 /\ e.to = -1
TextTrue(e, m) ==
  e.covered # NoText =>
    Started(m) /\ EndMet(m) /\ e.covered = (e.to - e.from) + stray[m]

FollowedOf(m) ==
  /\ kind[m] # "field" /\ m \in seen => m \in Told \cup DOMAIN open
  /\ kind[m] = "field" /\ Started(m) => m \in Told \cup DOMAIN open
  /\ kind[m] # "field" /\ m \notin seen => starts[m] = Unmet \/ Waits(m)
  /\ place \in Walks /\ Inside(m) => m \in DOMAIN open \/ Waits(m)
  /\ m \in DOMAIN open => OpenRight(m)
  /\ starts[m] = Unmet => stray[m] = 0
  /\ m \in DOMAIN open /\ Inside(m) => open[m].covered = Width(m) + stray[m]
  /\ Inside(m) /\ place = "body" => starts[m] # Outside
Followed ==
  /\ \A m \in Clear : FollowedOf(m) /\ (Waits(m) => WaitsRight(m))
  /\ \A m \in Clear, n \in Clear : Waits(m) /\ Waits(n) => m = n
  /\ \A m \in Clear : Waits(m) => m \notin DOMAIN open /\ place \in Walks \cup {"failed"}
Truthful(e) == SpanTrue(e, e.mark) /\ TextTrue(e, e.mark)
TellsTrue == \A i \in 1..Len(events) : events[i].mark \in Clear => Truthful(events[i])
SweptAll == place = "done" => Unseen = {}

\* As long as nothing had to be guessed, a boundary that waits is waited for, and
\* no event is without a mark.
NoStranger ==
  confused = {} =>
    /\ Anon \notin Told
    /\ Anon \in DOMAIN open => \E w \in Marks : Waits(w) /\ w \notin DOMAIN open

Unharmed == ~warned => Followed /\ TellsTrue /\ SweptAll /\ NoStranger

\* What a boundary of m does that can only be guessed to be m's: it closes a mark
\* it may be taken for, or is taken for the start of a comment not met yet.
Guess(m) ==
  /\ kind[m] \in {"comment", "field"}
  /\ confused' = confused \cup Rivals(m)
  /\ seen' = seen \/ seen' = seen \cup {m}
  /\ \/ \E n \in DOMAIN open, as \in Marks \cup {Anon} :
          /\ Close(n, as)
          /\ as = n \/ (as = m /\ m \in seen')
          /\ n \in Rivals(m) \/ (n = Anon /\ kind[m] = "comment")
     \/ kind[m] = "comment" /\ open' = Opened(Anon, Here) /\ UNCHANGED events

----------------------------------------------------------------------------
\* One event more.
LEMMA OneMore ==
  ASSUME events \in Seq(NoteEvents), NEW e \in NoteEvents, Emit(e)
  PROVE  /\ events' \in Seq(NoteEvents) /\ Len(events) \in Nat /\ Len(events') = Len(events) + 1
         /\ events'[Len(events) + 1] = e
         /\ \A i \in 1..Len(events) : events'[i] = events[i]
         /\ Told' = Told \cup {e.mark}
<1>1. events' = Append(events, e)
  BY DEF Emit
<1>2. /\ events' \in Seq(NoteEvents) /\ Len(events) \in Nat /\ Len(events') = Len(events) + 1
      /\ events'[Len(events) + 1] = e
      /\ \A i \in 1..Len(events) : events'[i] = events[i]
  BY <1>1
<1>3. 1..Len(events') = 1..Len(events) \cup {Len(events) + 1}
  BY <1>2
<1>4. Told' = Told \cup {e.mark}
  BY <1>2, <1>3 DEF Told
<1> QED BY <1>2, <1>4

\* The types of the collector, at first.
LEMMA MarksTypeInit == ASSUME MarksInit PROVE MarksTypeOK
<1>1. MaxText \in Nat
  BY MarksAssumption
<1>2. DOMAIN open = {} /\ open = [m \in DOMAIN open |-> open[m]]
  BY DEF MarksInit
<1>3. open \in [DOMAIN open -> [from : Spans, covered : 0..walked]]
  BY <1>2
<1>4. events \in Seq(NoteEvents)
  BY DEF MarksInit
<1>5. /\ starts \in [Marks -> -3..MaxText] /\ ends \in [Marks -> -3..MaxText]
      /\ stray \in [Marks -> -walked..walked]
  BY <1>1 DEF MarksInit, Unmet
<1>6. /\ kind \in [Marks -> Kinds] /\ place \in Walks /\ walked = 0 /\ offset = 0
      /\ seen \subseteq Marks /\ warned \in BOOLEAN /\ confused \subseteq Marks
  BY DEF MarksInit, Walks
<1>7. walked \in 0..MaxText /\ offset \in 0..walked
  BY <1>1, <1>6
<1> QED BY <1>2, <1>3, <1>4, <1>5, <1>6, <1>7 DEF MarksTypeOK

\* What meeting a boundary of a mark does when whose it is must be guessed.
LEMMA GuessCases ==
  ASSUME MarksTypeOK, Once, NEW m \in Marks, NEW isStart \in BOOLEAN, NEW named \in BOOLEAN,
         named \/ MayBePlain(m, isStart), Sight(m, isStart, named),
         Guessed(m, isStart, named), confused' = confused \cup Rivals(m)
  PROVE  Guess(m)
<1>1. m \in Rivals(m) /\ m # Anon /\ DOMAIN open \subseteq Marks \cup {Anon}
  BY MarksAssumption DEF Rivals, Anon, MarksTypeOK
<1>2. kind[m] \in {"comment", "field"}
  BY DEF Guessed, MayBePlain
<1>3. \A n \in OpenOf("comment") : n \in DOMAIN open /\ (n \in Marks => kind[n] = "comment")
  BY MarksAssumption DEF OpenOf, Kind, Anon
<1>4. CASE named
  <2>1. kind[m] = "comment" /\ Anon \in DOMAIN open
    BY <1>4 DEF Guessed
  <2>2. NamedAnnotation(m)
    BY <1>4, <2>1 DEF Sight, OnBookmark, OnFieldmark
  <2>3. CASE m \in DOMAIN open /\ Close(m, m) /\ UNCHANGED seen
    BY <1>1, <1>2, <2>3 DEF Guess
  <2>4. CASE seen' = seen \cup {m} /\ Close(Anon, m)
    BY <1>1, <1>2, <2>1, <2>4 DEF Guess
  <2> QED BY <2>1, <2>2, <2>3, <2>4 DEF NamedAnnotation
<1>5. CASE ~named /\ kind[m] = "comment"
  <2>1. PlainAnnotation
    BY <1>5 DEF Sight, OnFieldmark
  <2>2. CASE \E last \in OpenOf("comment") : Close(last, last)
    <3>1. PICK last \in OpenOf("comment") : Close(last, last)
      BY <2>2
    <3>2. last \in DOMAIN open /\ (last \in Rivals(m) \/ last = Anon)
      BY <1>1, <1>3, <1>5, <3>1 DEF Rivals
    <3> QED BY <1>1, <1>2, <1>5, <2>1, <3>1, <3>2 DEF Guess, PlainAnnotation
  <2>3. CASE open' = Opened(Anon, Here) /\ UNCHANGED events
    BY <1>2, <1>5, <2>1, <2>3 DEF Guess, PlainAnnotation
  <2> QED BY <2>1, <2>2, <2>3 DEF PlainAnnotation
<1>6. CASE ~named /\ kind[m] = "field"
  <2>1. ~isStart /\ ~(OpenOf("field") \subseteq {m})
    BY <1>6 DEF Guessed, MayBePlain
  <2>2. OnFieldmark(m, isStart, named)
    BY <1>6 DEF Sight
  <2>3. PICK last \in OpenOf("field") : Close(last, last) /\ UNCHANGED seen
    BY <1>6, <2>1, <2>2 DEF OnFieldmark
  <2>4. last \in DOMAIN open /\ last \in Rivals(m)
    BY <1>1, <1>6, <2>3 DEF Rivals, OpenOf, Kind
  <2> QED BY <1>1, <1>2, <2>3, <2>4 DEF Guess
<1> QED BY <1>2, <1>4, <1>5, <1>6

\* What meeting the start of a mark does, unless whose it is must be guessed.
LEMMA StartCases ==
  ASSUME MarksTypeOK, Once, NEW m \in Marks, MeetStart(m)
  PROVE  /\ place \in Walks /\ starts[m] = Unmet /\ ends[m] = Unmet /\ m \notin DOMAIN open
         /\ starts' = [starts EXCEPT ![m] = Here]
         /\ UNCHANGED <<kind, ends, stray, place, offset, walked, warned>>
         /\ \/ Guess(m)
            \/ /\ kind[m] = "comment" => Anon \notin DOMAIN open
               /\ open' = Opened(m, Here) /\ UNCHANGED <<events, confused>>
               /\ seen' = IF kind[m] = "field" THEN seen ELSE seen \cup {m}
            \/ /\ kind[m] = "comment" /\ OpenOf("comment") = {}
               /\ open' = Opened(Anon, Here) /\ UNCHANGED <<seen, events, confused>>
<1>1. /\ place \in Walks /\ starts[m] = Unmet /\ ends[m] = Unmet
      /\ starts' = [starts EXCEPT ![m] = Here]
      /\ UNCHANGED <<kind, ends, stray, place, offset, walked, warned>>
  BY DEF MeetStart
<1>2. m \in Nat /\ m # Anon
  BY MarksAssumption DEF Anon
<1>3. m \notin DOMAIN open /\ ~Inside(m)
  BY <1>1, <1>2 DEF Once, Inside
<1>4. PICK named \in BOOLEAN :
        /\ named \/ MayBePlain(m, TRUE)
        /\ Sight(m, TRUE, named)
        /\ confused' = IF Guessed(m, TRUE, named) THEN confused \cup Rivals(m) ELSE confused
  BY DEF MeetStart, Meet
<1>5. CASE Guessed(m, TRUE, named)
  BY <1>1, <1>3, <1>4, <1>5, GuessCases
<1>6. CASE ~Guessed(m, TRUE, named)
  <2>0. confused' = confused
    BY <1>4, <1>6
  <2>1. CASE named /\ NamedAnnotation(m)
    <3>1. m \notin Pending
      BY <1>3 DEF Pending
    <3>2. kind[m] = "comment" /\ Anon \notin DOMAIN open
      BY <1>3, <1>6, <2>1, <3>1 DEF Guessed, NamedAnnotation
    <3> QED BY <1>1, <1>3, <2>0, <2>1, <3>2 DEF NamedAnnotation
  <2>2. CASE ~named /\ kind[m] = "comment" /\ PlainAnnotation
    <3>1. OpenOf("comment") \subseteq {m}
      BY <1>6, <2>2 DEF Guessed
    <3>2. OpenOf("comment") = {}
      BY <1>3, <3>1 DEF OpenOf
    <3> QED BY <1>1, <1>3, <2>0, <2>2, <3>2 DEF PlainAnnotation
  <2>3. CASE named /\ OnBookmark(m, TRUE)
    BY <1>1, <1>3, <2>0, <2>3 DEF OnBookmark
  <2>4. CASE OnFieldmark(m, TRUE, named)
    BY <1>1, <1>3, <2>0, <2>4 DEF OnFieldmark
  <2> QED BY <1>4, <2>1, <2>2, <2>3, <2>4 DEF Sight
<1> QED BY <1>5, <1>6

\* Of the open marks of a kind the last by name is one.
LEMMA TheLast ==
  ASSUME MarksTypeOK, NEW k \in Kinds, NEW m \in OpenOf(k), NEW last \in OpenOf(k),
         \A n \in OpenOf(k) : n <= m, LastByName(last)
  PROVE  last = m
<1>1. m \in Nat /\ last \in Nat /\ Kind(last) = k
  BY MarksAssumption DEF OpenOf, Anon, MarksTypeOK
<1>2. m <= last /\ last <= m
  BY <1>1 DEF LastByName
<1> QED BY <1>1, <1>2

\* What meeting the end of a mark does.
LEMMA EndCases ==
  ASSUME MarksTypeOK, Once, NEW m \in Marks, MeetEnd(m)
  PROVE  /\ place \in Walks /\ ends[m] = Unmet
         /\ starts[m] = Unmet \/ (starts[m] = Outside <=> place # "body")
         /\ starts' = [starts EXCEPT ![m] = IF @ = Unmet THEN Missed ELSE @]
         /\ ends' = [ends EXCEPT ![m] = Here]
         /\ UNCHANGED <<kind, stray, place, offset, walked, warned>>
         /\ \/ Guess(m)
            \/ /\ m \in DOMAIN open /\ Close(m, m) /\ confused' = confused
               /\ seen' = seen \/ seen' = seen \cup {m}
            \/ /\ kind[m] = "comment" /\ m \notin DOMAIN open /\ Anon \in DOMAIN open
               /\ Pending \ DOMAIN open = {m} /\ Close(Anon, m)
               /\ seen' = seen \cup {m} /\ confused' = confused
            \/ /\ kind[m] = "comment" /\ m \notin DOMAIN open /\ Anon \notin DOMAIN open
               /\ open' = Opened(m, Here) /\ seen' = seen \cup {m} /\ UNCHANGED <<events, confused>>
            \/ /\ kind[m] \in {"bookmark", "change"} /\ m \notin DOMAIN open
               /\ Emit(Event(m, Outside, Here, NoText)) /\ seen' = seen \cup {m}
               /\ UNCHANGED <<open, confused>>
            \/ /\ kind[m] = "field" /\ m \notin DOMAIN open
               /\ UNCHANGED <<open, events, seen, confused>>
<1>1. /\ place \in Walks /\ ends[m] = Unmet
      /\ starts[m] = Unmet \/ (starts[m] = Outside <=> place # "body")
      /\ starts' = [starts EXCEPT ![m] = IF @ = Unmet THEN Missed ELSE @]
      /\ ends' = [ends EXCEPT ![m] = Here]
      /\ UNCHANGED <<kind, stray, place, offset, walked, warned>>
  BY DEF MeetEnd
<1>2. m \in Nat /\ m # Anon
  BY MarksAssumption DEF Anon
<1>3. PICK named \in BOOLEAN :
        /\ named \/ MayBePlain(m, FALSE)
        /\ Sight(m, FALSE, named)
        /\ confused' = IF Guessed(m, FALSE, named) THEN confused \cup Rivals(m) ELSE confused
  BY DEF MeetEnd, Meet
<1>4. CASE Guessed(m, FALSE, named)
  BY <1>1, <1>3, <1>4, GuessCases
<1>5. CASE ~Guessed(m, FALSE, named)
  <2>0. confused' = confused
    BY <1>3, <1>5
  <2>1. CASE named /\ NamedAnnotation(m)
    <3>1. kind[m] = "comment"
      BY <2>1 DEF NamedAnnotation
    <3>2. m \in DOMAIN open \/ (Anon \in DOMAIN open => Pending \ DOMAIN open = {m})
      BY <1>5, <2>1, <3>1 DEF Guessed
    <3> QED BY <1>1, <2>0, <2>1, <3>1, <3>2 DEF NamedAnnotation
  <2>2. CASE ~named /\ kind[m] = "comment" /\ PlainAnnotation
    <3>1. m \in DOMAIN open
      BY <1>5, <2>2 DEF Guessed
    <3>2. m \in OpenOf("comment")
      BY <1>2, <2>2, <3>1 DEF OpenOf, Kind
    <3>3. \A n \in OpenOf("comment") : n <= m
      BY <1>2, <1>5, <2>2 DEF Guessed, Inmost
    <3>4. PICK last \in OpenOf("comment") : LastByName(last) /\ Close(last, last)
      BY <2>2, <3>2 DEF PlainAnnotation
    <3>5. last = m
      BY <3>2, <3>3, <3>4, TheLast DEF Kinds
    <3>6. Close(m, m) /\ seen' = seen
      BY <2>2, <3>4, <3>5 DEF PlainAnnotation
    <3> QED BY <1>1, <2>0, <3>1, <3>6
  <2>3. CASE named /\ OnBookmark(m, FALSE)
    BY <1>1, <2>0, <2>3 DEF OnBookmark
  <2>4. CASE OnFieldmark(m, FALSE, named)
    <3>1. kind[m] = "field" /\ UNCHANGED seen
      BY <2>4 DEF OnFieldmark
    <3>2. ~named => OpenOf("field") \subseteq {m} \/ Inmost(m)
      BY <1>5, <3>1 DEF Guessed
    <3>3. m \in OpenOf("field") <=> m \in DOMAIN open
      BY <1>2, <3>1 DEF OpenOf, Kind
    <3>4. CASE named
      <4>1. \/ m \in DOMAIN open /\ Close(m, m)
            \/ m \notin DOMAIN open /\ UNCHANGED <<open, events>>
        BY <2>4, <3>4 DEF OnFieldmark
      <4> QED BY <1>1, <2>0, <3>1, <4>1
    <3>5. CASE OpenOf("field") = {} /\ UNCHANGED <<open, events>>
      BY <1>1, <2>0, <3>1, <3>3, <3>5
    <3>6. CASE ~named /\ \E last \in OpenOf("field") : LastByName(last) /\ Close(last, last)
      <4>1. PICK last \in OpenOf("field") : LastByName(last) /\ Close(last, last)
        BY <3>6
      <4>2. m \in OpenOf("field") /\ \A n \in OpenOf("field") : n <= m
        BY <1>2, <3>1, <3>2, <3>3, <3>6, <4>1 DEF Inmost
      <4>3. last = m
        BY <4>1, <4>2, TheLast DEF Kinds
      <4> QED BY <1>1, <2>0, <3>1, <3>3, <4>1, <4>2, <4>3
    <3> QED BY <2>4, <3>4, <3>5, <3>6 DEF OnFieldmark
  <2> QED BY <1>3, <2>1, <2>2, <2>3, <2>4 DEF Sight
<1> QED BY <1>4, <1>5

----------------------------------------------------------------------------
(* Types *)

OpenMark == [from : Spans, covered : 0..walked]

\* What the later proofs use of the types.
LEMMA TypeFacts ==
  ASSUME MarksTypeOK
  PROVE  /\ MaxText \in Nat /\ walked \in Nat /\ offset \in Nat /\ offset <= walked
         /\ walked <= MaxText /\ Here \in Spans /\ Outside \in Spans /\ NoText \in Spans
         /\ 0..walked \subseteq Spans /\ open \in [DOMAIN open -> OpenMark]
         /\ \A m \in Marks : m \in Nat /\ m # Anon
         /\ \A x \in Spans : x \in Int
         /\ Spans \subseteq -3..MaxText
         /\ Here # Unmet /\ Here # Missed
<1>1. MaxText \in Nat /\ walked \in 0..MaxText /\ offset \in 0..walked
  BY MarksAssumption DEF MarksTypeOK
<1>2. \A m \in Marks : m \in Nat /\ m # Anon
  BY MarksAssumption DEF Anon
<1>3. open \in [DOMAIN open -> OpenMark]
  BY DEF MarksTypeOK, OpenMark
<1>4. /\ Here \in Spans /\ Outside \in Spans /\ NoText \in Spans
      /\ Here # Unmet /\ Here # Missed
  BY <1>1 DEF Here, Outside, NoText, Spans, Unmet, Missed
<1> QED BY <1>1, <1>2, <1>3, <1>4 DEF Spans

\* The open marks after one more, after one less, and after a character.
LEMMA OpenedIs ==
  ASSUME MarksTypeOK, NEW m \in Marks \cup {Anon}, NEW from \in Spans
  PROVE  /\ Opened(m, from) \in [DOMAIN open \cup {m} -> OpenMark]
         /\ Opened(m, from)[m] = [from |-> from, covered |-> 0]
         /\ \A n \in DOMAIN open \ {m} : Opened(m, from)[n] = open[n]
<1>1. open \in [DOMAIN open -> OpenMark] /\ walked \in Nat
  BY TypeFacts
<1>2. [from |-> from, covered |-> 0] \in OpenMark
  BY <1>1 DEF OpenMark
<1> HIDE DEF OpenMark
<1> QED BY <1>1, <1>2 DEF Opened

LEMMA WithoutIs ==
  ASSUME MarksTypeOK, NEW m
  PROVE  /\ Without(m) \in [DOMAIN open \ {m} -> OpenMark]
         /\ \A n \in DOMAIN open \ {m} : Without(m)[n] = open[n]
<1>1. open \in [DOMAIN open -> OpenMark]
  BY TypeFacts
<1> QED BY <1>1 DEF Without

LEMMA HearIs ==
  ASSUME MarksTypeOK
  PROVE  /\ Hear \in [DOMAIN open -> [from : Spans, covered : 0..(walked + 1)]]
         /\ \A n \in DOMAIN open :
              Hear[n].from = open[n].from /\ Hear[n].covered = open[n].covered + 1
<1>1. open \in [DOMAIN open -> [from : Spans, covered : 0..walked]] /\ walked \in Nat
  BY TypeFacts DEF OpenMark
<1>2. ASSUME NEW n \in DOMAIN open
      PROVE  /\ [open[n] EXCEPT !.covered = @ + 1] \in [from : Spans, covered : 0..(walked + 1)]
             /\ [open[n] EXCEPT !.covered = @ + 1].from = open[n].from
             /\ [open[n] EXCEPT !.covered = @ + 1].covered = open[n].covered + 1
  <2>1. open[n] \in [from : Spans, covered : 0..walked]
    BY <1>1
  <2> QED BY <1>1, <2>1
<1> QED BY <1>2 DEF Hear

\* What closing a mark, open under its own name or waiting for it, does.
LEMMA CloseIs ==
  ASSUME MarksTypeOK, NEW m \in DOMAIN open, NEW as \in Marks \cup {Anon}, Close(m, as)
  PROVE  \E e \in NoteEvents :
           /\ Emit(e) /\ e.mark = as /\ e.from = open[m].from /\ e.to = Here
           /\ e.covered = open[m].covered
           /\ open' = Without(m)
<1>1. open[m] \in OpenMark /\ Here \in Spans /\ 0..walked \subseteq Spans
  BY TypeFacts
<1>2. open[m].from \in Spans /\ open[m].covered \in Spans
  BY <1>1 DEF OpenMark
<1> DEFINE e == Event(as, open[m].from, Here, open[m].covered)
<1>3. /\ e \in NoteEvents /\ e.mark = as /\ e.from = open[m].from /\ e.to = Here
      /\ e.covered = open[m].covered
  BY <1>1, <1>2 DEF Event, NoteEvents
<1>4. Emit(e) /\ open' = Without(m)
  BY DEF Close
<1> HIDE DEF e
<1> QED BY <1>3, <1>4

\* Meeting a boundary leaves the text alone.
LEMMA BoundaryTyped ==
  ASSUME MarksTypeOK, UNCHANGED <<kind, stray, place, offset, walked>>,
         warned' \in BOOLEAN, seen' \subseteq Marks, confused' \subseteq Marks,
         starts' \in [Marks -> -3..MaxText], ends' \in [Marks -> -3..MaxText],
         events' \in Seq(NoteEvents),
         DOMAIN open' \subseteq Marks \cup {Anon}, open' \in [DOMAIN open' -> OpenMark]
  PROVE  MarksTypeOK'
<1>1. open' \in [DOMAIN open' -> [from : Spans, covered : 0..walked']]
  BY DEF OpenMark
<1>2. Spans' = Spans
  BY DEF Spans
<1>3. NoteEvents' = NoteEvents
  BY DEF NoteEvents, Spans
<1> QED BY <1>1, <1>2, <1>3 DEF MarksTypeOK

\* Telling of a mark not told of yet tells of no mark twice.
LEMMA TellsOnce ==
  ASSUME MarksTypeOK, NeverTwice, Clear' \subseteq Clear, NEW e \in NoteEvents, Emit(e),
         e.mark \in Clear' => e.mark \notin Told
  PROVE  NeverTwice'
<1>1. /\ Len(events) \in Nat /\ Len(events') = Len(events) + 1
      /\ events'[Len(events) + 1] = e
      /\ \A i \in 1..Len(events) : events'[i] = events[i]
  BY OneMore DEF MarksTypeOK
<1>2. e.mark \in Clear' => \A i \in 1..Len(events) : events'[i].mark # e.mark
  BY <1>1 DEF Told
<1>3. \A i \in 1..Len(events') : i = Len(events) + 1 \/ i \in 1..Len(events)
  BY <1>1
<1>4. \A i \in 1..Len(events), j \in 1..Len(events) :
        events'[i].mark \in Clear' /\ events'[i].mark = events'[j].mark => i = j
  BY <1>1 DEF NeverTwice
<1> SUFFICES ASSUME NEW i \in 1..Len(events'), NEW j \in 1..Len(events'),
                    events'[i].mark \in Clear', events'[i].mark = events'[j].mark
             PROVE  i = j
  BY DEF NeverTwice
<1> QED BY <1>1, <1>2, <1>3, <1>4

\* What a guess comes to: the marks it may not be about are as they were.
LEMMA GuessIs ==
  ASSUME MarksTypeOK, Once, NEW m \in Marks, Guess(m), kind' = kind
  PROVE  /\ events' \in Seq(NoteEvents) /\ confused' \subseteq Marks
         /\ DOMAIN open' \subseteq DOMAIN open \cup {Anon} /\ open' \in [DOMAIN open' -> OpenMark]
         /\ seen \subseteq seen' /\ seen' \subseteq Marks
         /\ m \notin Clear' /\ Clear' \subseteq Clear /\ Clear' \cap Rivals(m) = {}
         /\ Told \subseteq Told' /\ NeverTwice'
         /\ \A x \in Marks : kind[x] # "field" /\ x \in Told' \cup DOMAIN open' => x \in seen'
         /\ \A x \in Clear' : /\ (x \in DOMAIN open' <=> x \in DOMAIN open)
                             /\ (x \in DOMAIN open => open'[x] = open[x])
                             /\ (x \in Told' <=> x \in Told)
                             /\ (x \in seen' <=> x \in seen)
         /\ kind[m] = "field" => /\ (Anon \in DOMAIN open' <=> Anon \in DOMAIN open)
                                 /\ (Anon \in DOMAIN open => open'[Anon] = open[Anon])
         /\ \/ UNCHANGED events
            \/ \E e \in NoteEvents : Emit(e) /\ e.mark \notin Clear'
<1>1. /\ m \in Rivals(m) /\ Rivals(m) \subseteq Marks /\ confused \subseteq Marks
      /\ seen \subseteq Marks /\ events \in Seq(NoteEvents)
      /\ DOMAIN open \subseteq Marks \cup {Anon} /\ Anon \notin Marks
      /\ open \in [DOMAIN open -> OpenMark]
  BY TypeFacts DEF Rivals, MarksTypeOK
<1>2. /\ confused' \subseteq Marks /\ seen \subseteq seen' /\ seen' \subseteq Marks
      /\ m \notin Clear' /\ Clear' \subseteq Clear /\ Clear' \cap Rivals(m) = {}
      /\ Clear' \subseteq Marks
      /\ \A x \in Clear' : x # m /\ x # Anon /\ (x \in seen' <=> x \in seen)
  <2>1. confused' = confused \cup Rivals(m) /\ (seen' = seen \/ seen' = seen \cup {m})
    BY DEF Guess
  <2> QED BY <1>1, <2>1 DEF Clear
<1>3. \A x \in Marks : kind[x] # "field" /\ x \in Told \cup DOMAIN open => x \in seen
  BY DEF Once
<1>4. CASE \E n \in DOMAIN open, as \in Marks \cup {Anon} :
             /\ Close(n, as)
             /\ as = n \/ (as = m /\ m \in seen')
             /\ n \in Rivals(m) \/ (n = Anon /\ kind[m] = "comment")
  <2>1. PICK n \in DOMAIN open, as \in Marks \cup {Anon} :
             /\ Close(n, as)
             /\ as = n \/ (as = m /\ m \in seen')
             /\ n \in Rivals(m) \/ (n = Anon /\ kind[m] = "comment")
    BY <1>4
  <2>2. PICK e \in NoteEvents : Emit(e) /\ e.mark = as /\ open' = Without(n)
    BY <2>1, CloseIs
  <2>3. /\ open' \in [DOMAIN open \ {n} -> OpenMark]
        /\ \A x \in DOMAIN open \ {n} : open'[x] = open[x]
    BY <2>2, WithoutIs
  <2>4. DOMAIN open' = DOMAIN open \ {n} /\ open' \in [DOMAIN open' -> OpenMark]
    BY <2>3
  <2>5. events' \in Seq(NoteEvents) /\ Told' = Told \cup {as}
    BY <1>1, <2>2, OneMore
  <2>6. n \notin Clear' /\ as \notin Clear'
    BY <1>1, <1>2, <2>1
  <2>7. NeverTwice'
    BY <1>2, <2>2, <2>6, TellsOnce DEF Once
  <2>8. \A x \in Marks : kind[x] # "field" /\ x \in Told' \cup DOMAIN open' => x \in seen'
    BY <1>2, <1>3, <2>1, <2>4, <2>5
  <2>9. \A x \in Clear' : /\ (x \in DOMAIN open' <=> x \in DOMAIN open)
                         /\ (x \in DOMAIN open => open'[x] = open[x])
                         /\ (x \in Told' <=> x \in Told)
    BY <2>3, <2>4, <2>5, <2>6
  <2>10. kind[m] = "field" => n # Anon
    BY <1>1, <2>1
  <2>11. kind[m] = "field" => /\ (Anon \in DOMAIN open' <=> Anon \in DOMAIN open)
                             /\ (Anon \in DOMAIN open => open'[Anon] = open[Anon])
    BY <2>3, <2>4, <2>10
  <2>12. \E d \in NoteEvents : Emit(d) /\ d.mark \notin Clear'
    BY <2>2, <2>6
  <2> QED BY <1>2, <2>4, <2>5, <2>7, <2>8, <2>9, <2>11, <2>12
<1>5. CASE kind[m] = "comment" /\ open' = Opened(Anon, Here) /\ UNCHANGED events
  <2>1. /\ open' \in [DOMAIN open \cup {Anon} -> OpenMark]
        /\ \A x \in DOMAIN open \ {Anon} : open'[x] = open[x]
    BY <1>5, OpenedIs, TypeFacts
  <2>2. DOMAIN open' = DOMAIN open \cup {Anon} /\ open' \in [DOMAIN open' -> OpenMark]
    BY <2>1
  <2>3. Told' = Told /\ NeverTwice'
    BY <1>2, <1>5 DEF Told, NeverTwice, Once
  <2>4. \A x \in Marks : kind[x] # "field" /\ x \in Told' \cup DOMAIN open' => x \in seen'
    BY <1>1, <1>2, <1>3, <2>2, <2>3
  <2>5. \A x \in Clear' : /\ (x \in DOMAIN open' <=> x \in DOMAIN open)
                         /\ (x \in DOMAIN open => open'[x] = open[x])
                         /\ (x \in Told' <=> x \in Told)
    BY <1>2, <2>1, <2>2, <2>3
  <2> QED BY <1>1, <1>2, <1>5, <2>2, <2>3, <2>4, <2>5
<1> QED BY <1>4, <1>5 DEF Guess

\* The steps of the walk that meet a boundary keep the types.
LEMMA StartTyped ==
  ASSUME MarksTypeOK, Once, NEW m \in Marks, MeetStart(m)
  PROVE  MarksTypeOK'
<1>1. Here \in -3..MaxText /\ Here \in Spans
  BY TypeFacts
<1>2. starts' \in [Marks -> -3..MaxText] /\ UNCHANGED <<kind, ends, stray, place, offset, walked, warned>>
  BY <1>1, StartCases DEF MarksTypeOK
<1>3. CASE Guess(m)
  <2>1. /\ events' \in Seq(NoteEvents) /\ confused' \subseteq Marks /\ seen' \subseteq Marks
        /\ DOMAIN open' \subseteq Marks \cup {Anon} /\ open' \in [DOMAIN open' -> OpenMark]
    BY <1>2, <1>3, GuessIs DEF MarksTypeOK
  <2> QED BY <1>2, <2>1, BoundaryTyped DEF MarksTypeOK
<1>4. CASE ~Guess(m)
  <2>1. seen' \subseteq Marks /\ UNCHANGED <<events, confused>>
    BY <1>4, StartCases DEF MarksTypeOK
  <2>2. PICK n \in Marks \cup {Anon} : open' = Opened(n, Here)
    BY <1>4, StartCases
  <2>3. open' \in [DOMAIN open \cup {n} -> OpenMark]
    BY <1>1, <2>2, OpenedIs
  <2>4. DOMAIN open' \subseteq Marks \cup {Anon} /\ open' \in [DOMAIN open' -> OpenMark]
    BY <2>3 DEF MarksTypeOK
  <2> QED BY <1>2, <2>1, <2>4, BoundaryTyped DEF MarksTypeOK
<1> QED BY <1>3, <1>4

LEMMA EndTyped ==
  ASSUME MarksTypeOK, Once, NEW m \in Marks, MeetEnd(m)
  PROVE  MarksTypeOK'
<1>1. Here \in -3..MaxText /\ Here \in Spans /\ Missed \in -3..MaxText
  BY TypeFacts DEF Missed
<1>2. /\ starts' \in [Marks -> -3..MaxText] /\ ends' \in [Marks -> -3..MaxText]
      /\ UNCHANGED <<kind, stray, place, offset, walked, warned>>
  BY <1>1, EndCases DEF MarksTypeOK
<1>3. CASE Guess(m)
  <2>1. /\ events' \in Seq(NoteEvents) /\ confused' \subseteq Marks /\ seen' \subseteq Marks
        /\ DOMAIN open' \subseteq Marks \cup {Anon} /\ open' \in [DOMAIN open' -> OpenMark]
    BY <1>2, <1>3, GuessIs DEF MarksTypeOK
  <2> QED BY <1>2, <2>1, BoundaryTyped DEF MarksTypeOK
<1>4. CASE ~Guess(m)
  <2>0. /\ events \in Seq(NoteEvents) /\ open \in [DOMAIN open -> OpenMark]
        /\ DOMAIN open \subseteq Marks \cup {Anon}
    BY TypeFacts DEF MarksTypeOK
  <2>1. seen' \subseteq Marks /\ confused' \subseteq Marks
    <3>1. (seen' = seen \/ seen' = seen \cup {m}) /\ confused' = confused
      BY <1>4, EndCases
    <3> QED BY <3>1 DEF MarksTypeOK
  <2>2. /\ events' \in Seq(NoteEvents) /\ DOMAIN open' \subseteq Marks \cup {Anon}
        /\ open' \in [DOMAIN open' -> OpenMark]
    <3>1. CASE \E n \in DOMAIN open : Close(n, m)
      <4>0. PICK n \in DOMAIN open : Close(n, m)
        BY <3>1
      <4>1. PICK e \in NoteEvents : Emit(e) /\ open' = Without(n)
        BY <4>0, CloseIs
      <4>2. open' \in [DOMAIN open \ {n} -> OpenMark]
        BY <4>1, WithoutIs
      <4> QED BY <2>0, <4>1, <4>2, OneMore
    <3>2. CASE open' = Opened(m, Here) /\ UNCHANGED events
      <4>1. open' \in [DOMAIN open \cup {m} -> OpenMark]
        BY <1>1, <3>2, OpenedIs
      <4> QED BY <2>0, <3>2, <4>1
    <3>3. CASE Emit(Event(m, Outside, Here, NoText)) /\ UNCHANGED open
      <4>1. Event(m, Outside, Here, NoText) \in NoteEvents
        BY TypeFacts DEF Event, NoteEvents
      <4>2. events' \in Seq(NoteEvents)
        BY <2>0, <3>3, <4>1, OneMore
      <4> QED BY <2>0, <3>3, <4>2
    <3>4. CASE UNCHANGED <<open, events>>
      BY <2>0, <3>4
    <3> QED BY <1>4, <3>1, <3>2, <3>3, <3>4, EndCases
  <2> QED BY <1>2, <2>1, <2>2, BoundaryTyped DEF MarksTypeOK
<1> QED BY <1>3, <1>4

LEMMA PointTyped ==
  ASSUME MarksTypeOK, NEW m \in Marks, MeetPoint(m)
  PROVE  MarksTypeOK'
<1>1. Here \in -3..MaxText /\ Here \in Spans /\ NoText \in Spans
  BY TypeFacts
<1>2. /\ starts' \in [Marks -> -3..MaxText] /\ ends' \in [Marks -> -3..MaxText]
      /\ UNCHANGED <<kind, stray, place, offset, walked, warned, open, confused>>
      /\ seen' \subseteq Marks
  BY <1>1 DEF MarksTypeOK, MeetPoint, OnPoint
<1>3. Event(m, Here, Here, NoText) \in NoteEvents
  BY <1>1 DEF Event, NoteEvents
<1>4. events' \in Seq(NoteEvents)
  BY <1>3, OneMore DEF MarksTypeOK, MeetPoint, OnPoint
<1> QED BY <1>2, <1>4, BoundaryTyped, TypeFacts DEF MarksTypeOK

LEMMA FailTyped ==
  ASSUME MarksTypeOK, NEW m \in Marks, FailToRead(m)
  PROVE  MarksTypeOK'
<1>1. Here \in -3..MaxText /\ 0 \in Spans
  BY TypeFacts DEF Spans
<1>2. /\ starts' \in [Marks -> -3..MaxText] /\ ends' \in [Marks -> -3..MaxText]
      /\ UNCHANGED <<kind, stray, place, offset, walked, events, confused>>
      /\ seen' \subseteq Marks
      /\ warned' \in BOOLEAN
  BY <1>1 DEF MarksTypeOK, FailToRead, Warn
<1>3. open \in [DOMAIN open -> OpenMark] /\ DOMAIN open \subseteq Marks \cup {Anon}
  BY TypeFacts DEF MarksTypeOK
<1>4. open' = open \/ open' = Without(Anon) \/ open' = Opened(m, 0)
  BY DEF FailToRead
<1>5. DOMAIN open' \subseteq Marks \cup {Anon} /\ open' \in [DOMAIN open' -> OpenMark]
  <2>1. Without(Anon) \in [DOMAIN open \ {Anon} -> OpenMark]
    BY WithoutIs
  <2>2. Opened(m, 0) \in [DOMAIN open \cup {m} -> OpenMark]
    BY <1>1, OpenedIs
  <2> QED BY <1>3, <1>4, <2>1, <2>2
<1> QED BY <1>2, <1>5, BoundaryTyped DEF MarksTypeOK

\* So do the steps that meet text and what finish does.
LEMMA TextTyped ==
  ASSUME MarksTypeOK, ReadText \/ EndParagraph
  PROVE  MarksTypeOK'
<1>1. /\ MaxText \in Nat /\ walked \in Nat /\ offset \in Nat /\ offset <= walked
      /\ walked < MaxText /\ walked' = walked + 1 /\ offset' \in {offset, offset + 1}
      /\ UNCHANGED <<kind, starts, ends, place, seen, events, confused>> /\ warned' \in BOOLEAN
  BY TypeFacts DEF ReadText, EndParagraph, RunRead, document, Warn, MarksTypeOK
<1>2. open' \in [DOMAIN open -> [from : Spans, covered : 0..walked']]
  <2>1. Hear \in [DOMAIN open -> [from : Spans, covered : 0..walked']]
    BY <1>1, HearIs
  <2>2. open \in [DOMAIN open -> [from : Spans, covered : 0..walked]] /\ 0..walked \subseteq 0..walked'
    BY <1>1 DEF MarksTypeOK
  <2>3. open \in [DOMAIN open -> [from : Spans, covered : 0..walked']]
    BY <2>2
  <2>4. open' = Hear \/ open' = open
    BY DEF ReadText, EndParagraph, Break
  <2> QED BY <2>1, <2>3, <2>4
<1>3. stray' \in [Marks -> -walked'..walked']
  <2>1. stray \in [Marks -> -walked..walked]
    BY DEF MarksTypeOK
  <2>2. CASE \E n \in {-1, 0, 1} : AddStray(n)
    <3>0. PICK n \in {-1, 0, 1} : AddStray(n)
      BY <2>2
    <3>1. \A m \in Marks : (IF Inside(m) THEN stray[m] + n ELSE stray[m]) \in -walked'..walked'
      BY <1>1, <2>1, <3>0
    <3> QED BY <3>0, <3>1 DEF AddStray
  <2>3. CASE ReadText
    <3>1. \E n \in {-1, 0, 1} : AddStray(n)
      BY <2>3 DEF ReadText
    <3> QED BY <2>2, <3>1
  <2>4. CASE EndParagraph
    <3>1. stray' = stray
      BY <2>4 DEF EndParagraph, document
    <3>2. \A m \in Marks : stray[m] \in -walked'..walked'
      BY <1>1, <2>1
    <3> QED BY <2>1, <3>1, <3>2
  <2> QED BY <2>3, <2>4
<1>4. walked' \in 0..MaxText /\ offset' \in 0..walked'
  BY <1>1
<1>5. Spans' = Spans /\ NoteEvents' = NoteEvents
  BY DEF Spans, NoteEvents
<1>6. DOMAIN open' = DOMAIN open
  BY <1>2
<1> QED BY <1>1, <1>2, <1>3, <1>4, <1>5, <1>6 DEF MarksTypeOK

LEMMA FlushTyped ==
  ASSUME MarksTypeOK, Once, Flush
  PROVE  MarksTypeOK'
<1>1. UNCHANGED <<kind, starts, ends, stray, offset, walked, seen, warned, confused>>
  BY DEF Flush, document
<1>2. /\ events \in Seq(NoteEvents) /\ open \in [DOMAIN open -> OpenMark]
      /\ DOMAIN open \subseteq Marks \cup {Anon}
  BY TypeFacts DEF MarksTypeOK
<1>3. CASE place' = "sweep" /\ UNCHANGED <<open, events>>
  <2>1. Spans' = Spans /\ NoteEvents' = NoteEvents
    BY DEF Spans, NoteEvents
  <2>2. place' \in Walks \cup {"flush", "sweep", "done", "failed"}
    BY <1>3
  <2> QED BY <1>1, <1>3, <2>1, <2>2 DEF MarksTypeOK
<1>4. ASSUME NEW m \in DOMAIN open, Emit(Flushed(m)), open' = Without(m), UNCHANGED place
      PROVE  MarksTypeOK'
  <2>1. open[m] \in OpenMark /\ NoText \in Spans /\ -1 \in Spans
    BY <1>2, TypeFacts DEF NoText
  <2>2. open[m].from \in Spans
    BY <2>1 DEF OpenMark
  <2>3. Flushed(m) \in NoteEvents
    BY <1>2, <2>1, <2>2 DEF Flushed, Event, NoteEvents
  <2>4. events' \in Seq(NoteEvents)
    BY <1>2, <1>4, <2>3, OneMore
  <2>5. open' \in [DOMAIN open \ {m} -> OpenMark]
    BY <1>4, WithoutIs
  <2>6. DOMAIN open' \subseteq Marks \cup {Anon} /\ open' \in [DOMAIN open' -> OpenMark]
    BY <1>2, <2>5
  <2> QED BY <1>1, <1>4, <2>4, <2>6, BoundaryTyped DEF MarksTypeOK
<1> QED BY <1>3, <1>4 DEF Flush

LEMMA SweepTyped ==
  ASSUME MarksTypeOK, Sweep
  PROVE  MarksTypeOK'
<1>1. UNCHANGED <<kind, starts, ends, stray, offset, walked, open, confused>>
  BY DEF Sweep, document
<1>2. events \in Seq(NoteEvents)
  BY DEF MarksTypeOK
<1>3. events' \in Seq(NoteEvents) /\ seen' \subseteq Marks
  <2>1. CASE \E m \in Unseen : Emit(Event(m, Outside, Outside, NoText)) /\ seen' = seen \cup {m}
    <3>0. PICK m \in Unseen : Emit(Event(m, Outside, Outside, NoText)) /\ seen' = seen \cup {m}
      BY <2>1
    <3>1. Event(m, Outside, Outside, NoText) \in NoteEvents
      BY TypeFacts DEF Unseen, Event, NoteEvents
    <3>2. m \in Marks
      BY DEF Unseen
    <3> QED BY <1>2, <3>0, <3>1, <3>2, OneMore DEF MarksTypeOK
  <2>2. CASE UNCHANGED <<seen, events>>
    BY <1>2, <2>2 DEF MarksTypeOK
  <2> QED BY <2>1, <2>2 DEF Sweep
<1>4. place' \in Walks \cup {"flush", "sweep", "done", "failed"} /\ warned' \in BOOLEAN
  BY DEF Sweep, Warn, MarksTypeOK
<1>5. Spans' = Spans /\ NoteEvents' = NoteEvents
  BY DEF Spans, NoteEvents
<1> QED BY <1>1, <1>3, <1>4, <1>5 DEF MarksTypeOK

LEMMA MarksTypeStep ==
  ASSUME MarksTypeOK, Once, [MarksNext]_marksVars
  PROVE  MarksTypeOK'
<1>0. Spans' = Spans /\ NoteEvents' = NoteEvents
  BY DEF Spans, NoteEvents
<1>1. CASE Move
  <2>1. ends' \in [Marks -> -3..MaxText]
    <3>1. Missed \in -3..MaxText
      BY TypeFacts DEF Missed
    <3> QED BY <1>1, <3>1 DEF Move, MarksTypeOK
  <2>2. place' \in Walks \cup {"flush", "sweep", "done", "failed"}
    BY <1>1 DEF Move, Walks
  <2>3. confused' \subseteq Marks
    BY <1>1 DEF Move, Pending, MarksTypeOK
  <2> QED BY <1>0, <1>1, <2>1, <2>2, <2>3 DEF Move, MarksTypeOK
<1>2. CASE Unwind \/ Ended \/ UNCHANGED marksVars
  <2>1. UNCHANGED <<kind, starts, ends, stray, offset, walked, open, seen, events, warned, confused>>
    BY <1>2 DEF Unwind, Ended, marksVars, document
  <2>2. place' \in Walks \cup {"flush", "sweep", "done", "failed"}
    BY <1>2 DEF Unwind, Ended, marksVars, MarksTypeOK
  <2> QED BY <1>0, <2>1, <2>2 DEF MarksTypeOK
<1>3. CASE ReadText \/ EndParagraph
  BY <1>3, TextTyped
<1>4. ASSUME NEW m \in Marks, MeetStart(m) \/ MeetEnd(m) \/ MeetPoint(m) \/ FailToRead(m)
      PROVE  MarksTypeOK'
  BY <1>4, StartTyped, EndTyped, PointTyped, FailTyped
<1>5. CASE Flush
  BY <1>5, FlushTyped
<1>6. CASE Sweep
  BY <1>6, SweepTyped
<1> QED BY <1>1, <1>2, <1>3, <1>4, <1>5, <1>6 DEF MarksNext

----------------------------------------------------------------------------
(* Each mark once *)

\* Once, at first and in every step of the walk and of finish.
LEMMA OnceInit == ASSUME MarksInit PROVE Once
<1>1. events = <<>> /\ DOMAIN open = {} /\ place = "body" /\ \A m \in Marks : ends[m] = Unmet
  BY DEF MarksInit
<1>2. Told = {} /\ NeverTwice
  BY <1>1 DEF Told, NeverTwice
<1> QED BY <1>1, <1>2 DEF Once, Walks

\* What only can be guessed at, meets no mark but those it may be about.
LEMMA GuessOnce ==
  ASSUME MarksTypeOK, Once, NEW m \in Marks, Guess(m), place \in Walks,
         UNCHANGED <<kind, place>>, starts'[m] # Unmet,
         \A x \in Marks \ {m} : starts'[x] = starts[x] /\ ends'[x] = ends[x]
  PROVE  Once'
<1>1. /\ DOMAIN open' \subseteq DOMAIN open \cup {Anon} /\ DOMAIN open \subseteq Marks \cup {Anon}
      /\ m \notin Clear' /\ Clear' \subseteq Clear /\ NeverTwice'
      /\ \A x \in Marks : kind[x] # "field" /\ x \in Told' \cup DOMAIN open' => x \in seen'
      /\ \A x \in Clear' : (x \in DOMAIN open' <=> x \in DOMAIN open) /\ (x \in Told' <=> x \in Told)
  BY GuessIs DEF MarksTypeOK
<1>2. \A x \in DOMAIN open' : x \in Clear' => x \notin Told'
  BY <1>1 DEF Once
<1>3. \A x \in DOMAIN open' \ {Anon} : starts'[x] # Unmet
  BY <1>1 DEF Once
<1>4. \A x \in Marks : starts'[x] = Unmet => ends'[x] = Unmet
  BY DEF Once
<1>5. \A x \in Clear' : x \in Marks /\ (x \in Told' => ends'[x] # Unmet)
  BY <1>1 DEF Once, Clear
<1> QED BY <1>1, <1>2, <1>3, <1>4, <1>5 DEF Once, Walks

LEMMA StartOnce ==
  ASSUME MarksTypeOK, Once, NEW m \in Marks, MeetStart(m)
  PROVE  Once'
<1>1. /\ place \in Walks /\ starts[m] = Unmet /\ ends[m] = Unmet
      /\ starts' = [starts EXCEPT ![m] = Here]
      /\ UNCHANGED <<kind, ends, stray, place, offset, walked, warned>>
  BY StartCases
<1>2. starts'[m] # Unmet /\ \A x \in Marks \ {m} : starts'[x] = starts[x]
  BY <1>1, TypeFacts DEF MarksTypeOK
<1>3. CASE Guess(m)
  BY <1>1, <1>2, <1>3, GuessOnce
<1>4. CASE ~Guess(m)
  <2>1. UNCHANGED <<events, confused>>
    BY <1>4, StartCases
  <2>2. Told' = Told /\ Clear' = Clear /\ NeverTwice'
    BY <2>1 DEF Told, Clear, NeverTwice, Once
  <2>3. PICK n \in {m, Anon} :
          /\ open' = Opened(n, Here)
          /\ n = m => seen' = IF kind[m] = "field" THEN seen ELSE seen \cup {m}
          /\ n = Anon => seen' = seen
    BY <1>4, StartCases, TypeFacts
  <2>4. DOMAIN open' = DOMAIN open \cup {n} /\ seen \subseteq seen'
    BY <2>3, OpenedIs, TypeFacts
  <2>5. (m \in Clear => m \notin Told) /\ m # Anon /\ Anon \notin Clear
    BY <1>1, TypeFacts DEF Once, Clear
  <2>6. DOMAIN open \subseteq Marks \cup {Anon}
    BY DEF MarksTypeOK
  <2>7. \A x \in DOMAIN open' : x \in Clear' => x \notin Told'
    BY <2>2, <2>3, <2>4, <2>5 DEF Once
  <2>8. \A x \in DOMAIN open' \ {Anon} : starts'[x] # Unmet
    BY <1>2, <2>3, <2>4, <2>6 DEF Once
  <2>9. \A x \in Marks :
          /\ x \in Clear' /\ x \in Told' /\ ends'[x] = Unmet => place' \notin Walks
          /\ starts'[x] = Unmet => ends'[x] = Unmet
    BY <1>1, <1>2, <2>2 DEF Once
  <2>10. \A x \in Marks : kind'[x] # "field" /\ x \in Told' \cup DOMAIN open' => x \in seen'
    BY <1>1, <2>2, <2>3, <2>4, TypeFacts DEF Once
  <2> QED BY <1>1, <2>2, <2>7, <2>8, <2>9, <2>10 DEF Once, Walks
<1> QED BY <1>3, <1>4

\* What the end of a mark comes to, for what is told and what is open.
LEMMA EndTells ==
  ASSUME MarksTypeOK, Once, NEW m \in Marks, MeetEnd(m), ~Guess(m)
  PROVE  /\ NeverTwice' /\ seen \subseteq seen' /\ (m \in Clear => m \notin Told)
         /\ Clear' = Clear
         /\ \/ /\ Told' = Told \cup {m} /\ m \notin DOMAIN open'
               /\ DOMAIN open' \subseteq DOMAIN open
               /\ kind[m] # "field" => m \in seen'
            \/ /\ Told' = Told /\ DOMAIN open' = DOMAIN open \cup {m}
               /\ m \in seen'
            \/ Told' = Told /\ DOMAIN open' = DOMAIN open /\ m \notin DOMAIN open
<1>1. place \in Walks /\ ends[m] = Unmet /\ m # Anon /\ Clear' = Clear
  BY EndCases, TypeFacts DEF Clear
<1>2. (m \in Clear => m \notin Told) /\ NeverTwice
  BY <1>1 DEF Once
<1>3. CASE m \in DOMAIN open /\ Close(m, m) /\ (seen' = seen \/ seen' = seen \cup {m})
  <2>1. PICK e \in NoteEvents : Emit(e) /\ e.mark = m /\ open' = Without(m)
    BY <1>3, CloseIs
  <2>2. NeverTwice' /\ Told' = Told \cup {m}
    BY <1>1, <1>2, <2>1, TellsOnce, OneMore DEF MarksTypeOK
  <2>3. DOMAIN open' = DOMAIN open \ {m}
    BY <2>1, WithoutIs
  <2>4. kind[m] # "field" => m \in seen
    BY <1>3 DEF Once
  <2> QED BY <1>1, <1>2, <1>3, <2>2, <2>3, <2>4
<1>4. CASE m \notin DOMAIN open /\ Anon \in DOMAIN open /\ Close(Anon, m) /\ seen' = seen \cup {m}
  <2>1. PICK e \in NoteEvents : Emit(e) /\ e.mark = m /\ open' = Without(Anon)
    BY <1>4, CloseIs
  <2>2. NeverTwice' /\ Told' = Told \cup {m}
    BY <1>1, <1>2, <2>1, TellsOnce, OneMore DEF MarksTypeOK
  <2>3. DOMAIN open' = DOMAIN open \ {Anon}
    BY <2>1, WithoutIs
  <2> QED BY <1>1, <1>2, <1>4, <2>2, <2>3
<1>5. CASE m \notin DOMAIN open /\ open' = Opened(m, Here) /\ seen' = seen \cup {m} /\ UNCHANGED events
  <2>1. DOMAIN open' = DOMAIN open \cup {m}
    BY <1>5, OpenedIs, TypeFacts
  <2>2. NeverTwice' /\ Told' = Told
    BY <1>1, <1>2, <1>5 DEF NeverTwice, Told
  <2> QED BY <1>1, <1>2, <1>5, <2>1, <2>2
<1>6. CASE /\ m \notin DOMAIN open /\ Emit(Event(m, Outside, Here, NoText))
           /\ seen' = seen \cup {m} /\ UNCHANGED open
  <2>1. Event(m, Outside, Here, NoText) \in NoteEvents /\ Event(m, Outside, Here, NoText).mark = m
    BY TypeFacts DEF Event, NoteEvents
  <2>2. NeverTwice' /\ Told' = Told \cup {m}
    BY <1>1, <1>2, <1>6, <2>1, TellsOnce, OneMore DEF MarksTypeOK
  <2> QED BY <1>1, <1>2, <1>6, <2>2
<1>7. CASE m \notin DOMAIN open /\ UNCHANGED <<open, events, seen>>
  <2>1. NeverTwice' /\ Told' = Told
    BY <1>1, <1>2, <1>7 DEF NeverTwice, Told
  <2> QED BY <1>1, <1>2, <1>7, <2>1
<1> QED BY <1>3, <1>4, <1>5, <1>6, <1>7, EndCases

LEMMA EndOnce ==
  ASSUME MarksTypeOK, Once, NEW m \in Marks, MeetEnd(m)
  PROVE  Once'
<1>1. /\ place \in Walks /\ ends[m] = Unmet /\ place' = place /\ kind' = kind
      /\ starts' = [starts EXCEPT ![m] = IF @ = Unmet THEN Missed ELSE @]
      /\ ends' = [ends EXCEPT ![m] = Here]
  BY EndCases
<1>2. /\ starts'[m] # Unmet /\ ends'[m] # Unmet
      /\ \A x \in Marks \ {m} : starts'[x] = starts[x] /\ ends'[x] = ends[x]
  BY <1>1, TypeFacts DEF MarksTypeOK, Unmet, Missed
<1>3. CASE Guess(m)
  BY <1>1, <1>2, <1>3, GuessOnce
<1>4. CASE ~Guess(m)
  <2>1. /\ DOMAIN open' \subseteq DOMAIN open \cup {m} /\ Told' \subseteq Told \cup {m}
        /\ seen \subseteq seen' /\ (m \in Clear => m \notin Told) /\ NeverTwice' /\ m # Anon
        /\ Clear' = Clear
        /\ m \in Clear /\ m \in Told' => m \notin DOMAIN open'
        /\ kind[m] # "field" /\ m \in Told' \cup DOMAIN open' => m \in seen'
    <3>1. kind[m] # "field" /\ m \in Told \cup DOMAIN open => m \in seen
      BY DEF Once
    <3> QED BY <1>4, <3>1, EndTells, TypeFacts
  <2>2. DOMAIN open \subseteq Marks \cup {Anon}
    BY DEF MarksTypeOK
  <2>3. \A x \in DOMAIN open' : x \in Clear' => x \notin Told'
    BY <2>1 DEF Once
  <2>4. \A x \in DOMAIN open' \ {Anon} : starts'[x] # Unmet
    BY <1>2, <2>1, <2>2 DEF Once
  <2>5. \A x \in Marks :
          /\ x \in Clear' /\ x \in Told' /\ ends'[x] = Unmet => place' \notin Walks
          /\ starts'[x] = Unmet => ends'[x] = Unmet
          /\ kind'[x] # "field" /\ x \in Told' \cup DOMAIN open' => x \in seen'
    BY <1>1, <1>2, <2>1 DEF Once
  <2> QED BY <1>1, <2>1, <2>3, <2>4, <2>5 DEF Once, Walks
<1> QED BY <1>3, <1>4

LEMMA PointOnce ==
  ASSUME MarksTypeOK, Once, NEW m \in Marks, MeetPoint(m)
  PROVE  Once'
<1>1. /\ place \in Walks /\ starts[m] = Unmet /\ ends[m] = Unmet
      /\ starts' = [starts EXCEPT ![m] = Here] /\ ends' = [ends EXCEPT ![m] = Here]
      /\ UNCHANGED <<kind, place, open, confused>> /\ seen' = seen \cup {m}
      /\ Emit(Event(m, Here, Here, NoText))
  BY DEF MeetPoint, OnPoint
<1>2. /\ starts'[m] # Unmet /\ ends'[m] # Unmet
      /\ \A x \in Marks \ {m} : starts'[x] = starts[x] /\ ends'[x] = ends[x]
  BY <1>1, TypeFacts DEF MarksTypeOK
<1>3. Event(m, Here, Here, NoText) \in NoteEvents /\ Event(m, Here, Here, NoText).mark = m
  BY TypeFacts DEF Event, NoteEvents
<1>4. (m \in Clear => m \notin Told) /\ m # Anon /\ m \notin DOMAIN open /\ NeverTwice /\ Clear' = Clear
  BY <1>1, TypeFacts DEF Once, Clear
<1>5. Told' = Told \cup {m} /\ NeverTwice'
  BY <1>1, <1>3, <1>4, TellsOnce, OneMore DEF MarksTypeOK
<1>6. \A x \in DOMAIN open' : x \in Clear' => x \notin Told'
  BY <1>1, <1>4, <1>5 DEF Once
<1>7. \A x \in DOMAIN open' \ {Anon} : starts'[x] # Unmet
  BY <1>1, <1>2 DEF Once, MarksTypeOK
<1>8. \A x \in Marks :
        /\ x \in Clear' /\ x \in Told' /\ ends'[x] = Unmet => place' \notin Walks
        /\ starts'[x] = Unmet => ends'[x] = Unmet
        /\ kind'[x] # "field" /\ x \in Told' \cup DOMAIN open' => x \in seen'
  BY <1>1, <1>2, <1>4, <1>5 DEF Once
<1> QED BY <1>1, <1>5, <1>6, <1>7, <1>8 DEF Once, Walks

LEMMA FailOnce ==
  ASSUME MarksTypeOK, Once, NEW m \in Marks, FailToRead(m)
  PROVE  Once'
<1>1. /\ place \in Walks /\ ends[m] = Unmet
      /\ UNCHANGED <<kind, place, events, confused>> /\ seen \subseteq seen'
      /\ \/ starts' = [starts EXCEPT ![m] = Here] /\ ends' = ends
         \/ starts[m] # Unmet /\ starts' = starts /\ ends' = [ends EXCEPT ![m] = Here]
  BY DEF FailToRead, Inside
<1>2. /\ starts'[m] # Unmet
      /\ \A x \in Marks \ {m} : starts'[x] = starts[x] /\ ends'[x] = ends[x]
      /\ \A x \in Marks : ends'[x] = Unmet => ends[x] = Unmet
  BY <1>1, TypeFacts DEF MarksTypeOK
<1>3. (m \in Clear => m \notin Told) /\ m # Anon
  BY <1>1, TypeFacts DEF Once
<1>4. Told' = Told /\ Clear' = Clear /\ NeverTwice'
  BY <1>1 DEF Told, Clear, NeverTwice, Once
<1>5. /\ DOMAIN open' \subseteq DOMAIN open \cup {m}
      /\ kind[m] # "field" /\ m \in DOMAIN open' => m \in seen'
  <2>1. CASE UNCHANGED <<seen, open>>
    BY <2>1 DEF Once
  <2>2. CASE /\ seen' = seen \cup {m}
             /\ open' = Without(Anon) \/ open' = Opened(m, 0) \/ open' = open
    <3>1. 0 \in Spans
      BY TypeFacts DEF Spans
    <3> QED BY <2>2, <3>1, WithoutIs, OpenedIs
  <2> QED BY <2>1, <2>2 DEF FailToRead
<1>6. \A x \in DOMAIN open' : x \in Clear' => x \notin Told'
  BY <1>3, <1>4, <1>5 DEF Once
<1>7. \A x \in DOMAIN open' \ {Anon} : starts'[x] # Unmet
  BY <1>2, <1>5 DEF Once, MarksTypeOK
<1>8. \A x \in Marks :
        /\ x \in Clear' /\ x \in Told' /\ ends'[x] = Unmet => place' \notin Walks
        /\ starts'[x] = Unmet => ends'[x] = Unmet
        /\ kind'[x] # "field" /\ x \in Told' \cup DOMAIN open' => x \in seen'
  BY <1>1, <1>2, <1>4, <1>5 DEF Once
<1> QED BY <1>1, <1>4, <1>5, <1>6, <1>7, <1>8 DEF Once, Walks

LEMMA FlushedTyped ==
  ASSUME MarksTypeOK, NEW m \in DOMAIN open
  PROVE  Flushed(m) \in NoteEvents /\ Flushed(m).mark = m /\ m \in Marks \cup {Anon}
<1>1. m \in Marks \cup {Anon} /\ open[m] \in OpenMark /\ NoText \in Spans /\ -1 \in Spans
  BY TypeFacts DEF MarksTypeOK, NoText
<1>2. open[m].from \in Spans
  BY <1>1 DEF OpenMark
<1> QED BY <1>1, <1>2 DEF Flushed, Event, NoteEvents

LEMMA FlushOnce ==
  ASSUME MarksTypeOK, Once, Flush
  PROVE  Once'
<1>1. place = "flush" /\ UNCHANGED <<kind, starts, ends, seen, confused>> /\ Clear' = Clear
  BY DEF Flush, document, Clear
<1>2. CASE DOMAIN open = {} /\ place' = "sweep" /\ UNCHANGED <<open, events>>
  <2>1. Told' = Told /\ NeverTwice'
    BY <1>1, <1>2 DEF Told, NeverTwice, Once
  <2> QED BY <1>1, <1>2, <2>1 DEF Once, Walks
<1>3. CASE \E m \in DOMAIN open : Emit(Flushed(m)) /\ open' = Without(m) /\ UNCHANGED place
  <2>1. PICK m \in DOMAIN open : Emit(Flushed(m)) /\ open' = Without(m) /\ UNCHANGED place
    BY <1>3
  <2>2. m \in Marks \cup {Anon} /\ (m \in Clear => m \notin Told)
    BY <2>1 DEF Once, MarksTypeOK
  <2>3. Flushed(m) \in NoteEvents /\ Flushed(m).mark = m
    BY <2>1, FlushedTyped
  <2>4. Told' = Told \cup {m} /\ NeverTwice'
    BY <1>1, <2>1, <2>2, <2>3, TellsOnce, OneMore DEF MarksTypeOK, Once
  <2>5. DOMAIN open' = DOMAIN open \ {m}
    BY <2>1, WithoutIs
  <2> QED BY <1>1, <2>1, <2>2, <2>4, <2>5 DEF Once, Walks
<1>4. open = << >> => DOMAIN open = {}
  OBVIOUS
<1> QED BY <1>2, <1>3, <1>4 DEF Flush

LEMMA SweepOnce ==
  ASSUME MarksTypeOK, Once, Sweep
  PROVE  Once'
<1>1. /\ place = "sweep" /\ UNCHANGED <<kind, starts, ends, open, confused>> /\ DOMAIN open = {}
      /\ Clear' = Clear
  BY DEF Sweep, document, Once, Clear
<1>2. CASE place' = "done" /\ UNCHANGED <<seen, events>>
  <2>1. Told' = Told /\ NeverTwice'
    BY <1>1, <1>2 DEF Told, NeverTwice, Once
  <2> QED BY <1>1, <1>2, <2>1 DEF Once, Walks
<1>3. CASE \E m \in Unseen :
             /\ Emit(Event(m, Outside, Outside, NoText)) /\ seen' = seen \cup {m}
             /\ UNCHANGED place
  <2>1. PICK m \in Unseen :
             /\ Emit(Event(m, Outside, Outside, NoText)) /\ seen' = seen \cup {m}
             /\ UNCHANGED place
    BY <1>3
  <2>2. m \in Marks /\ m # Anon /\ m \notin Told
    BY <2>1, TypeFacts DEF Unseen, Once
  <2>3. /\ Event(m, Outside, Outside, NoText) \in NoteEvents
        /\ Event(m, Outside, Outside, NoText).mark = m
    BY <2>2, TypeFacts DEF Event, NoteEvents
  <2>4. Told' = Told \cup {m} /\ NeverTwice'
    BY <1>1, <2>1, <2>2, <2>3, TellsOnce, OneMore DEF MarksTypeOK, Once
  <2> QED BY <1>1, <2>1, <2>2, <2>4 DEF Once, Walks
<1> QED BY <1>2, <1>3 DEF Sweep

LEMMA OnceStep ==
  ASSUME MarksTypeOK, Once, [MarksNext]_marksVars
  PROVE  Once'
<1>1. CASE ReadText \/ EndParagraph \/ Unwind \/ Ended \/ UNCHANGED marksVars
  <2>1. /\ UNCHANGED <<kind, starts, ends, seen, events, confused>>
        /\ place' = place \/ place' = "failed"
    BY <1>1 DEF ReadText, EndParagraph, Unwind, Ended, marksVars, document
  <2>2. DOMAIN open' = DOMAIN open
    BY <1>1, HearIs DEF ReadText, EndParagraph, Unwind, Ended, marksVars, Break
  <2>3. Told' = Told /\ Clear' = Clear /\ NeverTwice'
    BY <2>1 DEF Told, Clear, NeverTwice, Once
  <2> QED BY <2>1, <2>2, <2>3 DEF Once, Walks
<1>2. CASE Move
  <2>1. /\ place \in Walks /\ place' \in Walks \cup {"flush"}
        /\ UNCHANGED <<kind, starts, open, seen, events>> /\ confused \subseteq confused'
    BY <1>2 DEF Move, Walks
  <2>2. \A m \in Marks : IF Inside(m) THEN ends'[m] \in {ends[m], Missed} ELSE ends'[m] = ends[m]
    BY <1>2 DEF Move
  <2>3. \A m \in Marks : /\ ends'[m] = Unmet => ends[m] = Unmet
                         /\ starts[m] = Unmet => ends'[m] = Unmet
    BY <2>2 DEF Inside, Once, Unmet, Missed
  <2>4. Told' = Told /\ Clear' \subseteq Clear /\ NeverTwice'
    BY <2>1 DEF Told, Clear, NeverTwice, Once
  <2> QED BY <2>1, <2>3, <2>4 DEF Once, Walks
<1>3. ASSUME NEW m \in Marks, MeetStart(m) \/ MeetEnd(m) \/ MeetPoint(m) \/ FailToRead(m)
      PROVE  Once'
  BY <1>3, StartOnce, EndOnce, PointOnce, FailOnce
<1>4. CASE Flush
  BY <1>4, FlushOnce
<1>5. CASE Sweep
  BY <1>5, SweepOnce
<1> QED BY <1>1, <1>2, <1>3, <1>4, <1>5 DEF MarksNext

----------------------------------------------------------------------------
(* True spans, and the text between *)

\* A step that leaves the marks told of alone.
Unmoved ==
  /\ kind' = kind /\ Clear' \subseteq Clear
  /\ \A m \in Clear' : m \in Told =>
       starts'[m] = starts[m] /\ ends'[m] = ends[m] /\ stray'[m] = stray[m]

\* What was told stays true: nothing more is met of a mark that was told.
LEMMA StaysTrue ==
  ASSUME MarksTypeOK, TellsTrue, Unmoved
  PROVE  \A i \in 1..Len(events) : \A e : e = events[i] /\ e.mark \in Clear' => Truthful(e)'
<1> SUFFICES ASSUME NEW i \in 1..Len(events), NEW e, e = events[i], e.mark \in Clear'
             PROVE  Truthful(e)'
  OBVIOUS
<1>1. Truthful(e) /\ e.mark \in Told
  BY DEF TellsTrue, Told, Unmoved
<1>2. PICK m : m = e.mark
  OBVIOUS
<1>3. starts'[m] = starts[m] /\ ends'[m] = ends[m] /\ stray'[m] = stray[m] /\ kind'[m] = kind[m]
  BY <1>1, <1>2 DEF Unmoved
<1>4. /\ Started(m)' <=> Started(m)
      /\ EndMet(m)' <=> EndMet(m)
  BY <1>3 DEF Started, EndMet
<1>5. SpanTrue(e, m) /\ TextTrue(e, m)
  BY <1>1, <1>2 DEF Truthful
<1>6. SpanTrue(e, m)'
  BY <1>3, <1>4, <1>5 DEF SpanTrue
<1>7. TextTrue(e, m)'
  BY <1>3, <1>4, <1>5 DEF TextTrue
<1> QED BY <1>2, <1>6, <1>7 DEF Truthful

\* Whether or not one more is told of.
LEMMA TellsNothing ==
  ASSUME MarksTypeOK, TellsTrue, Unmoved, events' = events
  PROVE  TellsTrue'
<1> SUFFICES ASSUME NEW i \in 1..Len(events), events[i].mark \in Clear'
             PROVE  Truthful(events[i])'
  BY DEF TellsTrue, Truthful, SpanTrue, TextTrue
<1>1. PICK e : e = events[i]
  OBVIOUS
<1>2. Truthful(e)'
  BY <1>1, StaysTrue
<1> QED BY <1>1, <1>2 DEF Truthful, SpanTrue, TextTrue

LEMMA TellsOneMore ==
  ASSUME MarksTypeOK, TellsTrue, Unmoved,
         NEW e \in NoteEvents, Emit(e), e.mark \in Clear' => Truthful(e)'
  PROVE  TellsTrue'
<1>1. /\ Len(events) \in Nat /\ Len(events') = Len(events) + 1
      /\ events'[Len(events) + 1] = e
      /\ \A i \in 1..Len(events) : events'[i] = events[i]
  BY OneMore DEF MarksTypeOK
<1> SUFFICES ASSUME NEW i \in 1..Len(events'), events'[i].mark \in Clear'
             PROVE  Truthful(events[i])'
  BY DEF TellsTrue
<1>2. i = Len(events) + 1 \/ i \in 1..Len(events)
  BY <1>1
<1>3. PICK f : f = events'[i]
  OBVIOUS
<1>4. Truthful(f)'
  <2>1. CASE i = Len(events) + 1
    BY <1>1, <1>3, <2>1
  <2>2. CASE i \in 1..Len(events)
    <3>1. f = events[i] /\ f.mark \in Clear'
      BY <1>1, <1>3, <2>2
    <3> QED BY <2>2, <3>1, StaysTrue
  <2> QED BY <1>2, <2>1, <2>2
<1> QED BY <1>3, <1>4 DEF Truthful, SpanTrue, TextTrue

\* As long as the walk meets boundaries, it has told of no mark it meets more of.
LEMMA ToldIsOver ==
  ASSUME Once, place \in Walks, NEW x \in Clear, x \in Told
  PROVE  x \in Marks /\ ends[x] # Unmet /\ starts[x] # Unmet /\ ~Inside(x)
BY DEF Once, Clear, Inside

\* A mark that a step does not touch is followed as before.
LEMMA Untouched ==
  ASSUME MarksTypeOK, NEW x \in Marks, FollowedOf(x), UNCHANGED <<kind, place, offset>>,
         starts'[x] = starts[x], ends'[x] = ends[x], stray'[x] = stray[x],
         x \in Told => x \in Told', x \in DOMAIN open' <=> x \in DOMAIN open,
         x \in DOMAIN open => open'[x] = open[x],
         x \in seen' <=> x \in seen, Waits(x)' <=> Waits(x)
  PROVE  FollowedOf(x)'
<1>1. /\ Started(x)' <=> Started(x)
      /\ EndMet(x)' <=> EndMet(x)
      /\ Inside(x)' <=> Inside(x)
  BY DEF Started, EndMet, Inside
<1>2. Width(x)' = Width(x)
  BY DEF Width
<1>3. x \in DOMAIN open' => OpenRight(x)'
  BY <1>1 DEF FollowedOf, OpenRight
<1>4. Walks' = Walks
  BY DEF Walks
<1> QED BY <1>1, <1>2, <1>3 DEF FollowedOf

\* The marks are followed from the beginning, and in every step by which no
\* failure is told.
LEMMA FollowedInit == ASSUME MarksInit PROVE Followed /\ TellsTrue /\ NoStranger
<1>1. /\ events = <<>> /\ DOMAIN open = {} /\ seen = {}
      /\ \A m \in Marks : starts[m] = Unmet /\ ends[m] = Unmet /\ stray[m] = 0
  BY DEF MarksInit
<1>2. Clear \subseteq Marks /\ \A m \in Marks : ~Started(m) /\ ~Inside(m) /\ ~Waits(m)
  BY <1>1 DEF Clear, Started, Inside, Waits
<1>3. \A m \in Marks : FollowedOf(m)
  BY <1>1, <1>2 DEF FollowedOf
<1>4. TellsTrue /\ NoStranger
  BY <1>1 DEF TellsTrue, NoStranger, Told
<1> QED BY <1>2, <1>3, <1>4 DEF Followed

\* A guess harms only the marks it may be about.
LEMMA GuessFollowed ==
  ASSUME MarksTypeOK, Once, Followed, TellsTrue, NEW m \in Marks, Guess(m), place \in Walks,
         UNCHANGED <<kind, stray, place, offset>>,
         \A x \in Marks \ {m} : starts'[x] = starts[x] /\ ends'[x] = ends[x]
  PROVE  Followed' /\ TellsTrue'
<1>1. /\ m \in Rivals(m) /\ m \notin Clear' /\ Clear' \subseteq Clear /\ Clear' \subseteq Marks
      /\ Clear' \cap Rivals(m) = {}
  BY GuessIs DEF Rivals, Clear
<1>3. \A x \in Clear' : /\ x \in Marks \ {m} /\ x \in Clear
                       /\ (x \in DOMAIN open' <=> x \in DOMAIN open)
                       /\ (x \in DOMAIN open => open'[x] = open[x])
                       /\ (x \in Told' <=> x \in Told)
                       /\ (x \in seen' <=> x \in seen)
  BY <1>1, GuessIs
<1>4. \A x \in Clear' : starts'[x] = starts[x] /\ ends'[x] = ends[x] /\ stray'[x] = stray[x]
  BY <1>3
<1>5. Unmoved
  BY <1>1, <1>4 DEF Unmoved
<1>6. TellsTrue'
  <2>1. CASE UNCHANGED events
    BY <1>5, <2>1, TellsNothing
  <2>2. CASE \E e \in NoteEvents : Emit(e) /\ e.mark \notin Clear'
    BY <1>5, <2>2, TellsOneMore
  <2> QED BY <2>1, <2>2, GuessIs
<1>7. ASSUME NEW x \in Clear'
      PROVE  (Waits(x)' <=> Waits(x)) /\ (Waits(x) => open'[Anon] = open[Anon])
  <2>1. Inside(x)' <=> Inside(x)
    BY <1>4 DEF Inside
  <2>2. CASE kind[m] = "comment"
    <3>1. kind[x] = "comment" => ~Inside(x)
      BY <1>1, <1>3, <2>2 DEF Rivals
    <3> QED BY <2>1, <3>1 DEF Waits
  <2>3. CASE kind[m] = "field"
    <3>1. /\ (Anon \in DOMAIN open' <=> Anon \in DOMAIN open)
          /\ (Anon \in DOMAIN open => open'[Anon] = open[Anon])
      BY <2>3, GuessIs
    <3> QED BY <2>1, <3>1 DEF Waits
  <2> QED BY <2>2, <2>3 DEF Guess
<1>8. ASSUME NEW x \in Clear' PROVE FollowedOf(x)' /\ (Waits(x)' => WaitsRight(x)')
  <2>1. FollowedOf(x) /\ (Waits(x) => WaitsRight(x))
    BY <1>3 DEF Followed
  <2>2. FollowedOf(x)'
    BY <1>3, <1>4, <1>7, <2>1, Untouched
  <2>3. Width(x)' = Width(x)
    BY <1>4 DEF Width
  <2> QED BY <1>4, <1>7, <2>1, <2>2, <2>3 DEF WaitsRight
<1>9. \A x \in Clear', y \in Clear' : Waits(x)' /\ Waits(y)' => x = y
  BY <1>3, <1>7 DEF Followed
<1>10. \A x \in Clear' : Waits(x)' => x \notin DOMAIN open' /\ place' \in Walks \cup {"failed"}
  BY <1>3, <1>7 DEF Followed
<1>11. Followed'
  BY <1>8, <1>9, <1>10 DEF Followed, Walks
<1> QED BY <1>6, <1>11

\* What has only to be shown when a step is no guess, of the marks it may move:
\* the others are as they were.
LEMMA OthersFollowed ==
  ASSUME MarksTypeOK, Followed, NEW m \in Marks, Clear' = Clear, place \in Walks,
         UNCHANGED <<kind, stray, place, offset>>,
         m \in Clear => FollowedOf(m)', ~Waits(m)',
         \A x \in Marks \ {m} :
           /\ starts'[x] = starts[x] /\ ends'[x] = ends[x]
           /\ (x \in DOMAIN open' <=> x \in DOMAIN open)
           /\ (x \in DOMAIN open => open'[x] = open[x])
           /\ (x \in seen' <=> x \in seen) /\ (x \in Told => x \in Told'),
         \A x \in Clear \ {m} :
           /\ (Waits(x)' <=> Waits(x))
           /\ Waits(x) => open'[Anon] = open[Anon]
  PROVE  Followed'
<1>1. ASSUME NEW x \in Clear \ {m} PROVE FollowedOf(x)' /\ (Waits(x)' => WaitsRight(x)')
  <2>1. x \in Marks \ {m} /\ FollowedOf(x) /\ (Waits(x) => WaitsRight(x))
    BY DEF Followed, Clear
  <2>2. starts'[x] = starts[x] /\ ends'[x] = ends[x] /\ stray'[x] = stray[x]
    BY <2>1
  <2>3. FollowedOf(x)'
    BY <2>1, <2>2, Untouched
  <2>4. Width(x)' = Width(x)
    BY <2>2 DEF Width
  <2> QED BY <2>1, <2>2, <2>3, <2>4 DEF WaitsRight
<1>2. \A x \in Clear, y \in Clear : Waits(x)' /\ Waits(y)' => x = y
  BY DEF Followed
<1>3. \A x \in Clear \ {m} : x \in Marks \ {m}
  BY DEF Clear
<1>4. \A x \in Clear : Waits(x)' => x \notin DOMAIN open' /\ place' \in Walks \cup {"failed"}
  BY <1>3 DEF Followed
<1> QED BY <1>1, <1>2, <1>4 DEF Followed, Walks

LEMMA StartFollowed ==
  ASSUME MarksTypeOK, Once, Followed, TellsTrue, NEW m \in Marks, MeetStart(m)
  PROVE  Followed' /\ TellsTrue'
<1>1. /\ place \in Walks /\ starts[m] = Unmet /\ ends[m] = Unmet /\ m \notin DOMAIN open
      /\ starts' = [starts EXCEPT ![m] = Here]
      /\ UNCHANGED <<kind, ends, stray, place, offset, walked, warned>>
  BY StartCases
<1>2. starts'[m] = Here /\ \A x \in Marks \ {m} : starts'[x] = starts[x] /\ ends'[x] = ends[x]
  BY <1>1 DEF MarksTypeOK
<1>3. CASE Guess(m)
  BY <1>1, <1>2, <1>3, GuessFollowed
<1>4. CASE ~Guess(m)
  <2>1. UNCHANGED <<events, confused>>
    BY <1>4, StartCases
  <2>3. Clear' = Clear /\ Told' = Told
    BY <2>1 DEF Clear, Told
  <2>4. m \in Clear => m \notin Told
    BY <1>1 DEF Once
  <2>5. Here # Unmet /\ Here # Missed /\ m # Anon /\ Here \in Spans /\ offset \in Nat
    BY TypeFacts
  <2>6. Started(m)' /\ ~EndMet(m)' /\ Inside(m)'
    BY <1>1, <1>2, <2>5 DEF Started, EndMet, Inside
  <2>7. Unmoved
    <3>1. \A x \in Clear' : x \in Told => x \in Marks \ {m}
      BY <2>3, <2>4 DEF Clear
    <3> QED BY <1>1, <1>2, <2>3, <3>1 DEF Unmoved
  <2>8. TellsTrue'
    BY <2>1, <2>7, TellsNothing
  <2>9. m \in Clear => stray[m] = 0
    BY <1>1 DEF Followed, FollowedOf
  <2>10. Width(m)' = 0 /\ (place = "body" => Here # Outside)
    <3>1. Here = offset \/ Here = Outside
      BY DEF Here
    <3>2. Width(m)' = IF Here = Outside THEN 0 ELSE offset - Here
      BY <1>1, <1>2 DEF Width
    <3>3. Width(m)' = 0
      BY <2>5, <3>1, <3>2
    <3> QED BY <2>5, <3>3 DEF Here, Outside
  <2>11. \A x \in Marks \ {m} : Inside(x)' <=> Inside(x)
    BY <1>2 DEF Inside
  <2>12. CASE /\ kind[m] = "comment" => Anon \notin DOMAIN open
              /\ open' = Opened(m, Here)
              /\ seen' = IF kind[m] = "field" THEN seen ELSE seen \cup {m}
    <3>1. /\ DOMAIN open' = DOMAIN open \cup {m} /\ open'[m] = [from |-> Here, covered |-> 0]
          /\ \A x \in DOMAIN open \ {m} : open'[x] = open[x]
      BY <2>5, <2>12, OpenedIs
    <3>2. ~Waits(m)' /\ \A x \in Marks \ {m} : Waits(x)' <=> Waits(x)
      BY <1>1, <2>5, <2>11, <2>12, <3>1 DEF Waits
    <3>3. OpenRight(m)'
      BY <1>2, <2>6, <3>1 DEF OpenRight
    <3>4. open'[m].covered = 0
      BY <3>1
    <3>5. m \in Clear => FollowedOf(m)'
      BY <1>1, <1>2, <2>5, <2>6, <2>9, <2>10, <2>12, <3>1, <3>3, <3>4 DEF FollowedOf
    <3>6. \A x \in Marks \ {m} : /\ (x \in DOMAIN open' <=> x \in DOMAIN open)
                                 /\ (x \in DOMAIN open => open'[x] = open[x])
                                 /\ (x \in seen' <=> x \in seen) /\ (x \in Told => x \in Told')
      BY <2>3, <2>12, <3>1
    <3>7. \A x \in Clear \ {m} : /\ (Waits(x)' <=> Waits(x))
                                 /\ Waits(x) => open'[Anon] = open[Anon]
      BY <2>5, <3>1, <3>2 DEF Waits, Clear
    <3>8. Followed'
      BY <1>1, <1>2, <2>3, <3>2, <3>5, <3>6, <3>7, OthersFollowed
    <3> QED BY <2>8, <3>8
  <2>13. CASE /\ kind[m] = "comment" /\ OpenOf("comment") = {}
              /\ open' = Opened(Anon, Here) /\ UNCHANGED seen
    <3>1. /\ DOMAIN open' = DOMAIN open \cup {Anon} /\ open'[Anon] = [from |-> Here, covered |-> 0]
          /\ \A x \in DOMAIN open \ {Anon} : open'[x] = open[x]
      BY <2>5, <2>13, OpenedIs
    <3>2. Anon \notin DOMAIN open /\ \A x \in Marks : kind[x] = "comment" => x \notin DOMAIN open
      BY <2>13, TypeFacts DEF OpenOf, Kind
    <3>3. \A x \in Marks : ~Waits(x)
      BY <3>2 DEF Waits
    <3>4. ASSUME NEW x \in Clear \ {m} PROVE ~Waits(x)'
      <4>1. FollowedOf(x) /\ x \in Marks \ {m}
        BY DEF Followed, Clear
      <4>2. kind[x] = "comment" => ~Inside(x)
        BY <1>1, <3>2, <3>3, <4>1 DEF FollowedOf
      <4> QED BY <1>1, <2>11, <4>1, <4>2 DEF Waits
    <3>5. Waits(m)'
      BY <1>1, <2>6, <2>13, <3>1 DEF Waits
    <3>6. m \in Clear => WaitsRight(m)'
      BY <1>1, <1>2, <2>9, <2>10, <3>1 DEF WaitsRight
    <3>7. m \in Clear => m \notin seen /\ m \notin DOMAIN open'
      BY <1>1, <2>4, <2>5, <2>13, <3>1 DEF Followed, FollowedOf
    <3>8. m \in Clear => FollowedOf(m)'
      BY <1>1, <1>2, <2>5, <2>9, <2>10, <2>13, <3>5, <3>7 DEF FollowedOf
    <3>9. ASSUME NEW x \in Clear \ {m} PROVE FollowedOf(x)'
      <4>1. FollowedOf(x) /\ x # Anon /\ x \in Marks \ {m}
        BY TypeFacts DEF Followed, Clear
      <4>2. x \in DOMAIN open' <=> x \in DOMAIN open
        BY <3>1, <4>1
      <4> QED BY <1>1, <1>2, <2>3, <2>13, <3>1, <3>3, <3>4, <4>1, <4>2, Untouched
    <3>10. m \notin DOMAIN open' /\ place' \in Walks
      BY <1>1, <2>5, <3>1
    <3>11. Followed'
      BY <2>3, <3>4, <3>6, <3>8, <3>9, <3>10 DEF Followed, Walks
    <3> QED BY <2>8, <3>11
  <2> QED BY <1>4, <2>12, <2>13, StartCases
<1> QED BY <1>3, <1>4

LEMMA EndFollowed ==
  ASSUME MarksTypeOK, Once, Followed, TellsTrue, NEW m \in Marks, MeetEnd(m), ~Guess(m)
  PROVE  Followed' /\ TellsTrue'
<1>1. /\ place \in Walks /\ ends[m] = Unmet
      /\ starts[m] = Unmet \/ (starts[m] = Outside <=> place # "body")
      /\ starts' = [starts EXCEPT ![m] = IF @ = Unmet THEN Missed ELSE @]
      /\ ends' = [ends EXCEPT ![m] = Here]
      /\ UNCHANGED <<kind, stray, place, offset, walked, warned>>
  BY EndCases
<1>2. /\ Here # Unmet /\ Here # Missed /\ m # Anon /\ Here \in Spans /\ offset \in Nat
      /\ starts[m] \in Int /\ stray[m] \in Int /\ stray'[m] = stray[m]
  BY <1>1, TypeFacts DEF MarksTypeOK
<1>3. /\ starts'[m] = IF starts[m] = Unmet THEN Missed ELSE starts[m]
      /\ ends'[m] = Here
      /\ \A x \in Marks \ {m} : starts'[x] = starts[x] /\ ends'[x] = ends[x]
  BY <1>1 DEF MarksTypeOK
<1>4. Clear' = Clear /\ Clear \subseteq Marks /\ \A x : x \in Told => x \in Told'
  BY EndTells DEF Clear
<1>5. Unmoved
  <2>1. \A x \in Clear' : x \in Told => x \in Marks \ {m}
    BY <1>4, EndTells
  <2> QED BY <1>1, <1>3, <1>4, <2>1 DEF Unmoved
<1>6. /\ starts'[m] # Unmet /\ ~Inside(m)' /\ EndMet(m)' /\ ~Waits(m)'
      /\ Started(m)' <=> Started(m)
      /\ Started(m) => starts'[m] = starts[m]
  BY <1>2, <1>3 DEF Inside, EndMet, Waits, Started, Unmet, Missed
<1>7. \A x \in Marks \ {m} : Inside(x)' <=> Inside(x)
  BY <1>3 DEF Inside
<1>8. Started(m) => Inside(m) /\ Width(m) = Here - starts[m]
  <2>1. Started(m) => starts[m] # Unmet
    BY DEF Started
  <2>2. CASE place = "body"
    <3>1. Started(m) => starts[m] # Outside
      BY <1>1, <2>1, <2>2
    <3> QED BY <1>1, <2>1, <2>2, <3>1 DEF Inside, Width, Here
  <2>3. CASE place # "body"
    <3>1. Started(m) => starts[m] = Outside
      BY <1>1, <2>1, <2>3
    <3>2. Here = Outside /\ Outside - Outside = 0
      BY <2>3 DEF Here, Outside
    <3> QED BY <1>1, <2>1, <3>1, <3>2 DEF Inside, Width
  <2> QED BY <2>2, <2>3
<1>9. m \in Clear => FollowedOf(m) /\ (Waits(m) => WaitsRight(m))
  BY DEF Followed
\* It is told with its start, and the text since.
<1>10. ASSUME NEW e \in NoteEvents, e.mark = m, Started(m), e.from = starts[m], e.to = Here,
              e.covered = Width(m) + stray[m]
       PROVE  Truthful(e)'
  <2>1. SpanTrue(e, m)'
    BY <1>3, <1>6, <1>10 DEF SpanTrue
  <2>2. e.covered = (e.to - e.from) + stray'[m]
    BY <1>2, <1>8, <1>10
  <2>3. TextTrue(e, m)'
    BY <1>6, <1>10, <2>2 DEF TextTrue
  <2> QED BY <1>10, <2>1, <2>3 DEF Truthful
\* Only what a mark that is clear is told with, and whether it is followed, is
\* left to show; the other marks are as they were.
<1> DEFINE Leaves ==
             /\ m \in Clear => FollowedOf(m)'
             /\ \A x \in Marks \ {m} : /\ (x \in DOMAIN open' <=> x \in DOMAIN open)
                                       /\ (x \in DOMAIN open => open'[x] = open[x])
                                       /\ (x \in seen' <=> x \in seen)
             /\ \A x \in Clear \ {m} : /\ (Waits(x)' <=> Waits(x))
                                       /\ Waits(x) => open'[Anon] = open[Anon]
<1>11. Leaves => Followed'
  BY <1>1, <1>3, <1>4, <1>6, OthersFollowed
<1>12. CASE m \in DOMAIN open /\ Close(m, m) /\ (seen' = seen \/ seen' = seen \cup {m})
  <2>1. PICK e \in NoteEvents :
          /\ Emit(e) /\ e.mark = m /\ e.from = open[m].from /\ e.to = Here
          /\ e.covered = open[m].covered
          /\ open' = Without(m)
    BY <1>12, CloseIs
  <2>2. DOMAIN open' = DOMAIN open \ {m} /\ \A x \in DOMAIN open \ {m} : open'[x] = open[x]
    BY <2>1, WithoutIs
  <2>3. m \in Clear => Started(m) /\ open[m].from = starts[m]
    BY <1>1, <1>9, <1>12 DEF FollowedOf, OpenRight, EndMet
  <2>4. m \in Clear => open[m].covered = Width(m) + stray[m]
    BY <1>8, <1>9, <1>12, <2>3 DEF FollowedOf
  <2>5. m \in Clear => Truthful(e)'
    BY <1>10, <2>1, <2>3, <2>4
  <2>6. TellsTrue'
    BY <1>4, <1>5, <2>1, <2>5, TellsOneMore
  <2>7. Told' = Told \cup {m}
    BY <2>1, OneMore DEF MarksTypeOK
  <2>8. kind[m] # "field" => m \in seen'
    BY <1>12 DEF Once
  <2>9. FollowedOf(m)' \/ m \notin Clear
    BY <1>1, <1>6, <1>9, <2>2, <2>7, <2>8 DEF FollowedOf
  <2>10. \A x \in Clear \ {m} : /\ (Waits(x)' <=> Waits(x))
                                /\ Waits(x) => open'[Anon] = open[Anon]
    BY <1>1, <1>2, <1>4, <1>7, <2>2 DEF Waits
  <2>11. Leaves
    BY <1>12, <2>2, <2>9, <2>10
  <2> QED BY <1>11, <2>6, <2>11
<1>13. CASE /\ kind[m] = "comment" /\ m \notin DOMAIN open /\ Anon \in DOMAIN open
            /\ Pending \ DOMAIN open = {m} /\ Close(Anon, m) /\ seen' = seen \cup {m}
  <2>1. PICK e \in NoteEvents :
          /\ Emit(e) /\ e.mark = m /\ e.from = open[Anon].from /\ e.to = Here
          /\ e.covered = open[Anon].covered
          /\ open' = Without(Anon)
    BY <1>13, CloseIs
  <2>2. /\ DOMAIN open' = DOMAIN open \ {Anon}
        /\ \A x \in DOMAIN open \ {Anon} : open'[x] = open[x]
    BY <2>1, WithoutIs
  <2>3. Waits(m) /\ (m \in Clear => WaitsRight(m))
    BY <1>9, <1>13 DEF Waits, Pending
  <2>4. m \in Clear => open[Anon].from = starts[m] /\ open[Anon].covered = Width(m) + stray[m]
    BY <2>3 DEF WaitsRight
  <2>5. m \in Clear => Started(m)
    <3>1. open[Anon] \in OpenMark
      BY <1>13, TypeFacts
    <3>2. m \in Clear => starts[m] \in Spans
      BY <2>4, <3>1 DEF OpenMark
    <3> QED BY <3>2, TypeFacts DEF Started, Unmet, Missed, Spans
  <2>6. m \in Clear => Truthful(e)'
    BY <1>10, <2>1, <2>4, <2>5
  <2>7. TellsTrue'
    BY <1>4, <1>5, <2>1, <2>6, TellsOneMore
  <2>8. Told' = Told \cup {m}
    BY <2>1, OneMore DEF MarksTypeOK
  <2>9. FollowedOf(m)' \/ m \notin Clear
    BY <1>1, <1>6, <1>9, <1>13, <2>2, <2>8 DEF FollowedOf
  <2>10. \A x \in Clear \ {m} : ~Waits(x) /\ ~Waits(x)'
    BY <1>4, <1>13, <2>2 DEF Followed, Waits, Pending
  <2>11. Leaves
    BY <1>13, <2>2, <2>9, <2>10, TypeFacts
  <2> QED BY <1>11, <2>7, <2>11
<1>14. CASE /\ kind[m] = "comment" /\ m \notin DOMAIN open /\ Anon \notin DOMAIN open
            /\ open' = Opened(m, Here) /\ seen' = seen \cup {m} /\ UNCHANGED events
  <2>1. /\ DOMAIN open' = DOMAIN open \cup {m} /\ open'[m] = [from |-> Here, covered |-> 0]
        /\ \A x \in DOMAIN open \ {m} : open'[x] = open[x]
    BY <1>2, <1>14, OpenedIs
  <2>2. m \in Clear => starts[m] = Unmet
    BY <1>1, <1>9, <1>14 DEF FollowedOf, Waits, Inside
  <2>3. m \in Clear => ~Started(m)' /\ OpenRight(m)'
    BY <1>1, <1>3, <1>6, <1>14, <2>1, <2>2 DEF Started, OpenRight
  <2>4. Told' = Told
    BY <1>14 DEF Told
  <2>5. TellsTrue'
    BY <1>5, <1>14, TellsNothing
  <2>6. FollowedOf(m)' \/ m \notin Clear
    BY <1>1, <1>6, <1>14, <2>1, <2>3 DEF FollowedOf
  <2>7. \A x \in Clear \ {m} : ~Waits(x)' /\ ~Waits(x)
    BY <1>2, <1>14, <2>1 DEF Waits
  <2>8. Leaves
    BY <1>14, <2>1, <2>6, <2>7
  <2> QED BY <1>11, <2>5, <2>8
<1>15. CASE /\ kind[m] \in {"bookmark", "change"} /\ m \notin DOMAIN open
            /\ Emit(Event(m, Outside, Here, NoText)) /\ seen' = seen \cup {m} /\ UNCHANGED open
  <2>0. PICK e : e = Event(m, Outside, Here, NoText)
    OBVIOUS
  <2>1. e \in NoteEvents /\ e.mark = m /\ e.from = Outside /\ e.to = Here /\ e.covered = NoText
    BY <2>0, TypeFacts DEF Event, NoteEvents
  <2>2. m \in Clear => starts[m] = Unmet
    BY <1>1, <1>9, <1>15 DEF FollowedOf, Waits, Inside
  <2>3. m \in Clear => ~Started(m)'
    BY <1>3, <2>2 DEF Started
  <2>4. m \in Clear => SpanTrue(e, m)' /\ TextTrue(e, m)'
    BY <1>3, <1>6, <2>1, <2>3 DEF SpanTrue, TextTrue, Outside
  <2>5. m \in Clear => Truthful(e)'
    BY <2>1, <2>4 DEF Truthful
  <2>6. Emit(e)
    BY <1>15, <2>0
  <2>7. TellsTrue' /\ Told' = Told \cup {m}
    BY <1>4, <1>5, <2>1, <2>5, <2>6, TellsOneMore, OneMore DEF MarksTypeOK
  <2>8. FollowedOf(m)' \/ m \notin Clear
    BY <1>1, <1>6, <1>15, <2>7 DEF FollowedOf
  <2>9. \A x \in Clear \ {m} : Waits(x)' <=> Waits(x)
    BY <1>1, <1>4, <1>7, <1>15 DEF Waits
  <2>10. Leaves
    BY <1>15, <2>8, <2>9
  <2> QED BY <1>11, <2>7, <2>10
<1>16. CASE kind[m] = "field" /\ m \notin DOMAIN open /\ UNCHANGED <<open, events, seen>>
  <2>1. Told' = Told
    BY <1>16 DEF Told
  <2>2. TellsTrue'
    BY <1>5, <1>16, TellsNothing
  <2>3. FollowedOf(m)' \/ m \notin Clear
    BY <1>1, <1>6, <1>9, <1>16, <2>1 DEF FollowedOf
  <2>4. \A x \in Clear \ {m} : Waits(x)' <=> Waits(x)
    BY <1>1, <1>4, <1>7, <1>16 DEF Waits
  <2>5. Leaves
    BY <1>16, <2>3, <2>4
  <2> QED BY <1>11, <2>2, <2>5
<1> QED BY <1>12, <1>13, <1>14, <1>15, <1>16, EndCases

LEMMA EndGuessFollowed ==
  ASSUME MarksTypeOK, Once, Followed, TellsTrue, NEW m \in Marks, MeetEnd(m), Guess(m)
  PROVE  Followed' /\ TellsTrue'
<1>1. /\ place \in Walks /\ UNCHANGED <<kind, stray, place, offset>>
      /\ starts' = [starts EXCEPT ![m] = IF @ = Unmet THEN Missed ELSE @]
      /\ ends' = [ends EXCEPT ![m] = Here]
  BY EndCases
<1>2. \A x \in Marks \ {m} : starts'[x] = starts[x] /\ ends'[x] = ends[x]
  BY <1>1 DEF MarksTypeOK
<1> QED BY <1>1, <1>2, GuessFollowed

LEMMA PointFollowed ==
  ASSUME MarksTypeOK, Once, Followed, TellsTrue, NEW m \in Marks, MeetPoint(m)
  PROVE  Followed' /\ TellsTrue'
<1>1. /\ place \in Walks /\ starts[m] = Unmet /\ ends[m] = Unmet
      /\ starts' = [starts EXCEPT ![m] = Here] /\ ends' = [ends EXCEPT ![m] = Here]
      /\ UNCHANGED <<kind, stray, place, offset, walked, warned, open, confused>>
      /\ seen' = seen \cup {m}
      /\ Emit(Event(m, Here, Here, NoText)) /\ kind[m] \in {"bookmark", "field"}
  BY DEF MeetPoint, OnPoint
<1>2. /\ starts'[m] = Here /\ ends'[m] = Here
      /\ \A x \in Marks \ {m} : starts'[x] = starts[x] /\ ends'[x] = ends[x]
  BY <1>1 DEF MarksTypeOK
<1>3. Here # Unmet /\ Here # Missed /\ m # Anon /\ m \notin DOMAIN open
  BY <1>1, TypeFacts DEF Once
<1>4. Clear' = Clear /\ Clear \subseteq Marks /\ (m \in Clear => m \notin Told)
  BY <1>1 DEF Once, Clear
<1>5. Unmoved
  BY <1>1, <1>2, <1>4 DEF Unmoved
<1>6. PICK e : e = Event(m, Here, Here, NoText)
  OBVIOUS
<1>7. e \in NoteEvents /\ e.mark = m /\ e.from = Here /\ e.to = Here /\ e.covered = NoText
  BY <1>6, TypeFacts DEF Event, NoteEvents
<1>8. SpanTrue(e, m)' /\ TextTrue(e, m)'
  BY <1>2, <1>3, <1>7 DEF SpanTrue, TextTrue, Started, EndMet
<1>9. Emit(e) /\ Truthful(e)'
  BY <1>1, <1>6, <1>7, <1>8 DEF Truthful
<1>10. TellsTrue' /\ Told' = Told \cup {m}
  BY <1>5, <1>7, <1>9, TellsOneMore, OneMore DEF MarksTypeOK
<1>11. \A x \in Clear \ {m} : Waits(x)' <=> Waits(x)
  <2>1. \A x \in Marks \ {m} : Inside(x)' <=> Inside(x)
    BY <1>2 DEF Inside
  <2> QED BY <1>1, <1>4, <2>1 DEF Waits
<1>12. ~Inside(m)' /\ ~Waits(m)'
  BY <1>1, <1>2, <1>3 DEF Inside, Waits
<1>13. FollowedOf(m)' \/ m \notin Clear
  BY <1>1, <1>2, <1>3, <1>10, <1>12 DEF FollowedOf
<1>14. \A x \in Marks \ {m} : /\ (x \in DOMAIN open' <=> x \in DOMAIN open)
                              /\ (x \in DOMAIN open => open'[x] = open[x])
                              /\ (x \in seen' <=> x \in seen) /\ (x \in Told => x \in Told')
  BY <1>1, <1>10
<1>15. \A x \in Clear : Waits(x) => open'[Anon] = open[Anon]
  BY <1>1
<1>16. Followed'
  BY <1>1, <1>2, <1>4, <1>11, <1>12, <1>13, <1>14, <1>15, OthersFollowed
<1> QED BY <1>10, <1>16

\* A character more: every mark that is open hears it, and in the body the
\* offset counts it.
LEMMA TextMoves ==
  ASSUME MarksTypeOK, ReadText \/ EndParagraph, ~warned, ~warned'
  PROVE  /\ place \in Walks /\ UNCHANGED <<kind, starts, ends, place, seen, events, confused>>
         /\ open' = Hear
         /\ offset' = IF place = "body" THEN offset + 1 ELSE offset
         /\ \A x \in Marks :
              stray'[x] = IF place # "body" /\ Inside(x) THEN stray[x] + 1 ELSE stray[x]
<1>1. \A x \in Marks : stray[x] \in Int
  BY TypeFacts DEF MarksTypeOK
<1>2. CASE ReadText
  <2>1. /\ place \in Walks /\ UNCHANGED <<kind, starts, ends, place, seen, events, confused>>
        /\ open' = Hear /\ offset' = IF place = "body" THEN offset + 1 ELSE offset
        /\ AddStray(IF place = "body" THEN 0 ELSE 1)
    BY <1>2 DEF ReadText, Warn, RunRead
  <2>2. \A x \in Marks :
          stray'[x] = IF Inside(x) THEN stray[x] + (IF place = "body" THEN 0 ELSE 1) ELSE stray[x]
    BY <2>1 DEF AddStray
  <2> QED BY <1>1, <2>1, <2>2
<1>3. CASE EndParagraph
  BY <1>3 DEF EndParagraph, Break, document, Walks
<1> QED BY <1>2, <1>3

LEMMA TextFollowed ==
  ASSUME MarksTypeOK, Once, Followed, TellsTrue, ReadText \/ EndParagraph, ~warned, ~warned'
  PROVE  Followed' /\ TellsTrue'
<1>1. /\ place \in Walks /\ UNCHANGED <<kind, starts, ends, place, seen, events, confused>>
      /\ open' = Hear
      /\ offset' = IF place = "body" THEN offset + 1 ELSE offset
      /\ \A x \in Marks :
           stray'[x] = IF place # "body" /\ Inside(x) THEN stray[x] + 1 ELSE stray[x]
  BY TextMoves
<1>2. Clear' = Clear /\ Clear \subseteq Marks /\ Told' = Told
  BY <1>1 DEF Clear, Told
<1>3. \A x \in Clear : x \in Told => ~Inside(x)
  BY <1>1, ToldIsOver
<1>4. Unmoved
  BY <1>1, <1>2, <1>3 DEF Unmoved
<1>5. TellsTrue'
  BY <1>1, <1>4, TellsNothing
<1>6. /\ DOMAIN open' = DOMAIN open
      /\ \A n \in DOMAIN open :
           open'[n].from = open[n].from /\ open'[n].covered = open[n].covered + 1
  BY <1>1, HearIs
<1>7. \A x \in Marks :
        /\ Started(x)' <=> Started(x)
        /\ EndMet(x)' <=> EndMet(x)
        /\ Inside(x)' <=> Inside(x)
        /\ Waits(x)' <=> Waits(x)
  BY <1>1, <1>6 DEF Started, EndMet, Inside, Waits
<1>8. ASSUME NEW x \in Clear, Inside(x)
      PROVE  Width(x)' + stray'[x] = (Width(x) + stray[x]) + 1
  <2>1. /\ starts[x] \in Int /\ stray[x] \in Int /\ offset \in Nat /\ x \in Marks
        /\ place = "body" => starts[x] # Outside
    BY <1>2, <1>8, TypeFacts DEF MarksTypeOK, Followed, FollowedOf
  <2>2. Width(x)' = IF starts[x] = Outside THEN 0 ELSE offset' - starts[x]
    BY <1>1 DEF Width
  <2>3. Width(x) = IF starts[x] = Outside THEN 0 ELSE offset - starts[x]
    BY DEF Width
  <2> QED BY <1>1, <1>8, <2>1, <2>2, <2>3
<1>9. ASSUME NEW x \in Clear PROVE FollowedOf(x)' /\ (Waits(x)' => WaitsRight(x)')
  <2>0. x \in Marks
    BY <1>2
  <2>1. FollowedOf(x) /\ (Waits(x) => WaitsRight(x))
    BY DEF Followed
  <2>2. x \in DOMAIN open => (OpenRight(x)' <=> OpenRight(x))
    BY <1>1, <1>6, <1>7, <2>0 DEF OpenRight
  <2>3. starts[x] = Unmet => ~Inside(x)
    BY DEF Inside
  <2>4. x \in DOMAIN open' /\ Inside(x)' => open'[x].covered = Width(x)' + stray'[x]
    <3> SUFFICES ASSUME x \in DOMAIN open', Inside(x)'
                 PROVE  open'[x].covered = Width(x)' + stray'[x]
      OBVIOUS
    <3>1. open'[x].covered = open[x].covered + 1 /\ Inside(x)
      BY <1>6, <1>7, <2>0
    <3>2. open[x].covered = Width(x) + stray[x]
      BY <1>6, <2>1, <3>1 DEF FollowedOf
    <3> QED BY <1>8, <3>1, <3>2
  <2>5. FollowedOf(x)'
    BY <1>1, <1>2, <1>6, <1>7, <2>0, <2>1, <2>2, <2>3, <2>4 DEF FollowedOf
  <2>6. Waits(x)' => WaitsRight(x)'
    <3> SUFFICES ASSUME Waits(x)' PROVE WaitsRight(x)'
      OBVIOUS
    <3>1. Waits(x) /\ Inside(x) /\ Anon \in DOMAIN open
      BY <1>7, <2>0 DEF Waits
    <3>2. open[Anon].from = starts[x] /\ open[Anon].covered = Width(x) + stray[x]
      BY <2>1, <3>1 DEF WaitsRight
    <3>3. /\ open'[Anon].from = open[Anon].from
          /\ open'[Anon].covered = open[Anon].covered + 1
      BY <1>6, <3>1
    <3>4. open'[Anon].covered = Width(x)' + stray'[x]
      BY <1>8, <3>1, <3>2, <3>3
    <3> QED BY <1>1, <3>2, <3>3, <3>4 DEF WaitsRight
  <2> QED BY <2>5, <2>6
<1>10. \A x \in Clear, y \in Clear : Waits(x)' /\ Waits(y)' => x = y
  BY <1>2, <1>7 DEF Followed
<1>11. \A x \in Clear : Waits(x)' => x \notin DOMAIN open' /\ place' \in Walks
  BY <1>1, <1>2, <1>6, <1>7 DEF Followed
<1>12. Followed'
  BY <1>2, <1>9, <1>10, <1>11 DEF Followed, Walks
<1> QED BY <1>5, <1>12

LEMMA MoveFollowed ==
  ASSUME MarksTypeOK, Once, Followed, TellsTrue, Move
  PROVE  Followed' /\ TellsTrue'
<1>1. /\ place \in Walks /\ place' \in Walks \cup {"flush"}
      /\ UNCHANGED <<kind, starts, stray, offset, open, seen, events>>
      /\ place' = "body" => place = "table"
      /\ ends' = [x \in Marks |-> IF Inside(x) /\ (starts[x] = Outside \/ place' = "apart")
                               THEN Missed ELSE ends[x]]
      /\ confused' = IF Anon \in DOMAIN open THEN confused \cup Pending ELSE confused
  BY DEF Move, Walks
<1>2. Clear' \subseteq Clear /\ Clear \subseteq Marks /\ Told' = Told
  BY <1>1 DEF Clear, Told
<1>3. \A x \in Clear' : ~Waits(x)
  BY <1>1, <1>2 DEF Clear, Waits, Pending
<1>4. \A x \in Marks : /\ Inside(x)' => Inside(x)
                       /\ ends'[x] = ends[x] \/ (Inside(x) /\ ends'[x] = Missed)
  BY <1>1 DEF Inside, Unmet, Missed
<1>5. \A x \in Clear' : ~Waits(x)'
  BY <1>1, <1>2, <1>3, <1>4 DEF Waits
<1>6. \A x \in Clear : x \in Told => ~Inside(x)
  BY <1>1, ToldIsOver
<1>7. Unmoved
  BY <1>1, <1>2, <1>4, <1>6 DEF Unmoved
<1>8. TellsTrue'
  BY <1>1, <1>7, TellsNothing
<1>9. ASSUME NEW x \in Clear' PROVE FollowedOf(x)'
  <2>1. FollowedOf(x) /\ x \in Marks
    BY <1>2 DEF Followed
  <2>2. /\ Started(x)' <=> Started(x)
        /\ EndMet(x)' <=> EndMet(x)
        /\ EndMet(x) => ends'[x] = ends[x]
    BY <1>1, <1>4, <2>1 DEF Started, EndMet, Inside, Unmet, Missed
  <2>3. Inside(x)' /\ starts[x] = Outside => FALSE
    BY <1>1, <1>4, <2>1 DEF Inside, Unmet, Missed
  <2>4. x \in DOMAIN open' => OpenRight(x)'
    BY <1>1, <2>1, <2>2 DEF FollowedOf, OpenRight
  <2>5. Width(x)' = Width(x)
    BY <1>1 DEF Width
  <2> QED BY <1>1, <1>2, <1>3, <1>4, <2>1, <2>2, <2>3, <2>4, <2>5 DEF FollowedOf
<1>10. Followed'
  BY <1>5, <1>9 DEF Followed
<1> QED BY <1>8, <1>10

LEMMA FlushFollowed ==
  ASSUME MarksTypeOK, Once, Followed, TellsTrue, Flush
  PROVE  Followed' /\ TellsTrue'
<1>1. /\ place = "flush" /\ place' \in {"flush", "sweep"}
      /\ UNCHANGED <<kind, starts, ends, stray, offset, seen, confused>>
  BY DEF Flush, document
<1>2. /\ place' \notin Walks /\ Clear' = Clear /\ Clear \subseteq Marks
      /\ \A x \in Clear : ~Waits(x)
  BY <1>1 DEF Followed, Walks, Clear
<1>3. \A x \in Marks :
        /\ Started(x)' <=> Started(x)
        /\ EndMet(x)' <=> EndMet(x)
        /\ Inside(x)' <=> Inside(x)
        /\ Width(x)' = Width(x)
  BY <1>1 DEF Started, EndMet, Inside, Width
<1>4. Unmoved
  BY <1>1, <1>2 DEF Unmoved
<1>5. CASE UNCHANGED <<open, events>>
  <2>1. TellsTrue' /\ Told' = Told
    BY <1>4, <1>5, TellsNothing DEF Told
  <2>2. \A x \in Clear : ~Waits(x)'
    BY <1>1, <1>2, <1>3, <1>5 DEF Waits
  <2>3. ASSUME NEW x \in Clear PROVE FollowedOf(x)'
    <3>1. FollowedOf(x) /\ x \in Marks
      BY <1>2 DEF Followed
    <3>2. OpenRight(x)' <=> OpenRight(x)
      BY <1>1, <1>3, <1>5, <3>1 DEF OpenRight
    <3> QED BY <1>1, <1>2, <1>3, <1>5, <2>1, <2>2, <3>1, <3>2 DEF FollowedOf
  <2> QED BY <1>2, <2>1, <2>2, <2>3 DEF Followed
<1>6. CASE \E m \in DOMAIN open : Emit(Flushed(m)) /\ open' = Without(m)
  <2>1. PICK m \in DOMAIN open : Emit(Flushed(m)) /\ open' = Without(m)
    BY <1>6
  <2>2. DOMAIN open' = DOMAIN open \ {m} /\ \A n \in DOMAIN open \ {m} : open'[n] = open[n]
    BY <2>1, WithoutIs
  <2>3. PICK e : e = Flushed(m)
    OBVIOUS
  <2>4. e \in NoteEvents /\ e.mark = m /\ Emit(e)
    BY <2>1, <2>3, FlushedTyped
  <2>5. ASSUME m \in Clear PROVE Truthful(e)'
    <3>1. m \in Marks /\ m # Anon /\ OpenRight(m)
      BY <1>2, <2>1, <2>5, TypeFacts DEF Followed, FollowedOf
    <3>2. /\ e.from = open[m].from /\ e.covered = NoText
          /\ e.to = IF kind[m] = "comment" THEN open[m].from ELSE -1
      BY <2>3, <3>1 DEF Flushed, Event, Kind
    <3>3. SpanTrue(e, m) /\ TextTrue(e, m)
      BY <3>1, <3>2 DEF OpenRight, SpanTrue, TextTrue
    <3>4. SpanTrue(e, m)' /\ TextTrue(e, m)'
      BY <1>1, <1>3, <3>1, <3>2, <3>3 DEF SpanTrue, TextTrue
    <3> QED BY <2>4, <3>4 DEF Truthful
  <2>6. TellsTrue' /\ Told' = Told \cup {m}
    BY <1>2, <1>4, <2>4, <2>5, TellsOneMore, OneMore DEF MarksTypeOK
  <2>7. \A x \in Clear : ~Waits(x)'
    BY <1>1, <1>2, <1>3, <2>2 DEF Waits
  <2>8. ASSUME NEW x \in Clear PROVE FollowedOf(x)'
    <3>1. FollowedOf(x) /\ x \in Marks
      BY <1>2 DEF Followed
    <3>2. x \in DOMAIN open' => (OpenRight(x)' <=> OpenRight(x))
      BY <1>1, <1>3, <2>2, <3>1 DEF OpenRight
    <3> QED BY <1>1, <1>2, <1>3, <2>2, <2>6, <2>7, <3>1, <3>2 DEF FollowedOf
  <2> QED BY <1>2, <2>6, <2>7, <2>8 DEF Followed
<1> QED BY <1>5, <1>6 DEF Flush

LEMMA SweepFollowed ==
  ASSUME MarksTypeOK, Once, Followed, TellsTrue, Sweep
  PROVE  Followed' /\ TellsTrue'
<1>1. /\ place = "sweep" /\ place' \in {"sweep", "done"}
      /\ UNCHANGED <<kind, starts, ends, stray, offset, open, confused>> /\ DOMAIN open = {}
  BY DEF Sweep, document, Once
<1>2. place' \notin Walks /\ Clear' = Clear /\ Clear \subseteq Marks
  BY <1>1 DEF Walks, Clear
<1>3. \A x \in Marks :
        /\ Started(x)' <=> Started(x)
        /\ EndMet(x)' <=> EndMet(x)
        /\ Inside(x)' <=> Inside(x)
        /\ ~Waits(x) /\ ~Waits(x)'
  BY <1>1 DEF Started, EndMet, Inside, Waits
<1>4. Unmoved
  BY <1>1, <1>2 DEF Unmoved
<1>5. CASE UNCHANGED <<seen, events>>
  <2>1. TellsTrue' /\ Told' = Told
    BY <1>4, <1>5, TellsNothing DEF Told
  <2>2. ASSUME NEW x \in Clear PROVE FollowedOf(x)'
    <3>1. FollowedOf(x) /\ x \in Marks
      BY <1>2 DEF Followed
    <3> QED BY <1>1, <1>2, <1>3, <1>5, <2>1, <3>1 DEF FollowedOf
  <2> QED BY <1>2, <1>3, <2>1, <2>2 DEF Followed
<1>6. CASE \E m \in Unseen : Emit(Event(m, Outside, Outside, NoText)) /\ seen' = seen \cup {m}
  <2>1. PICK m \in Unseen : Emit(Event(m, Outside, Outside, NoText)) /\ seen' = seen \cup {m}
    BY <1>6
  <2>2. m \in Marks /\ m \notin seen /\ kind[m] # "field"
    BY <2>1 DEF Unseen
  <2>3. m \in Clear => starts[m] = Unmet /\ ends[m] = Unmet
    BY <1>3, <2>2 DEF Followed, FollowedOf, Once
  <2>4. PICK e : e = Event(m, Outside, Outside, NoText)
    OBVIOUS
  <2>5. e \in NoteEvents /\ e.mark = m /\ e.from = -1 /\ e.to = -1 /\ e.covered = NoText
    BY <2>2, <2>4, TypeFacts DEF Event, NoteEvents, Outside
  <2>6. m \in Clear => SpanTrue(e, m)' /\ TextTrue(e, m)'
    BY <1>1, <2>3, <2>5 DEF SpanTrue, TextTrue, Started, EndMet
  <2>7. (m \in Clear => Truthful(e)') /\ Emit(e)
    BY <2>1, <2>4, <2>5, <2>6 DEF Truthful
  <2>8. TellsTrue' /\ Told' = Told \cup {m}
    BY <1>2, <1>4, <2>5, <2>7, TellsOneMore, OneMore DEF MarksTypeOK
  <2>9. ASSUME NEW x \in Clear PROVE FollowedOf(x)'
    <3>1. FollowedOf(x) /\ x \in Marks
      BY <1>2 DEF Followed
    <3> QED BY <1>1, <1>2, <1>3, <2>1, <2>8, <3>1 DEF FollowedOf
  <2> QED BY <1>2, <1>3, <2>8, <2>9 DEF Followed
<1> QED BY <1>5, <1>6 DEF Sweep

LEMMA RestFollowed ==
  ASSUME MarksTypeOK, Followed, TellsTrue, Unwind \/ Ended \/ UNCHANGED marksVars
  PROVE  Followed' /\ TellsTrue'
<1>1. UNCHANGED <<kind, starts, ends, stray, offset, open, seen, events, confused>>
  BY DEF Unwind, Ended, marksVars, document
<1>2. place' = place \/ place' = "failed"
  BY DEF Unwind, Ended, marksVars
<1>3. Clear' = Clear /\ Clear \subseteq Marks /\ Told' = Told
  BY <1>1 DEF Clear, Told
<1>4. TellsTrue'
  BY <1>1, <1>3, TellsNothing DEF Unmoved
<1>5. \A x \in Marks :
        /\ Started(x)' <=> Started(x)
        /\ EndMet(x)' <=> EndMet(x)
        /\ Inside(x)' <=> Inside(x)
        /\ Waits(x)' <=> Waits(x)
        /\ Width(x)' = Width(x)
  BY <1>1 DEF Started, EndMet, Inside, Waits, Width
<1>6. ASSUME NEW x \in Clear PROVE FollowedOf(x)' /\ (Waits(x)' => WaitsRight(x)')
  <2>1. FollowedOf(x) /\ (Waits(x) => WaitsRight(x)) /\ x \in Marks
    BY <1>3 DEF Followed
  <2>2. OpenRight(x)' <=> OpenRight(x)
    BY <1>1, <1>5, <2>1 DEF OpenRight
  <2>3. WaitsRight(x)' <=> WaitsRight(x)
    BY <1>1, <1>5, <2>1 DEF WaitsRight
  <2> QED BY <1>1, <1>2, <1>3, <1>5, <2>1, <2>2, <2>3 DEF FollowedOf, Walks
<1>7. \A x \in Clear, y \in Clear : Waits(x)' /\ Waits(y)' => x = y
  BY <1>3, <1>5 DEF Followed
<1>8. \A x \in Clear : Waits(x)' => x \notin DOMAIN open' /\ place' \in Walks \cup {"failed"}
  BY <1>1, <1>2, <1>3, <1>5 DEF Followed
<1>9. Followed'
  BY <1>3, <1>6, <1>7, <1>8 DEF Followed, Walks
<1> QED BY <1>4, <1>9

\* A failure that was told of stays told, and a guess stays one.
LEMMA WarnedStays ==
  ASSUME [MarksNext]_marksVars
  PROVE  (warned => warned') /\ confused \subseteq confused'
<1>1. ASSUME NEW m \in Marks, MeetStart(m) \/ MeetEnd(m) \/ MeetPoint(m) \/ FailToRead(m)
      PROVE  (warned => warned') /\ confused \subseteq confused'
  <2>1. CASE MeetPoint(m) \/ FailToRead(m)
    BY <2>1 DEF MeetPoint, FailToRead, Warn
  <2>2. CASE MeetStart(m) \/ MeetEnd(m)
    <3>1. \E isStart \in BOOLEAN : Meet(m, isStart)
      BY <2>2 DEF MeetStart, MeetEnd
    <3>2. confused \subseteq confused'
      BY <3>1 DEF Meet
    <3>3. warned' = warned
      BY <2>2 DEF MeetStart, MeetEnd
    <3> QED BY <3>2, <3>3
  <2> QED BY <1>1, <2>1, <2>2
<1>2. CASE ReadText \/ EndParagraph \/ Move \/ Flush \/ Sweep \/ Unwind \/ Ended \/ UNCHANGED marksVars
  BY <1>2 DEF ReadText, EndParagraph, Move, Flush, Sweep, Unwind, Ended, marksVars, Warn
<1> QED BY <1>1, <1>2 DEF MarksNext

\* The sweep ends by itself when it has told all that was not seen.
LEMMA SweptStep ==
  ASSUME SweptAll, ~warned, ~warned', [MarksNext]_marksVars
  PROVE  SweptAll'
<1>1. CASE Sweep
  <2>1. kind' = kind
    BY <1>1 DEF Sweep, document
  <2>2. place = "sweep"
    BY <1>1 DEF Sweep
  <2>3. CASE place' = place
    BY <2>2, <2>3 DEF SweptAll
  <2>4. CASE Unseen = {} /\ seen' = seen
    BY <2>1, <2>4 DEF SweptAll, Unseen
  <2> QED BY <1>1, <2>3, <2>4 DEF Sweep, Warn
<1>2. ASSUME NEW m \in Marks, MeetStart(m) \/ MeetEnd(m) \/ MeetPoint(m) \/ FailToRead(m)
      PROVE  SweptAll'
  <2>1. place \in Walks /\ place' = place
    BY <1>2 DEF MeetStart, MeetEnd, MeetPoint, FailToRead
  <2> QED BY <2>1 DEF SweptAll, Walks
<1>3. CASE ReadText \/ EndParagraph \/ Move \/ Flush \/ Unwind
  <2>1. place' # "done"
    BY <1>3 DEF ReadText, EndParagraph, Move, Flush, Unwind, Walks
  <2> QED BY <2>1 DEF SweptAll
<1>4. CASE Ended \/ UNCHANGED marksVars
  <2>1. place' = place /\ seen' = seen /\ kind' = kind
    BY <1>4 DEF Ended, marksVars, document
  <2> QED BY <2>1 DEF SweptAll, Unseen
<1> QED BY <1>1, <1>2, <1>3, <1>4 DEF MarksNext

\* A boundary that waits still does, when its comment is not the mark that is met.
LEMMA StillWaits ==
  ASSUME MarksTypeOK, NoStranger, confused = {}, NEW m \in Marks, kind' = kind,
         \A x \in Marks \ {m} : starts'[x] = starts[x] /\ ends'[x] = ends[x],
         DOMAIN open' \subseteq DOMAIN open \cup {m},
         kind[m] = "comment" => m \in DOMAIN open \/ Anon \notin DOMAIN open',
         Told' \subseteq Told \cup {m}
  PROVE  NoStranger'
<1>1. m # Anon /\ Anon \notin Told /\ DOMAIN open \subseteq Marks \cup {Anon}
  BY TypeFacts DEF NoStranger, MarksTypeOK
<1>2. ASSUME Anon \in DOMAIN open' PROVE \E w \in Marks : Waits(w)' /\ w \notin DOMAIN open'
  <2>1. PICK w \in Marks : Waits(w) /\ w \notin DOMAIN open
    BY <1>1, <1>2 DEF NoStranger
  <2>2. w # m
    BY <1>2, <2>1 DEF Waits
  <2>3. Waits(w)' /\ w \notin DOMAIN open'
    BY <1>2, <2>1, <2>2 DEF Waits, Inside
  <2> QED BY <2>3
<1> QED BY <1>1, <1>2 DEF NoStranger

LEMMA MeetNoStranger ==
  ASSUME MarksTypeOK, Once, NoStranger, confused = {}, confused' = {}, NEW m \in Marks,
         MeetStart(m) \/ MeetEnd(m) \/ MeetPoint(m)
  PROVE  NoStranger'
<1>1. m # Anon /\ Anon \notin Told
  BY TypeFacts DEF NoStranger
<1>2. ~Guess(m)
  BY DEF Guess, Rivals
<1>3. CASE MeetStart(m)
  <2>1. /\ UNCHANGED <<kind, ends, events>> /\ starts[m] = Unmet /\ ends[m] = Unmet
        /\ starts' = [starts EXCEPT ![m] = Here] /\ m \notin DOMAIN open
    BY <1>2, <1>3, StartCases
  <2>2. starts'[m] = Here /\ \A x \in Marks \ {m} : starts'[x] = starts[x] /\ ends'[x] = ends[x]
    BY <2>1 DEF MarksTypeOK
  <2>3. Told' = Told
    BY <2>1 DEF Told
  <2>4. CASE open' = Opened(m, Here) /\ (kind[m] = "comment" => Anon \notin DOMAIN open)
    <3>1. DOMAIN open' = DOMAIN open \cup {m}
      BY <2>4, OpenedIs, TypeFacts
    <3> QED BY <1>1, <2>1, <2>2, <2>3, <2>4, <3>1, StillWaits
  <2>5. CASE kind[m] = "comment" /\ open' = Opened(Anon, Here)
    <3>1. DOMAIN open' = DOMAIN open \cup {Anon}
      BY <2>5, OpenedIs, TypeFacts
    <3>2. Waits(m)' /\ m \notin DOMAIN open'
      BY <1>1, <2>1, <2>2, <2>5, <3>1, TypeFacts DEF Waits, Inside
    <3> QED BY <1>1, <2>3, <3>2 DEF NoStranger
  <2> QED BY <1>2, <1>3, <2>4, <2>5, StartCases
<1>4. CASE MeetEnd(m)
  <2>1. /\ kind' = kind
        /\ starts' = [starts EXCEPT ![m] = IF @ = Unmet THEN Missed ELSE @]
        /\ ends' = [ends EXCEPT ![m] = Here]
    BY <1>4, EndCases
  <2>2. \A x \in Marks \ {m} : starts'[x] = starts[x] /\ ends'[x] = ends[x]
    BY <2>1 DEF MarksTypeOK
  <2>3. DOMAIN open' \subseteq DOMAIN open \cup {m} /\ Told' \subseteq Told \cup {m}
    BY <1>2, <1>4, EndTells
  <2>4. kind[m] = "comment" => m \in DOMAIN open \/ Anon \notin DOMAIN open'
    <3>1. DOMAIN Without(Anon) = DOMAIN open \ {Anon}
      BY WithoutIs
    <3>2. DOMAIN Opened(m, Here) = DOMAIN open \cup {m}
      BY OpenedIs, TypeFacts
    <3>3. Close(Anon, m) => open' = Without(Anon)
      BY DEF Close
    <3> QED BY <1>1, <1>2, <1>4, <3>1, <3>2, <3>3, EndCases
  <2> QED BY <2>1, <2>2, <2>3, <2>4, StillWaits
<1>5. CASE MeetPoint(m)
  <2>1. /\ UNCHANGED <<kind, open>> /\ kind[m] # "comment"
        /\ starts' = [starts EXCEPT ![m] = Here] /\ ends' = [ends EXCEPT ![m] = Here]
        /\ Emit(Event(m, Here, Here, NoText))
    BY <1>5 DEF MeetPoint, OnPoint
  <2>2. \A x \in Marks \ {m} : starts'[x] = starts[x] /\ ends'[x] = ends[x]
    BY <2>1 DEF MarksTypeOK
  <2>3. Event(m, Here, Here, NoText) \in NoteEvents /\ Event(m, Here, Here, NoText).mark = m
    BY TypeFacts DEF Event, NoteEvents
  <2>4. Told' = Told \cup {m}
    BY <2>1, <2>3, OneMore DEF MarksTypeOK
  <2> QED BY <2>1, <2>2, <2>4, StillWaits
<1> QED BY <1>3, <1>4, <1>5

\* Where nothing had to be guessed, a boundary waits for a comment that has
\* started, and nothing is told without its mark.
LEMMA NoStrangerStep ==
  ASSUME MarksTypeOK, Once, Followed, NoStranger, ~warned, ~warned', [MarksNext]_marksVars
  PROVE  NoStranger'
<1> SUFFICES ASSUME confused' = {} PROVE NoStranger'
  BY DEF NoStranger
<1>1. confused = {}
  BY WarnedStays
<1>2. Clear = Marks /\ Anon \notin Told
  BY <1>1 DEF Clear, NoStranger
<1>3. CASE ReadText \/ EndParagraph \/ Unwind \/ Ended \/ UNCHANGED marksVars
  <2>1. UNCHANGED <<kind, starts, ends, events>>
    BY <1>3 DEF ReadText, EndParagraph, Unwind, Ended, marksVars, document
  <2>2. DOMAIN open' = DOMAIN open
    BY <1>3, HearIs DEF ReadText, EndParagraph, Unwind, Ended, marksVars, Break
  <2>3. Told' = Told /\ \A x \in Marks : Waits(x)' <=> Waits(x)
    BY <2>1, <2>2 DEF Told, Waits, Inside
  <2> QED BY <1>1, <2>2, <2>3 DEF NoStranger
<1>4. CASE Move
  <2>1. Anon \notin DOMAIN open
    <3>1. ASSUME NEW w \in Marks, Waits(w), Anon \in DOMAIN open PROVE FALSE
      BY <1>4, <3>1 DEF Move, Waits, Pending
    <3> QED BY <1>1, <3>1 DEF NoStranger
  <2>2. Told' = Told /\ open' = open
    BY <1>4 DEF Move, Told
  <2> QED BY <1>2, <2>1, <2>2 DEF NoStranger
<1>5. ASSUME NEW m \in Marks, MeetStart(m) \/ MeetEnd(m) \/ MeetPoint(m) \/ FailToRead(m)
      PROVE  NoStranger'
  <2>1. ~FailToRead(m)
    BY DEF FailToRead, Warn
  <2> QED BY <1>1, <1>5, <2>1, MeetNoStranger
<1>6. CASE Flush
  <2>1. Anon \notin DOMAIN open
    BY <1>1, <1>2, <1>6 DEF NoStranger, Followed, Flush, Walks
  <2>2. CASE UNCHANGED <<open, events>>
    <3>1. Told' = Told
      BY <2>2 DEF Told
    <3> QED BY <1>2, <2>1, <2>2, <3>1 DEF NoStranger
  <2>3. CASE \E m \in DOMAIN open : Emit(Flushed(m)) /\ open' = Without(m)
    <3>1. PICK m \in DOMAIN open : Emit(Flushed(m)) /\ open' = Without(m)
      BY <2>3
    <3>2. Told' = Told \cup {m} /\ m # Anon
      BY <2>1, <3>1, FlushedTyped, OneMore DEF MarksTypeOK
    <3>3. DOMAIN open' = DOMAIN open \ {m}
      BY <3>1, WithoutIs
    <3> QED BY <1>2, <2>1, <3>2, <3>3 DEF NoStranger
  <2> QED BY <1>6, <2>2, <2>3 DEF Flush
<1>7. CASE Sweep
  <2>1. DOMAIN open = {} /\ open' = open
    BY <1>7 DEF Sweep, Once
  <2>2. CASE UNCHANGED events
    <3>1. Told' = Told
      BY <2>2 DEF Told
    <3> QED BY <1>2, <2>1, <3>1 DEF NoStranger
  <2>3. CASE \E m \in Unseen : Emit(Event(m, Outside, Outside, NoText))
    <3>1. PICK m \in Unseen : Emit(Event(m, Outside, Outside, NoText))
      BY <2>3
    <3>2. /\ Event(m, Outside, Outside, NoText) \in NoteEvents
          /\ Event(m, Outside, Outside, NoText).mark = m /\ m # Anon
      BY TypeFacts DEF Unseen, Event, NoteEvents
    <3>3. Told' = Told \cup {m}
      BY <3>1, <3>2, OneMore DEF MarksTypeOK
    <3> QED BY <1>2, <2>1, <3>2, <3>3 DEF NoStranger
  <2> QED BY <1>7, <2>2, <2>3 DEF Sweep
<1> QED BY <1>3, <1>4, <1>5, <1>6, <1>7 DEF MarksNext

\* So they are as long as everything could be read.
LEMMA UnharmedStep ==
  ASSUME MarksTypeOK, Once, Unharmed, [MarksNext]_marksVars
  PROVE  Unharmed'
<1> SUFFICES ASSUME ~warned' PROVE Followed' /\ TellsTrue' /\ SweptAll' /\ NoStranger'
  BY DEF Unharmed
<1> SUFFICES ASSUME ~warned, SweptAll', NoStranger' PROVE Followed' /\ TellsTrue'
  <2>1. warned => warned'
    BY WarnedStays
  <2>2. ~warned => SweptAll'
    BY SweptStep DEF Unharmed
  <2>3. ~warned => NoStranger'
    BY NoStrangerStep DEF Unharmed
  <2> QED BY <2>1, <2>2, <2>3
<1>1. ~warned
  OBVIOUS
<1>2. Followed /\ TellsTrue
  BY <1>1 DEF Unharmed
<1>3. CASE ReadText \/ EndParagraph
  BY <1>1, <1>2, <1>3, TextFollowed
<1>4. CASE Move
  BY <1>2, <1>4, MoveFollowed
<1>5. ASSUME NEW m \in Marks, MeetStart(m) \/ MeetEnd(m) \/ MeetPoint(m) \/ FailToRead(m)
      PROVE  Followed' /\ TellsTrue'
  <2>1. ~FailToRead(m)
    BY DEF FailToRead, Warn
  <2>2. CASE MeetEnd(m)
    BY <1>2, <2>2, EndFollowed, EndGuessFollowed
  <2> QED BY <1>2, <1>5, <2>1, <2>2, StartFollowed, PointFollowed
<1>6. CASE Flush
  BY <1>2, <1>6, FlushFollowed
<1>7. CASE Sweep
  BY <1>2, <1>7, SweepFollowed
<1>8. CASE Unwind \/ Ended \/ UNCHANGED marksVars
  BY <1>2, <1>8, RestFollowed
<1> QED BY <1>3, <1>4, <1>5, <1>6, <1>7, <1>8 DEF MarksNext

----------------------------------------------------------------------------
MarksInv == MarksTypeOK /\ Once /\ Unharmed

\* The inductive invariant of the collector, for every document: boundaries
\* without their names may be met anywhere.
LEMMA MarksInvAlways == MarksSpec => []MarksInv
<1>1. MarksInit => MarksInv
  <2>1. MarksInit => SweptAll
    BY DEF MarksInit, SweptAll
  <2> QED BY <2>1, MarksTypeInit, OnceInit, FollowedInit DEF MarksInv, Unharmed
<1>2. MarksInv /\ [MarksNext]_marksVars => MarksInv'
  BY MarksTypeStep, OnceStep, UnharmedStep DEF MarksInv
<1> QED BY <1>1, <1>2, PTL DEF MarksSpec

\* Every variable of the collector stays within its type: in particular a mark
\* is open with an offset of the document.
THEOREM MarksTypeCorrect == MarksSpec => []MarksTypeOK
<1>1. MarksInv => MarksTypeOK
  BY DEF MarksInv
<1> QED BY <1>1, MarksInvAlways, PTL

\* No mark is told twice, none is told under a name that no mark has, and when
\* everything could be read none is forgotten (EachMarkOnce), for any number of
\* marks that cross, enclose each other or are never met; only marks that a
\* boundary without its name may have been taken for are excepted.
THEOREM MarksToldOnce == MarksSpec => []EachMarkOnce
<1>1. ASSUME MarksInv PROVE EachMarkOnce
  <2>1. Once /\ Unharmed
    BY <1>1 DEF MarksInv
  <2>2. ASSUME NEW m \in Clear PROVE Cardinality(Emitted(m)) <= 1
    <3>1. \A i \in Emitted(m), j \in Emitted(m) : i = j
      BY <2>1 DEF Once, NeverTwice, Emitted
    <3>2. CASE Emitted(m) = {}
      BY <3>2, FS_EmptySet
    <3>3. CASE Emitted(m) # {}
      <4>1. PICK i : Emitted(m) = {i}
        BY <3>1, <3>3
      <4>2. Cardinality({i}) = 1
        BY FS_Singleton
      <4> QED BY <4>1, <4>2
    <3> QED BY <3>2, <3>3
  <2>3. \A m : Emitted(m) = {} <=> m \notin Told
    BY DEF Emitted, Told
  <2>4. ~warned /\ confused = {} => Emitted(Anon) = {}
    BY <2>1, <2>3 DEF Unharmed, NoStranger
  <2>5. ASSUME place = "done", ~warned, NEW m \in Clear, kind[m] # "field" \/ Started(m)
        PROVE  Emitted(m) # {}
    <3>1. FollowedOf(m) /\ DOMAIN open = {} /\ m \in Marks
      BY <2>1, <2>5 DEF Once, Unharmed, Followed, Clear
    <3>2. kind[m] # "field" => m \in seen
      BY <2>1, <2>5, <3>1 DEF Unharmed, SweptAll, Unseen
    <3>3. m \in Told
      BY <2>5, <3>1, <3>2 DEF FollowedOf
    <3> QED BY <2>3, <3>3
  <2> QED BY <2>2, <2>4, <2>5 DEF EachMarkOnce
<1>2. MarksInv => EachMarkOnce
  BY <1>1
<1> QED BY <1>2, MarksInvAlways, PTL

\* A mark is told with the offsets of its own boundaries, and one that was not
\* met is not made up (SpansTrue), in documents of any length; a boundary without
\* its name spoils no mark but those it may have been taken for.
THEOREM SpansAreTrue == MarksSpec => []SpansTrue
<1>1. ASSUME MarksInv, ~warned, NEW i \in 1..Len(events), events[i].mark \in Clear
      PROVE  SpanTrue(events[i], events[i].mark)
  BY <1>1 DEF MarksInv, Unharmed, TellsTrue, Truthful
<1>2. ASSUME MarksInv PROVE SpansTrue
  BY <1>1, <1>2 DEF SpansTrue, SpanTrue
<1>3. MarksInv => SpansTrue
  BY <1>2
<1> QED BY <1>3, MarksInvAlways, PTL

\* The text a mark is told with is what lies between its boundaries
\* (TextBetween), through tables and the texts apart from the body.
THEOREM TextLiesBetween == MarksSpec => []TextBetween
<1>1. ASSUME MarksInv, ~warned, NEW i \in 1..Len(events), events[i].mark \in Clear
      PROVE  TextTrue(events[i], events[i].mark)
  BY <1>1 DEF MarksInv, Unharmed, TellsTrue, Truthful
<1>2. ASSUME MarksInv PROVE TextBetween
  BY <1>1, <1>2 DEF TextBetween, TextTrue
<1>3. MarksInv => TextBetween
  BY <1>2
<1> QED BY <1>3, MarksInvAlways, PTL

=============================================================================
