---------------------------- MODULE MCRedaction ----------------------------
(***************************************************************************)
(* Documents of two paragraphs, the first cut into segments in every way,  *)
(* with at most one further text that carries a letter, and requests of    *)
(* one span, of a short and a long one, or past the end.                   *)
(***************************************************************************)
EXTENDS Redaction

CONSTANTS a, b

Cells(text, segment, nested) ==
  [i \in 1..Len(text) |->
     [char |-> text[i], segment |-> segment[i], nested |-> segment[i] \in nested]]

FirstParagraphs ==
  {Cells(text, segment, nested) :
     text \in {<<a, b, a>>, <<a, b, b>>, <<a, Space, b>>, <<a, Glyph, b>>},
     segment \in {<<1, 1, 1>>, <<1, 1, 2>>, <<1, 2, 2>>, <<1, 2, 3>>},
     nested \in {{}, {2}}}
SecondParagraphs ==
  {Cells(text, <<4, 4>>, {}) : text \in {<<b>>, <<Space, a>>, <<a, b>>}}

Plain(first, second) ==
  [body |-> <<first, second>>, apart |-> <<>>, name |-> <<>>, author |-> <<>>,
   index |-> <<a, b>>, object |-> <<>>, foreign |-> FALSE]

MCDocuments ==
  UNION {LET d == Plain(first, second)
         IN  {d, [d EXCEPT !.apart = <<b, a, b>>], [d EXCEPT !.name = <<a, b>>],
              [d EXCEPT !.author = <<b>>], [d EXCEPT !.object = <<a, b>>],
              [d EXCEPT !.foreign = TRUE]} :
           first \in FirstParagraphs, second \in SecondParagraphs}

MCRequests ==
  {{<<i, j>>} : i \in 0..4, j \in 1..6}
    \cup {{<<i, i + 1>>, <<j, k>>} : i \in 0..1, j \in 0..3, k \in 3..4}
=============================================================================
