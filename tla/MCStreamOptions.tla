-------------------------- MODULE MCStreamOptions --------------------------
(***************************************************************************)
(* Upload streams of up to three requests. Each carries one kind of option *)
(* with every combination of values that resolves differently, so that two *)
(* requests of a stream compete for the same fields.                       *)
(***************************************************************************)
EXTENDS StreamOptions

With(fields, values) ==
  {[f \in Fields |-> IF f \in fields THEN v[f] ELSE 0] : v \in [fields -> values]}

ImageRequests ==
  {[r EXCEPT !["page_format"] = format, !["page_quality"] = quality] :
     r \in With({"vector_format"}, {0, VectorNone, VectorSvg}),
     format \in {0, PNG, JPEG, SVG}, quality \in {0, 50}}

MCRequests == UNION {ImageRequests,
                     With(RangePair, {0, 2, 5}),
                     With({"render_dpi", "redact_spans"}, {0, 1, 2}),
                     With({"parts"}, {OnlyUnspecified, 2, 3}),
                     With({"grayscale", "skip_hidden"}, {0, 1})}
=============================================================================
