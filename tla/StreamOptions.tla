---------------------------- MODULE StreamOptions ----------------------------
(***************************************************************************)
(* How the options of a call resolve when any request of its upload stream *)
(* may carry them: the capture_* helpers and merge_stream_options fold the *)
(* requests as they arrive (src/src/render_service.cpp), render hands part *)
(* of the result to the worker on its argv and all of it in options.pb,    *)
(* and the worker puts the two back together (src/src/worker_main.cpp).    *)
(*                                                                         *)
(* A request's options are a function from field to number, 0 meaning      *)
(* unset: a list is numbered, a flag is 0 or 1, an enum has its wire       *)
(* value. Of a parts list only one thing matters beyond that: a list that  *)
(* holds nothing but DOCUMENT_PART_UNSPECIFIED counts as empty on the argv.*)
(***************************************************************************)
EXTENDS Integers, Sequences, SequencesExt

CONSTANTS Requests,      \* the options a request may carry
          MaxRequests    \* bound: requests in one upload stream

Scalars == {"render_dpi", "max_width_px", "timeout_seconds", "tracked_changes",
            "vector_format"}
Lists == {"parts", "form_values", "redact_spans"}
Flags == {"grayscale", "skip_hidden", "paint_used_range", "include_notes_pages"}
RangePair == {"first_page", "last_page"}
EncodingPair == {"page_format", "page_quality"}
Fields == Scalars \cup Lists \cup Flags \cup RangePair \cup EncodingPair

Options == {o \in [Fields -> Int] : \A f \in Flags : o[f] \in {0, 1}}
Unset == [f \in Fields |-> 0]

\* PageImageFormat and PageVectorFormat wire values, and the parts list that
\* holds only DOCUMENT_PART_UNSPECIFIED.
PNG == 1
JPEG == 2
SVG == 4
VectorNone == 1
VectorSvg == 2
OnlyUnspecified == 1

ASSUME RequestsAssumption == Requests \subseteq Options /\ MaxRequests \in Nat

VARIABLES requests,   \* history: the requests read so far
          extras,     \* the merged StreamOptions, bound for options.pb
          parts,      \* parts_token
          dpi,        \* requested_dpi
          range,      \* page_range
          encoding    \* ImageEncoding

vars == <<requests, extras, parts, dpi, range, encoding>>

----------------------------------------------------------------------------
(* One request joins the ones before it *)

Neither(options, pair) == \A f \in pair : options[f] = 0   \* neither is set

FirstField(dest, incoming, f) == IF dest[f] = 0 THEN incoming[f] ELSE dest[f]

Sticky(dest, incoming, f) == IF dest[f] = 1 \/ incoming[f] = 1 THEN 1 ELSE 0

\* Mutant: the fields of a pair resolve one by one.
EachAlone(dest, incoming, pair, f) == FirstField(dest, incoming, f)
AsOnePair(dest, incoming, pair, f) ==
  IF Neither(dest, pair) THEN incoming[f] ELSE dest[f]

Merged(dest, incoming) ==
  [f \in Fields |->
     CASE f \in Scalars \cup Lists -> FirstField(dest, incoming, f)
       [] f \in Flags              -> Sticky(dest, incoming, f)
       [] f \in RangePair          -> AsOnePair(dest, incoming, RangePair, f)
       [] f \in EncodingPair       -> AsOnePair(dest, incoming, EncodingPair, f)]

ImpliesVector(merged, incoming) ==
  incoming["page_format"] = SVG /\ merged["vector_format"] = 0

MergeStreamOptions(dest, incoming) ==
  LET merged == Merged(dest, incoming)
  IN  IF ImpliesVector(merged, incoming)
      THEN [merged EXCEPT !["vector_format"] = VectorSvg]
      ELSE merged

\* capture_parts: the token of the positive parts of the list.
PartsToken(list) == IF list = OnlyUnspecified THEN 0 ELSE list

\* Mutant: capture_dpi takes whatever the request carries.
LatestDpi(request) == IF request["render_dpi"] = 0 THEN dpi ELSE request["render_dpi"]
CaptureDpi(request) == IF dpi = 0 THEN request["render_dpi"] ELSE dpi

\* What the upload loop does with the options of one request.
Capture(request) ==
  /\ extras' = MergeStreamOptions(extras, request)
  /\ parts' = IF parts = 0 THEN PartsToken(request["parts"]) ELSE parts
  /\ dpi' = CaptureDpi(request)
  /\ range' = [f \in RangePair |-> AsOnePair(range, request, RangePair, f)]
  /\ encoding' = [f \in EncodingPair |-> AsOnePair(encoding, request, EncodingPair, f)]

Init == /\ requests = <<>>
        /\ extras = Unset
        /\ parts = 0
        /\ dpi = 0
        /\ range = [f \in RangePair |-> 0]
        /\ encoding = [f \in EncodingPair |-> 0]

Read == /\ Len(requests) < MaxRequests
        /\ \E request \in Requests :
             /\ requests' = Append(requests, request)
             /\ Capture(request)

Next == Read

Spec == Init /\ [][Next]_vars

----------------------------------------------------------------------------
(* What the worker makes of it *)

\* The worker's RenderOptions, from its argv and options.pb.
WorkerVector == IF extras["vector_format"] # 0 THEN extras["vector_format"]
                ELSE IF extras["page_format"] = SVG THEN VectorSvg ELSE 0

\* The range token first, then options.pb where the token left a bound open.
ArgvPage(f) == range[f]
WorkerPage(f) == IF ArgvPage(f) = 0 /\ extras[f] # 0 THEN extras[f] ELSE ArgvPage(f)

----------------------------------------------------------------------------
(* Properties *)

\* Every variable stays within its type: a flag is never anything else.
TypeOK == /\ requests \in Seq(Requests)
          /\ extras \in Options
          /\ parts \in Int
          /\ dpi \in Int
          /\ range \in [RangePair -> Int]
          /\ encoding \in [EncodingPair -> Int]

\* The request that wins a set of fields: the first with any of them set.
Winner(fields) ==
  LET first == SelectInSeq(requests, LAMBDA r : \E f \in fields : r[f] # 0)
  IN  IF first = 0 THEN Unset ELSE requests[first]

\* Every field resolves the way the comments of StreamOptions say: the first
\* nonzero value, the first non-empty list, the first true, and a pair from
\* the first request with either field nonzero. vector_format is apart, and
\* so is the parts token, which looks past a list without a single part.
FirstRequestWins ==
  /\ \A f \in (Scalars \cup Lists \cup Flags) \ {"vector_format"} :
       extras[f] = Winner({f})[f]
  /\ \A pair \in {RangePair, EncodingPair} : \A f \in pair :
       extras[f] = Winner(pair)[f]
  /\ LET first == SelectInSeq(requests, LAMBDA r : PartsToken(r["parts"]) # 0)
     IN  parts = (IF first = 0 THEN 0 ELSE requests[first]["parts"])

\* The two copies of an option cannot disagree: what reaches the worker on
\* its argv, which the server validated, is what options.pb says.
CopiesAgree ==
  /\ dpi = extras["render_dpi"]
  /\ \A f \in RangePair : range[f] = extras[f] /\ WorkerPage(f) = range[f]
  /\ \A f \in EncodingPair : encoding[f] = extras[f]

\* A request already merged has nothing left to say: a client may repeat its
\* options on every chunk.
Absorbed ==
  \A i \in 1..Len(requests) : MergeStreamOptions(extras, requests[i]) = extras

=============================================================================
