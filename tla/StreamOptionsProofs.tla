------------------------- MODULE StreamOptionsProofs -------------------------
(***************************************************************************)
(* StreamOptions for upload streams of any length and any requests: the    *)
(* two copies of an option agree, a request already merged has nothing     *)
(* left to say, and the first request to set a field wins it.              *)
(***************************************************************************)
EXTENDS StreamOptions, TLAPS

USE DEF Fields, Scalars, Lists, Flags, RangePair, EncodingPair

\* What a field of a merge is, by the kind of field.
LEMMA MergedFields ==
  ASSUME NEW dest \in Options, NEW incoming \in Options
  PROVE  LET merged == MergeStreamOptions(dest, incoming)
         IN  /\ merged \in Options
             /\ \A f \in (Scalars \cup Lists) \ {"vector_format"} :
                  merged[f] = FirstField(dest, incoming, f)
             /\ \A f \in Flags : merged[f] = Sticky(dest, incoming, f)
             /\ \A f \in RangePair : merged[f] = AsOnePair(dest, incoming, RangePair, f)
             /\ \A f \in EncodingPair :
                  merged[f] = AsOnePair(dest, incoming, EncodingPair, f)
             /\ merged["vector_format"] =
                  (IF FirstField(dest, incoming, "vector_format") = 0
                        /\ incoming["page_format"] = SVG
                   THEN VectorSvg ELSE FirstField(dest, incoming, "vector_format"))
<1> DEFINE raw == Merged(dest, incoming)
           merged == MergeStreamOptions(dest, incoming)
<1>1. /\ \A f \in Scalars \cup Lists : raw[f] = FirstField(dest, incoming, f)
      /\ \A f \in Flags : raw[f] = Sticky(dest, incoming, f)
      /\ \A f \in RangePair : raw[f] = AsOnePair(dest, incoming, RangePair, f)
      /\ \A f \in EncodingPair : raw[f] = AsOnePair(dest, incoming, EncodingPair, f)
  BY DEF Merged
<1>2. \A f \in Fields : raw[f] \in Int
  BY <1>1 DEF Options, FirstField, Sticky, AsOnePair
<1>3. \A f \in Flags : raw[f] \in {0, 1}
  BY <1>1 DEF Sticky
<1>4. raw \in Options
  BY <1>2, <1>3 DEF Options, Merged
<1>5. merged = IF raw["vector_format"] = 0 /\ incoming["page_format"] = SVG
               THEN [raw EXCEPT !["vector_format"] = VectorSvg] ELSE raw
  BY DEF MergeStreamOptions, ImpliesVector
<1> HIDE DEF raw, merged
<1>6. merged \in Options
  BY <1>4, <1>5 DEF Options, VectorSvg
<1>7. \A f \in Fields \ {"vector_format"} : merged[f] = raw[f]
  BY <1>4, <1>5 DEF Options
<1>8. merged["vector_format"] = IF raw["vector_format"] = 0 /\ incoming["page_format"] = SVG
                                THEN VectorSvg ELSE raw["vector_format"]
  BY <1>4, <1>5 DEF Options
<1> QED
  BY <1>1, <1>6, <1>7, <1>8 DEF merged

\* An append to the history, by its entries.
LEMMA AppendedEntries ==
  ASSUME NEW S, NEW seq \in Seq(S), NEW e \in S
  PROVE  /\ Append(seq, e) \in Seq(S)
         /\ Len(Append(seq, e)) = Len(seq) + 1
         /\ Append(seq, e)[Len(seq) + 1] = e
         /\ \A i \in 1..Len(seq) : Append(seq, e)[i] = seq[i]
OBVIOUS

\* Every variable of the merge stays within its type (TypeOK), whatever the
\* requests carry: merge_stream_options never makes a flag anything else.
THEOREM TypeCorrect == Spec => []TypeOK
<1>1. Init => TypeOK
  BY DEF Init, TypeOK, Unset, Options
<1>2. TypeOK /\ [Next]_vars => TypeOK'
  <2> SUFFICES ASSUME TypeOK, [Next]_vars PROVE TypeOK'
    OBVIOUS
  <2>1. CASE UNCHANGED vars
    BY <2>1 DEF vars, TypeOK
  <2>2. CASE Read
    <3>1. PICK request \in Requests :
             requests' = Append(requests, request) /\ Capture(request)
      BY <2>2 DEF Read
    <3>2. request \in Options
      BY RequestsAssumption
    <3>3. requests' \in Seq(Requests)
      BY <3>1 DEF TypeOK
    <3>4. extras' \in Options
      BY <3>1, <3>2, MergedFields DEF Capture, TypeOK
    <3>5. parts' \in Int /\ dpi' \in Int
      BY <3>1, <3>2 DEF Capture, TypeOK, PartsToken, CaptureDpi, Options
    <3>6. range' \in [RangePair -> Int] /\ encoding' \in [EncodingPair -> Int]
      BY <3>1, <3>2 DEF Capture, TypeOK, AsOnePair, Options
    <3> QED
      BY <3>3, <3>4, <3>5, <3>6 DEF TypeOK
  <2> QED
    BY <2>1, <2>2 DEF Next
<1> QED
  BY <1>1, <1>2, PTL DEF Spec

\* What the server validates and puts on the worker's argv is what options.pb
\* says (CopiesAgree), however many requests carried options: the argv side
\* (capture_dpi, capture_range, capture_encoding) and merge_stream_options
\* resolve the same fields the same way.
THEOREM CopiesAlwaysAgree == Spec => []CopiesAgree
<1>1. Init => CopiesAgree
  BY DEF Init, CopiesAgree, Unset, WorkerPage, ArgvPage
<1>2. TypeOK /\ CopiesAgree /\ [Next]_vars => CopiesAgree'
  <2> SUFFICES ASSUME TypeOK, CopiesAgree, [Next]_vars PROVE CopiesAgree'
    OBVIOUS
  <2>1. CASE UNCHANGED vars
    BY <2>1 DEF vars, CopiesAgree, WorkerPage, ArgvPage
  <2>2. CASE Read
    <3>1. PICK request \in Requests : Capture(request)
      BY <2>2 DEF Read
    <3>2. request \in Options /\ extras \in Options
      BY RequestsAssumption DEF TypeOK
    <3>3. dpi' = extras'["render_dpi"]
      <4>1. extras'["render_dpi"] = FirstField(extras, request, "render_dpi")
        BY <3>1, <3>2, MergedFields DEF Capture
      <4>2. dpi' = CaptureDpi(request)
        BY <3>1 DEF Capture
      <4> QED
        BY <4>1, <4>2 DEF CaptureDpi, FirstField, CopiesAgree
    <3>4. \A f \in RangePair : range'[f] = extras'[f]
      <4>1. \A f \in RangePair : extras'[f] = AsOnePair(extras, request, RangePair, f)
        BY <3>1, <3>2, MergedFields DEF Capture
      <4>2. \A f \in RangePair : range'[f] = AsOnePair(range, request, RangePair, f)
        BY <3>1 DEF Capture
      <4> QED
        BY <4>1, <4>2 DEF AsOnePair, Neither, CopiesAgree
    <3>5. \A f \in EncodingPair : encoding'[f] = extras'[f]
      <4>1. \A f \in EncodingPair :
              extras'[f] = AsOnePair(extras, request, EncodingPair, f)
        BY <3>1, <3>2, MergedFields DEF Capture
      <4>2. \A f \in EncodingPair :
              encoding'[f] = AsOnePair(encoding, request, EncodingPair, f)
        BY <3>1 DEF Capture
      <4> QED
        BY <4>1, <4>2 DEF AsOnePair, Neither, CopiesAgree
    <3> QED
      BY <3>3, <3>4, <3>5 DEF CopiesAgree, WorkerPage, ArgvPage
  <2> QED
    BY <2>1, <2>2 DEF Next
<1> QED
  BY <1>1, <1>2, TypeCorrect, PTL DEF Spec

----------------------------------------------------------------------------
(* A merged request is absorbed *)

\* Whatever request asks for, merged has an answer already.
Settled(merged, request) ==
  /\ \A f \in Scalars \cup Lists : request[f] # 0 => merged[f] # 0
  /\ \A f \in Flags : request[f] = 1 => merged[f] = 1
  /\ Neither(merged, RangePair) => Neither(request, RangePair)
  /\ Neither(merged, EncodingPair) => Neither(request, EncodingPair)
  /\ request["page_format"] = SVG => merged["vector_format"] # 0

AllSettled == \A i \in 1..Len(requests) : Settled(extras, requests[i])

\* A settled request changes nothing when it is merged again.
LEMMA SettledIsAbsorbed ==
  ASSUME NEW dest \in Options, NEW request \in Options, Settled(dest, request)
  PROVE  MergeStreamOptions(dest, request) = dest
<1> DEFINE merged == MergeStreamOptions(dest, request)
<1>1. merged \in Options
  BY MergedFields
<1>2. \A f \in (Scalars \cup Lists) \ {"vector_format"} : merged[f] = dest[f]
  BY MergedFields DEF Settled, FirstField, Options
<1>3. \A f \in Flags : merged[f] = dest[f]
  BY MergedFields DEF Settled, Sticky, Options
<1>4. \A f \in RangePair : merged[f] = dest[f]
  BY MergedFields DEF Settled, AsOnePair, Neither, Options
<1>5. \A f \in EncodingPair : merged[f] = dest[f]
  BY MergedFields DEF Settled, AsOnePair, Neither, Options
<1>6. merged["vector_format"] = dest["vector_format"]
  BY MergedFields DEF Settled, FirstField, Options
<1> HIDE DEF merged
<1>7. \A f \in Fields : merged[f] = dest[f]
  BY <1>2, <1>3, <1>4, <1>5, <1>6
<1>8. merged = dest
  BY <1>1, <1>7 DEF Options
<1> QED
  BY <1>8 DEF merged

\* Merging a request settles it.
LEMMA MergingSettles ==
  ASSUME NEW dest \in Options, NEW request \in Options
  PROVE  Settled(MergeStreamOptions(dest, request), request)
<1> DEFINE merged == MergeStreamOptions(dest, request)
<1>1. \A f \in Scalars \cup Lists : request[f] # 0 => merged[f] # 0
  BY MergedFields DEF FirstField, VectorSvg
<1>2. \A f \in Flags : request[f] = 1 => merged[f] = 1
  BY MergedFields DEF Sticky
<1>3. Neither(merged, RangePair) => Neither(request, RangePair)
  BY MergedFields DEF AsOnePair, Neither
<1>4. Neither(merged, EncodingPair) => Neither(request, EncodingPair)
  BY MergedFields DEF AsOnePair, Neither
<1>5. request["page_format"] = SVG => merged["vector_format"] # 0
  BY MergedFields DEF VectorSvg
<1> QED
  BY <1>1, <1>2, <1>3, <1>4, <1>5 DEF Settled

\* What is settled stays settled, whatever is merged afterwards.
LEMMA SettledStays ==
  ASSUME NEW dest \in Options, NEW request \in Options, NEW later \in Options,
         Settled(dest, request)
  PROVE  Settled(MergeStreamOptions(dest, later), request)
<1> DEFINE merged == MergeStreamOptions(dest, later)
<1>1. \A f \in Scalars \cup Lists : dest[f] # 0 => merged[f] # 0
  BY MergedFields DEF FirstField
<1>2. \A f \in Flags : dest[f] = 1 => merged[f] = 1
  BY MergedFields DEF Sticky
<1>3. Neither(merged, RangePair) => Neither(dest, RangePair)
  BY MergedFields DEF AsOnePair, Neither
<1>4. Neither(merged, EncodingPair) => Neither(dest, EncodingPair)
  BY MergedFields DEF AsOnePair, Neither
<1> HIDE DEF merged
<1>5. Settled(merged, request)
  BY <1>1, <1>2, <1>3, <1>4 DEF Settled
<1> QED
  BY <1>5 DEF merged

\* A request already merged has nothing left to say (Absorbed): a client may
\* repeat its options on every chunk of an upload of any length.
THEOREM AlwaysAbsorbed == Spec => []Absorbed
<1>1. Init => AllSettled
  BY DEF Init, AllSettled
<1>2. TypeOK /\ AllSettled /\ [Next]_vars => AllSettled'
  <2> SUFFICES ASSUME TypeOK, AllSettled, [Next]_vars PROVE AllSettled'
    OBVIOUS
  <2>1. CASE UNCHANGED vars
    BY <2>1 DEF vars, AllSettled
  <2>2. CASE Read
    <3>1. PICK request \in Requests :
             requests' = Append(requests, request) /\ Capture(request)
      BY <2>2 DEF Read
    <3>2. request \in Options /\ extras \in Options
      BY RequestsAssumption DEF TypeOK
    <3>3. extras' = MergeStreamOptions(extras, request)
      BY <3>1 DEF Capture
    <3>4. requests \in Seq(Requests) /\ Len(requests) \in Nat
      BY DEF TypeOK
    <3>5. SUFFICES ASSUME NEW i \in 1..Len(requests') PROVE Settled(extras', requests'[i])
      BY DEF AllSettled
    <3>6. CASE i = Len(requests) + 1
      <4>1. requests'[i] = request
        BY <3>1, <3>4, <3>6, AppendedEntries
      <4> QED
        BY <4>1, <3>2, <3>3, MergingSettles
    <3>7. CASE i # Len(requests) + 1
      <4>1. i \in 1..Len(requests)
        BY <3>1, <3>4, <3>5, <3>7, AppendedEntries
      <4>2. requests'[i] = requests[i] /\ requests[i] \in Options
        BY <4>1, <3>1, <3>4, AppendedEntries, RequestsAssumption
      <4>3. Settled(extras, requests[i])
        BY <4>1 DEF AllSettled
      <4> QED
        BY <4>2, <4>3, <3>2, <3>3, SettledStays
    <3> QED
      BY <3>6, <3>7
  <2> QED
    BY <2>1, <2>2 DEF Next
<1>3. TypeOK /\ AllSettled => Absorbed
  <2> SUFFICES ASSUME TypeOK, AllSettled, NEW i \in 1..Len(requests)
               PROVE  MergeStreamOptions(extras, requests[i]) = extras
    BY DEF Absorbed
  <2>1. requests[i] \in Options /\ extras \in Options
    BY RequestsAssumption DEF TypeOK
  <2>2. Settled(extras, requests[i])
    BY DEF AllSettled
  <2> QED
    BY <2>1, <2>2, SettledIsAbsorbed
<1> QED
  BY <1>1, <1>2, <1>3, TypeCorrect, PTL DEF Spec
----------------------------------------------------------------------------
(* The first request wins *)

\* The values of fields are those of the first of seq to set any of them.
WonBy(seq, fields, values) ==
  \/ /\ \A i \in 1..Len(seq) : Neither(seq[i], fields)
     /\ \A f \in fields : values[f] = 0
  \/ \E i \in 1..Len(seq) :
       /\ ~Neither(seq[i], fields)
       /\ \A j \in 1..(i - 1) : Neither(seq[j], fields)
       /\ \A f \in fields : values[f] = seq[i][f]

\* The token is that of the first parts list of seq that holds a part.
PartsWon(seq, token) ==
  \/ /\ \A i \in 1..Len(seq) : PartsToken(seq[i]["parts"]) = 0
     /\ token = 0
  \/ \E i \in 1..Len(seq) :
       /\ PartsToken(seq[i]["parts"]) # 0
       /\ \A j \in 1..(i - 1) : PartsToken(seq[j]["parts"]) = 0
       /\ token = seq[i]["parts"]

AllWon ==
  /\ \A f \in (Scalars \cup Lists \cup Flags) \ {"vector_format"} :
       WonBy(requests, {f}, extras)
  /\ WonBy(requests, RangePair, extras)
  /\ WonBy(requests, EncodingPair, extras)
  /\ PartsWon(requests, parts)

\* Values that are kept once one is set stay those of the first.
LEMMA FirstStaysFirst ==
  ASSUME NEW seq \in Seq(Requests), NEW request \in Requests,
         NEW fields, NEW old, NEW new, WonBy(seq, fields, old),
         \A f \in fields :
           new[f] = IF Neither(old, fields) THEN request[f] ELSE old[f]
  PROVE  WonBy(Append(seq, request), fields, new)
<1> DEFINE longer == Append(seq, request)
           n == Len(seq)
<1>1. n \in Nat /\ Len(longer) = n + 1 /\ longer[n + 1] = request
      /\ \A i \in 1..n : longer[i] = seq[i]
  BY AppendedEntries
<1> HIDE DEF longer, n
<1>2. CASE /\ \A i \in 1..n : Neither(seq[i], fields)
           /\ \A f \in fields : old[f] = 0
  <2>1. \A f \in fields : new[f] = request[f]
    BY <1>2 DEF Neither
  <2>2. \A i \in 1..n : Neither(longer[i], fields)
    BY <1>1, <1>2
  <2>3. CASE Neither(request, fields)
    <3>1. \A i \in 1..(n + 1) : Neither(longer[i], fields)
      <4> TAKE i \in 1..(n + 1)
      <4>1. i \in 1..n \/ i = n + 1
        BY <1>1
      <4> QED
        BY <4>1, <1>1, <2>2, <2>3
    <3>2. \A f \in fields : new[f] = 0
      BY <2>1, <2>3 DEF Neither
    <3> QED
      BY <3>1, <3>2, <1>1 DEF WonBy, longer
  <2>4. CASE ~Neither(request, fields)
    <3>1. n + 1 \in 1..(n + 1) /\ (n + 1) - 1 = n
      BY <1>1
    <3>2. \E i \in 1..(n + 1) :
            /\ ~Neither(longer[i], fields)
            /\ \A j \in 1..(i - 1) : Neither(longer[j], fields)
            /\ \A f \in fields : new[f] = longer[i][f]
      BY <3>1, <2>1, <2>2, <2>4, <1>1
    <3> QED
      BY <3>2, <1>1 DEF WonBy, longer
  <2> QED
    BY <2>3, <2>4
<1>3. ASSUME NEW i \in 1..n, ~Neither(seq[i], fields),
             \A j \in 1..(i - 1) : Neither(seq[j], fields),
             \A f \in fields : old[f] = seq[i][f]
      PROVE  WonBy(longer, fields, new)
  <2>1. ~Neither(old, fields)
    BY <1>3 DEF Neither
  <2>2. i \in 1..(n + 1) /\ longer[i] = seq[i]
    BY <1>1
  <2>3. \A j \in 1..(i - 1) : j \in 1..n
    BY <1>1
  <2>4. \A j \in 1..(i - 1) : Neither(longer[j], fields)
    BY <2>3, <1>1, <1>3
  <2>5. \A f \in fields : new[f] = longer[i][f]
    BY <2>1, <2>2, <1>3
  <2> QED
    BY <2>2, <2>4, <2>5, <1>1, <1>3 DEF WonBy
<1> QED
  BY <1>2, <1>3 DEF WonBy, longer, n

\* The same of the parts token, which looks past a list without a part.
LEMMA FirstPartsStay ==
  ASSUME NEW seq \in Seq(Requests), NEW request \in Requests,
         NEW old, NEW new, PartsWon(seq, old),
         new = IF old = 0 THEN PartsToken(request["parts"]) ELSE old
  PROVE  PartsWon(Append(seq, request), new)
<1> DEFINE longer == Append(seq, request)
           n == Len(seq)
           Token(i) == PartsToken(longer[i]["parts"])
<1>1. n \in Nat /\ Len(longer) = n + 1 /\ longer[n + 1] = request
      /\ \A i \in 1..n : longer[i] = seq[i]
  BY AppendedEntries
<1> HIDE DEF longer, n
<1>2. CASE /\ \A i \in 1..n : PartsToken(seq[i]["parts"]) = 0
           /\ old = 0
  <2>1. new = Token(n + 1)
    BY <1>1, <1>2
  <2>2. \A i \in 1..n : Token(i) = 0
    BY <1>1, <1>2
  <2>3. CASE Token(n + 1) = 0
    <3>1. \A i \in 1..(n + 1) : Token(i) = 0
      <4> TAKE i \in 1..(n + 1)
      <4>1. i \in 1..n \/ i = n + 1
        BY <1>1
      <4> QED
        BY <4>1, <2>2, <2>3
    <3> QED
      BY <3>1, <2>1, <2>3, <1>1 DEF PartsWon, longer
  <2>4. CASE Token(n + 1) # 0
    <3>1. n + 1 \in 1..(n + 1) /\ (n + 1) - 1 = n
      BY <1>1
    <3>2. new = longer[n + 1]["parts"]
      BY <2>1, <2>4 DEF PartsToken
    <3>3. \E i \in 1..(n + 1) : /\ Token(i) # 0
                                /\ \A j \in 1..(i - 1) : Token(j) = 0
                                /\ new = longer[i]["parts"]
      BY <3>1, <3>2, <2>2, <2>4
    <3> QED
      BY <3>3, <1>1 DEF PartsWon, longer
  <2> QED
    BY <2>3, <2>4
<1>3. ASSUME NEW i \in 1..n, PartsToken(seq[i]["parts"]) # 0,
             \A j \in 1..(i - 1) : PartsToken(seq[j]["parts"]) = 0,
             old = seq[i]["parts"]
      PROVE  PartsWon(longer, new)
  <2>1. old # 0
    BY <1>3 DEF PartsToken
  <2>2. i \in 1..(n + 1) /\ longer[i] = seq[i]
    BY <1>1
  <2>3. \A j \in 1..(i - 1) : j \in 1..n
    BY <1>1
  <2>4. \A j \in 1..(i - 1) : Token(j) = 0
    BY <2>3, <1>1, <1>3
  <2>5. new = longer[i]["parts"]
    BY <2>1, <2>2, <1>3
  <2> QED
    BY <2>2, <2>4, <2>5, <1>1, <1>3 DEF PartsWon
<1> QED
  BY <1>2, <1>3 DEF PartsWon, longer, n

\* The search finds the request that won.
LEMMA WinnerFound ==
  ASSUME TypeOK, NEW fields, fields \subseteq Fields, WonBy(requests, fields, extras)
  PROVE  \A f \in fields : extras[f] = Winner(fields)[f]
<1> DEFINE first == SelectInSeq(requests, LAMBDA r : \E f \in fields : r[f] # 0)
           Setting == {i \in 1..Len(requests) : \E f \in fields : requests[i][f] # 0}
<1>1. first = IF Setting # {} THEN CHOOSE i \in Setting : \A j \in Setting : i <= j
              ELSE 0
  BY Zenon DEF SelectInSeq, Min
<1>2. Winner(fields) = IF first = 0 THEN Unset ELSE requests[first]
  BY DEF Winner
<1> HIDE DEF first
<1>3. Len(requests) \in Nat
  BY DEF TypeOK
<1>4. CASE /\ \A i \in 1..Len(requests) : Neither(requests[i], fields)
           /\ \A f \in fields : extras[f] = 0
  <2>1. first = 0
    BY <1>1, <1>4 DEF Neither
  <2> QED
    BY <2>1, <1>2, <1>4 DEF Unset
<1>5. ASSUME NEW i \in 1..Len(requests), ~Neither(requests[i], fields),
             \A j \in 1..(i - 1) : Neither(requests[j], fields),
             \A f \in fields : extras[f] = requests[i][f]
      PROVE  \A f \in fields : extras[f] = Winner(fields)[f]
  <2>1. i \in Setting /\ Setting \subseteq 1..Len(requests)
    BY <1>5 DEF Neither
  <2>2. \A j \in Setting : i <= j
    <3> TAKE j \in Setting
    <3>1. j \in Int /\ i \in Int /\ 1 <= j
      BY <1>3
    <3>2. ~(j \in 1..(i - 1))
      BY <1>5 DEF Neither
    <3> QED
      BY <3>1, <3>2
  <2> HIDE DEF Setting
  <2>3. \A k \in Setting : (\A j \in Setting : k <= j) => k = i
    BY <2>1, <2>2, <1>3
  <2>4. first = i
    BY <2>1, <2>2, <2>3, <1>1
  <2>5. first # 0
    BY <2>4, <1>3
  <2> QED
    BY <2>4, <2>5, <1>2, <1>5
<1> QED
  BY <1>4, <1>5 DEF WonBy

\* The search finds the parts list that won.
LEMMA PartsFound ==
  ASSUME TypeOK, PartsWon(requests, parts)
  PROVE  LET first == SelectInSeq(requests, LAMBDA r : PartsToken(r["parts"]) # 0)
         IN  parts = (IF first = 0 THEN 0 ELSE requests[first]["parts"])
<1> DEFINE first == SelectInSeq(requests, LAMBDA r : PartsToken(r["parts"]) # 0)
           Listing == {i \in 1..Len(requests) : PartsToken(requests[i]["parts"]) # 0}
<1>1. first = IF Listing # {} THEN CHOOSE i \in Listing : \A j \in Listing : i <= j
              ELSE 0
  BY Zenon DEF SelectInSeq, Min
<1> HIDE DEF first
<1>2. Len(requests) \in Nat
  BY DEF TypeOK
<1>3. CASE /\ \A i \in 1..Len(requests) : PartsToken(requests[i]["parts"]) = 0
           /\ parts = 0
  <2>1. first = 0
    BY <1>1, <1>3
  <2> QED
    BY <2>1, <1>3 DEF first
<1>4. ASSUME NEW i \in 1..Len(requests), PartsToken(requests[i]["parts"]) # 0,
             \A j \in 1..(i - 1) : PartsToken(requests[j]["parts"]) = 0,
             parts = requests[i]["parts"]
      PROVE  parts = (IF first = 0 THEN 0 ELSE requests[first]["parts"])
  <2>1. i \in Listing /\ Listing \subseteq 1..Len(requests)
    BY <1>4
  <2>2. \A j \in Listing : i <= j
    <3> TAKE j \in Listing
    <3>1. j \in Int /\ i \in Int /\ 1 <= j
      BY <1>2
    <3>2. ~(j \in 1..(i - 1))
      BY <1>4
    <3> QED
      BY <3>1, <3>2
  <2> HIDE DEF Listing
  <2>3. \A k \in Listing : (\A j \in Listing : k <= j) => k = i
    BY <2>1, <2>2, <1>2
  <2>4. first = i
    BY <2>1, <2>2, <2>3, <1>1
  <2>5. first # 0
    BY <2>4, <1>2
  <2> QED
    BY <2>4, <2>5, <1>4
<1> QED
  BY <1>3, <1>4 DEF PartsWon, first

\* Every field resolves the way the comments of StreamOptions say, the first
\* request to set it winning (FirstRequestWins), in uploads of any length.
THEOREM TheFirstAlwaysWins == Spec => []FirstRequestWins
<1>1. Init => AllWon
  BY DEF Init, AllWon, WonBy, PartsWon, Unset
<1>2. TypeOK /\ AllWon /\ [Next]_vars => AllWon'
  <2> SUFFICES ASSUME TypeOK, AllWon, [Next]_vars PROVE AllWon'
    OBVIOUS
  <2>1. CASE UNCHANGED vars
    BY <2>1 DEF vars, AllWon
  <2>2. CASE Read
    <3>1. PICK request \in Requests :
             requests' = Append(requests, request) /\ Capture(request)
      BY <2>2 DEF Read
    <3>2. request \in Options /\ extras \in Options /\ requests \in Seq(Requests)
      BY RequestsAssumption DEF TypeOK
    <3>3. extras' = MergeStreamOptions(extras, request)
      BY <3>1 DEF Capture
    <3>4. ASSUME NEW f \in (Scalars \cup Lists \cup Flags) \ {"vector_format"}
          PROVE  WonBy(requests, {f}, extras)'
      <4>1. CASE f \in Flags
        <5>1. extras'[f] = Sticky(extras, request, f)
          BY <4>1, <3>2, <3>3, MergedFields
        <5>2. extras'[f] = IF Neither(extras, {f}) THEN request[f] ELSE extras[f]
          BY <5>1, <4>1, <3>2 DEF Sticky, Neither, Options
        <5>3. WonBy(requests, {f}, extras)
          BY DEF AllWon
        <5> QED
          BY <5>2, <5>3, <3>1, <3>2, FirstStaysFirst
      <4>2. CASE f \notin Flags
        <5>1. extras'[f] = FirstField(extras, request, f)
          BY <4>2, <3>2, <3>3, MergedFields
        <5>2. extras'[f] = IF Neither(extras, {f}) THEN request[f] ELSE extras[f]
          BY <5>1 DEF FirstField, Neither
        <5>3. WonBy(requests, {f}, extras)
          BY DEF AllWon
        <5> QED
          BY <5>2, <5>3, <3>1, <3>2, FirstStaysFirst
      <4> QED
        BY <4>1, <4>2
    <3>5. WonBy(requests, RangePair, extras)'
      <4>1. \A f \in RangePair : extras'[f] = AsOnePair(extras, request, RangePair, f)
        BY <3>2, <3>3, MergedFields
      <4>2. WonBy(requests, RangePair, extras)
        BY DEF AllWon
      <4> HIDE DEF RangePair
      <4> QED
        BY <4>1, <4>2, <3>1, <3>2, FirstStaysFirst DEF AsOnePair
    <3>6. WonBy(requests, EncodingPair, extras)'
      <4>1. \A f \in EncodingPair :
              extras'[f] = AsOnePair(extras, request, EncodingPair, f)
        BY <3>2, <3>3, MergedFields
      <4>2. WonBy(requests, EncodingPair, extras)
        BY DEF AllWon
      <4> HIDE DEF EncodingPair
      <4> QED
        BY <4>1, <4>2, <3>1, <3>2, FirstStaysFirst DEF AsOnePair
    <3>7. PartsWon(requests, parts)'
      <4>1. parts' = IF parts = 0 THEN PartsToken(request["parts"]) ELSE parts
        BY <3>1 DEF Capture
      <4>2. PartsWon(requests, parts)
        BY DEF AllWon
      <4> QED
        BY <4>1, <4>2, <3>1, <3>2, FirstPartsStay
    <3> QED
      BY <3>4, <3>5, <3>6, <3>7 DEF AllWon
  <2> QED
    BY <2>1, <2>2 DEF Next
<1>3. TypeOK /\ AllWon => FirstRequestWins
  <2> SUFFICES ASSUME TypeOK, AllWon PROVE FirstRequestWins
    OBVIOUS
  <2>1. ASSUME NEW f \in (Scalars \cup Lists \cup Flags) \ {"vector_format"}
        PROVE  extras[f] = Winner({f})[f]
    <3>1. WonBy(requests, {f}, extras)
      BY DEF AllWon
    <3> QED
      BY <3>1, WinnerFound
  <2>2. \A f \in RangePair : extras[f] = Winner(RangePair)[f]
    BY WinnerFound DEF AllWon
  <2>3. \A f \in EncodingPair : extras[f] = Winner(EncodingPair)[f]
    BY WinnerFound DEF AllWon
  <2>4. LET first == SelectInSeq(requests, LAMBDA r : PartsToken(r["parts"]) # 0)
        IN  parts = (IF first = 0 THEN 0 ELSE requests[first]["parts"])
    BY PartsFound DEF AllWon
  <2>5. \A pair \in {RangePair, EncodingPair} : \A f \in pair :
          extras[f] = Winner(pair)[f]
    BY <2>2, <2>3
  <2> QED
    BY <2>1, <2>4, <2>5, Zenon DEF FirstRequestWins
<1> QED
  BY <1>1, <1>2, <1>3, TypeCorrect, PTL DEF Spec
=============================================================================
