------------------------- MODULE PagePipelineProofs -------------------------
(***************************************************************************)
(* PagePipeline for any document, page range and queue: the pages that are *)
(* emitted, their order, and what a return of true says about them.        *)
(***************************************************************************)
EXTENDS PagePipeline, TLAPS

Closing == {"close", "closed", "join", "returned"}

\* Where the two threads are, and what they may still hold there.
Stages ==
  /\ raw # 0 <=> encoder \in {"notify", "encode"}
  /\ vector => raw = 0 /\ queue = <<>> /\ painter \notin {"offer", "asleep", "notify"}
  /\ encoder \in {"notify", "encode"} => encoderOk
  /\ ~encoderOk /\ ~vector => encoder = "ended"
  /\ painter \in Closing /\ encoderOk => index > Pages
  /\ painter \in {"offer", "asleep", "notify"} => InRange(index) /\ index <= Pages
  /\ paintDone => painter \in Closing \ {"close"}
  /\ encoder = "ended" /\ encoderOk => queue = <<>> /\ paintDone
  /\ result # "none" => painter = "returned" /\ encoder = "ended"
  /\ result = "true" => encoderOk

Types == /\ Len(queue) <= MaxQueued
         /\ TypeOK

\* Every step keeps the types, and the queue within its bound.
LEMMA TypesStep == ASSUME Types, Stages, [Next]_vars PROVE Types'
<1> USE PipelineAssumption DEF Types, TypeOK, painterVars, encoderVars
<1>1. CASE UNCHANGED vars
  BY <1>1 DEF vars
<1>2. CASE PaintEnds \/ Skip \/ Paint
  BY <1>2 DEF PaintEnds, PastLastPage, Skip, Paint
<1>3. CASE EmitVector
  <2>1. index \in 1..Pages
    BY <1>3 DEF EmitVector, PastLastPage
  <2>2. Append(emitted, index) \in Seq(1..Pages)
    BY <2>1
  <2>3. UNCHANGED <<vector, paintDone, result, encoder, raw, queue>>
    BY <1>3 DEF EmitVector
  <2>4. painter' \in {"paint", "close"}
    BY <1>3 DEF EmitVector
  <2>7. index' \in 1..(Pages + 1)
    <3>1. index' = index + 1 \/ index' = index
      BY <1>3, Zenon DEF EmitVector
    <3> QED
      BY <2>1, <3>1
  <2>5. emitted' \in Seq(1..Pages)
    BY <1>3, <2>2 DEF EmitVector
  <2>6. encoderOk' \in BOOLEAN
    BY <1>3, Zenon DEF EmitVector
  <2> QED
    BY <2>3, <2>4, <2>5, <2>6, <2>7
<1>4. CASE Offer
  <2>1. index \in 1..Pages
    BY <1>4 DEF Offer, Stages
  <2>2. /\ Append(queue, index) \in Seq(1..Pages)
        /\ Len(Append(queue, index)) = Len(queue) + 1
    BY <2>1
  <2>5. painter' \in {"close", "notify", "asleep"}
    BY <1>4 DEF Offer
  <2>6. UNCHANGED <<vector, index, paintDone, result, encoder, raw, encoderOk, emitted>>
    BY <1>4 DEF Offer
  <2>3. CASE UNCHANGED queue
    BY <1>4, <2>3 DEF Offer
  <2>4. CASE Room /\ queue' = Append(queue, index)
    <3>1. queue' \in Seq(1..Pages) /\ Len(queue') <= MaxQueued
      BY <2>2, <2>4 DEF Room
    <3> QED
      BY <2>5, <2>6, <3>1
  <2> QED
    BY <1>4, <2>3, <2>4 DEF Offer
<1>5. CASE PushNotifies
  BY <1>5 DEF PushNotifies, Woken, Stages
<1>6. CASE Close \/ CloseNotifies \/ Join
  BY <1>6 DEF Close, CloseNotifies, Woken, Join
<1>7. CASE Take
  <2>1. CASE queue # <<>> /\ raw' = Oldest /\ queue' = Tail(queue) /\ encoder' = "notify"
    <3>1. /\ Head(queue) \in 1..Pages
          /\ Tail(queue) \in Seq(1..Pages)
          /\ Len(Tail(queue)) = Len(queue) - 1
      BY <2>1
    <3> QED
      BY <1>7, <2>1, <3>1 DEF Take, Oldest
  <2>2. CASE UNCHANGED <<raw, queue>> /\ encoder' \in {"ended", "asleep"}
    BY <1>7, <2>2 DEF Take
  <2> QED
    BY <1>7, <2>1, <2>2 DEF Take
<1>8. CASE PopNotifies
  BY <1>8 DEF PopNotifies, Woken
<1>9. CASE Encode
  <2>1. raw \in 1..Pages
    BY <1>9 DEF Encode, Stages
  <2>2. Append(emitted, raw) \in Seq(1..Pages)
    BY <2>1
  <2>3. UNCHANGED <<vector, painter, index, paintDone, result, queue>>
    BY <1>9 DEF Encode
  <2>4. emitted' \in Seq(1..Pages) /\ encoder' \in {"wait", "ended"} /\ raw' = 0
    BY <1>9, <2>2 DEF Encode
  <2>5. encoderOk' \in BOOLEAN
    BY <1>9, Zenon DEF Encode
  <2> QED
    BY <2>3, <2>4, <2>5
<1>10. CASE SpuriousWakeUp
  BY <1>10 DEF SpuriousWakeUp
<1> QED
  BY <1>1, <1>2, <1>3, <1>4, <1>5, <1>6, <1>7, <1>8, <1>9, <1>10
     DEF Next, Painter, Encoder, Returned

\* Every step keeps what the two threads hold in line with where they are.
LEMMA StagesStep == ASSUME Types, Stages, [Next]_vars PROVE Stages'
<1> USE PipelineAssumption DEF Types, TypeOK, Stages, Closing, painterVars, encoderVars,
        InRange
<1>1. CASE UNCHANGED vars
  BY <1>1 DEF vars
<1>2. CASE PaintEnds \/ Skip \/ Paint
  BY <1>2 DEF PaintEnds, PastLastPage, Skip, Paint
<1>3. CASE EmitVector
  BY <1>3 DEF EmitVector, PastLastPage
<1>4. CASE Offer
  BY <1>4 DEF Offer, Room
<1>5. CASE PushNotifies
  BY <1>5 DEF PushNotifies, Woken
<1>6. CASE Close \/ CloseNotifies \/ Join
  BY <1>6 DEF Close, CloseNotifies, Woken, Join, Succeeded
<1>7. CASE Take
  BY <1>7 DEF Take, Oldest
<1>8. CASE PopNotifies
  BY <1>8 DEF PopNotifies, Woken
<1>9. CASE Encode
  BY <1>9 DEF Encode
<1>10. CASE SpuriousWakeUp
  BY <1>10 DEF SpuriousWakeUp
<1> QED
  BY <1>1, <1>2, <1>3, <1>4, <1>5, <1>6, <1>7, <1>8, <1>9, <1>10
     DEF Next, Painter, Encoder, Returned

\* Both hold in every reachable state.
LEMMA StagesHold == Spec => [](Types /\ Stages)
<1>1. Init => Types
  <2> SUFFICES ASSUME Init PROVE Types
    OBVIOUS
  <2>1. queue \in Seq(1..Pages) /\ Len(queue) = 0 /\ emitted \in Seq(1..Pages)
    BY DEF Init
  <2>2. index \in 1..(Pages + 1) /\ raw \in 0..Pages
    BY PipelineAssumption DEF Init
  <2>3. vector \in BOOLEAN /\ paintDone \in BOOLEAN /\ encoderOk \in BOOLEAN
    BY DEF Init
  <2>4. painter = "paint" /\ encoder = "wait" /\ result = "none"
    BY DEF Init
  <2> QED
    BY <2>1, <2>2, <2>3, <2>4, PipelineAssumption DEF Types, TypeOK
<1>2. Init => Stages
  BY DEF Init, Stages, Closing
<1> QED
  BY <1>1, <1>2, TypesStep, StagesStep, PTL DEF Spec

\* Every variable stays within its type.
THEOREM TypeCorrect == Spec => []TypeOK
BY StagesHold, PTL DEF Types

\* Raw pixel buffers never pile up.
THEOREM BuffersAreBounded == Spec => []BuffersBounded
<1>1. Types => BuffersBounded
  <2> SUFFICES ASSUME Len(queue) \in Nat, Len(queue) <= MaxQueued PROVE BuffersBounded
    BY DEF Types, TypeOK
  <2> DEFINE painting == IF painter \in {"offer", "asleep"} THEN 1 ELSE 0
             encoding == IF raw # 0 THEN 1 ELSE 0
  <2>1. painting \in 0..1 /\ encoding \in 0..1
    OBVIOUS
  <2>2. BuffersBounded <=> Len(queue) + painting + encoding <= MaxQueued + 2
    BY DEF BuffersBounded
  <2> HIDE DEF painting, encoding
  <2> QED
    BY <2>1, <2>2, PipelineAssumption
<1> QED
  BY <1>1, StagesHold, PTL

----------------------------------------------------------------------------
(* The pages that are emitted *)

\* The pages of the range below k.
Before(k) == IF k <= From \/ From > To THEN 0
             ELSE IF k > To THEN To - From + 1
             ELSE k - From

\* The pages the encoder holds, and with the queue those not yet emitted.
Encoding == IF raw = 0 THEN 0 ELSE 1
Waiting == Encoding + Len(queue)

\* The pages of s are first, first + 1, and so on.
Consecutive(s, first) == \A i \in 1..Len(s) : s[i] = first + i - 1

\* Emitted, being encoded, queued: the painted pages, in order. What has
\* been painted is what the painter has passed.
InOrder ==
  /\ Consecutive(emitted, From)
  /\ Len(emitted) <= Before(Pages + 1)
  /\ encoderOk =>
       /\ raw # 0 => raw = From + Len(emitted)
       /\ Consecutive(queue, From + Len(emitted) + Encoding)
       /\ Len(emitted) + Waiting
            = Before(IF painter = "notify" THEN index + 1 ELSE index)
  /\ result = "true" => Len(emitted) = Before(Pages + 1)

\* The range, and how many of its pages lie below the painter.
LEMMA RangeTyped == From \in Nat \ {0} /\ To \in Int
BY PipelineAssumption DEF From, To

\* One more page of the range lies below the painter for each it passes.
LEMMA BeforeSteps ==
  /\ \A k \in 1..(Pages + 1) : Before(k) \in Nat /\ Before(k) <= Before(Pages + 1)
  /\ \A k \in 1..Pages : /\ InRange(k) => Before(k + 1) = Before(k) + 1
                         /\ InRange(k) => k = From + Before(k)
                         /\ ~InRange(k) => Before(k + 1) = Before(k)
  /\ Before(1) = 0
BY PipelineAssumption DEF Before, From, To, InRange

\* The next page keeps a run of pages consecutive, and so does taking one.
LEMMA ConsecutiveAppend ==
  ASSUME NEW s \in Seq(Int), NEW first \in Int, Consecutive(s, first)
  PROVE  Consecutive(Append(s, first + Len(s)), first)
<1> DEFINE t == Append(s, first + Len(s))
<1>1. /\ Len(s) \in Nat /\ Len(t) = Len(s) + 1
      /\ \A i \in 1..Len(s) : t[i] = s[i]
      /\ t[Len(s) + 1] = first + Len(s)
  OBVIOUS
<1> HIDE DEF t
<1>2. SUFFICES ASSUME NEW i \in 1..Len(t) PROVE t[i] = first + i - 1
  BY DEF Consecutive, t
<1>3. CASE i \in 1..Len(s)
  BY <1>1, <1>3 DEF Consecutive
<1>4. CASE i = Len(s) + 1
  BY <1>1, <1>4
<1> QED
  BY <1>1, <1>3, <1>4

\* Taking the first page leaves a run that starts at the next.
LEMMA ConsecutiveTail ==
  ASSUME NEW s \in Seq(Int), s # <<>>, NEW first \in Int, Consecutive(s, first)
  PROVE  s[1] = first /\ Consecutive(Tail(s), first + 1)
<1>1. /\ Len(s) \in Nat \ {0} /\ Len(Tail(s)) = Len(s) - 1
      /\ \A i \in 1..Len(Tail(s)) : Tail(s)[i] = s[i + 1]
  OBVIOUS
<1>2. s[1] = first
  BY <1>1 DEF Consecutive
<1>3. ASSUME NEW i \in 1..Len(Tail(s)) PROVE Tail(s)[i] = first + 1 + i - 1
  <2>1. i + 1 \in 1..Len(s) /\ Tail(s)[i] = s[i + 1]
    BY <1>1
  <2>2. s[i + 1] = first + (i + 1) - 1
    BY <2>1 DEF Consecutive
  <2> QED
    BY <2>1, <2>2
<1> QED
  BY <1>2, <1>3 DEF Consecutive

\* The pages stay in order and none is left out, whichever thread moves.
LEMMA InOrderStep == ASSUME Types, Stages, InOrder, [Next]_vars PROVE InOrder'
<1> DEFINE At == IF painter = "notify" THEN index + 1 ELSE index
<1>1. /\ index \in 1..(Pages + 1)
      /\ emitted \in Seq(Int) /\ Len(emitted) \in Nat
      /\ queue \in Seq(Int) /\ Len(queue) \in Nat
      /\ raw \in 0..Pages /\ Encoding \in 0..1
      /\ From \in Nat \ {0} /\ Pages \in Nat \ {0}
  BY RangeTyped, PipelineAssumption DEF Types, TypeOK, Encoding
<1>2. From' = From /\ \A k : Before(k)' = Before(k)
  BY DEF From, To, Before
<1>3. /\ Consecutive(emitted, From)
      /\ Len(emitted) <= Before(Pages + 1)
      /\ encoderOk =>
           /\ raw # 0 => raw = From + Len(emitted)
           /\ Consecutive(queue, From + Len(emitted) + Encoding)
           /\ Len(emitted) + Waiting = Before(At)
      /\ result = "true" => Len(emitted) = Before(Pages + 1)
  BY DEF InOrder
<1>4. CASE /\ UNCHANGED <<raw, queue, emitted, index, result, encoderOk>>
           /\ painter = "notify" <=> painter' = "notify"
  BY <1>2, <1>3, <1>4 DEF InOrder, Waiting, Encoding, Consecutive
<1>5. CASE Skip
  <2>1. /\ UNCHANGED <<raw, queue, emitted, result, encoderOk, painter>>
        /\ painter = "paint" /\ index' = index + 1 /\ ~InRange(index)
    BY <1>5 DEF Skip, encoderVars
  <2>2. index \in 1..Pages
    BY <1>1, <1>5 DEF Skip, PastLastPage
  <2>3. Before(index + 1) = Before(index)
    BY <2>1, <2>2, BeforeSteps
  <2> QED
    BY <1>2, <1>3, <2>1, <2>3 DEF InOrder, Waiting, Encoding, Consecutive
<1>6. CASE EmitVector
  <2>1. /\ UNCHANGED <<raw, queue, result>> /\ painter = "paint" /\ InRange(index)
        /\ raw = 0 /\ queue = <<>> /\ result # "true" /\ encoderOk
    BY <1>6 DEF EmitVector, encoderVars, Stages
  <2>2. index \in 1..Pages
    BY <1>1, <1>6 DEF EmitVector, PastLastPage
  <2>3. CASE encoderOk' = FALSE /\ UNCHANGED emitted
    BY <1>2, <1>3, <2>1, <2>3 DEF InOrder, Consecutive
  <2>4. CASE /\ emitted' = Append(emitted, index) /\ index' = index + 1
             /\ UNCHANGED <<painter, encoderOk>>
    <3>1. Waiting = 0 /\ Waiting' = 0 /\ Encoding' = Encoding
      BY <2>1 DEF Waiting, Encoding
    <3>2. Len(emitted) = Before(index)
      BY <1>1, <1>3, <2>1, <3>1
    <3>3. Before(index + 1) = Before(index) + 1 /\ index = From + Len(emitted)
      BY <2>1, <2>2, <3>2, BeforeSteps
    <3>4. Before(index + 1) <= Before(Pages + 1)
      BY <1>1, <2>2, BeforeSteps
    <3>5. Consecutive(emitted', From) /\ Len(emitted') = Len(emitted) + 1
      BY <1>1, <1>3, <2>4, <3>3, ConsecutiveAppend
    <3>6. Consecutive(queue', From' + Len(emitted') + Encoding')
      BY <2>1 DEF Consecutive
    <3> QED
      BY <1>2, <2>1, <2>4, <3>1, <3>2, <3>3, <3>4, <3>5, <3>6 DEF InOrder, Consecutive
  <2> QED
    BY <1>6, <2>3, <2>4 DEF EmitVector
<1>7. CASE Offer /\ queue' = Append(queue, index) /\ encoderOk
  <2>1. /\ UNCHANGED <<raw, emitted, index, result, encoderOk>>
        /\ painter = "offer" /\ InRange(index) /\ index \in 1..Pages
    BY <1>1, <1>7 DEF Offer, encoderVars, Stages
  <2>2. queue' # queue
    BY <1>1, <1>7, <2>1
  <2>3. painter' = "notify"
    BY <1>7, <2>2 DEF Offer
  <2>4. Before(index + 1) = Before(index) + 1 /\ index = From + Before(index)
    BY <2>1, BeforeSteps
  <2>5. Len(emitted) + Encoding + Len(queue) = Before(index)
    BY <1>1, <1>3, <1>7, <2>1 DEF Waiting
  <2>6. index = (From + Len(emitted) + Encoding) + Len(queue)
    BY <1>1, <2>4, <2>5
  <2>7. /\ Consecutive(queue', From + Len(emitted) + Encoding)
        /\ Len(queue') = Len(queue) + 1
    BY <1>1, <1>3, <1>7, <2>6, ConsecutiveAppend
  <2>8. Encoding' = Encoding /\ Waiting' = Encoding + Len(queue')
    BY <2>1 DEF Waiting, Encoding
  <2>9. Len(emitted) + Waiting' = Before(index + 1)
    BY <1>1, <2>4, <2>5, <2>7, <2>8
  <2> QED
    BY <1>2, <1>3, <2>1, <2>3, <2>7, <2>8, <2>9 DEF InOrder, Consecutive
<1>8. CASE PushNotifies
  <2>1. /\ UNCHANGED <<raw, queue, emitted, result, encoderOk>>
        /\ painter = "notify" /\ painter' = "paint" /\ index' = index + 1
    BY <1>8 DEF PushNotifies
  <2> QED
    BY <1>2, <1>3, <2>1 DEF InOrder, Waiting, Encoding, Consecutive
<1>9. CASE Join
  <2>1. /\ UNCHANGED <<raw, queue, emitted, index, encoderOk>>
        /\ painter = "join" /\ painter' = "returned" /\ encoder = "ended"
        /\ result' = "true" => encoderOk
    BY <1>9 DEF Join, Succeeded, encoderVars
  <2>2. encoderOk => index = Pages + 1 /\ queue = <<>> /\ raw = 0
    BY <1>1, <2>1 DEF Stages, Closing
  <2>3. encoderOk => Len(emitted) = Before(Pages + 1)
    BY <1>1, <1>3, <2>1, <2>2 DEF Waiting, Encoding
  <2> QED
    BY <1>2, <1>3, <2>1, <2>3 DEF InOrder, Waiting, Encoding, Consecutive
<1>10. CASE Take /\ queue # <<>>
  <2>1. /\ UNCHANGED <<painter, index, result, encoderOk, emitted>>
        /\ raw = 0 /\ raw' = Head(queue) /\ queue' = Tail(queue)
    BY <1>10 DEF Take, Oldest, painterVars, Stages
  <2>2. Encoding = 0 /\ Len(queue') = Len(queue) - 1
    BY <1>1, <1>10, <2>1 DEF Encoding
  <2>3. CASE encoderOk
    <3>1. /\ queue[1] = From + Len(emitted)
          /\ Consecutive(queue', From + Len(emitted) + 1)
      BY <1>1, <1>3, <1>10, <2>1, <2>2, <2>3, ConsecutiveTail
    <3>2. raw' = From + Len(emitted) /\ raw' # 0
      BY <1>1, <1>10, <2>1, <3>1
    <3>3. Encoding' = 1
      BY <3>2 DEF Encoding
    <3>4. Waiting' = Waiting
      BY <1>1, <2>2, <3>3 DEF Waiting
    <3> QED
      BY <1>2, <1>3, <2>1, <3>1, <3>2, <3>3, <3>4 DEF InOrder, Consecutive
  <2>4. CASE ~encoderOk
    BY <1>2, <1>3, <2>1, <2>4 DEF InOrder, Consecutive
  <2> QED
    BY <2>3, <2>4
<1>11. CASE Encode
  <2>1. /\ UNCHANGED <<painter, index, result, queue>>
        /\ raw' = 0 /\ raw # 0 /\ encoderOk /\ result # "true"
    BY <1>11 DEF Encode, painterVars, Stages
  <2>2. Encoding = 1 /\ Encoding' = 0 /\ raw = From + Len(emitted)
    BY <1>3, <2>1 DEF Encoding
  <2>3. CASE encoderOk' = FALSE /\ UNCHANGED emitted
    BY <1>2, <1>3, <2>1, <2>3 DEF InOrder, Consecutive
  <2>4. CASE emitted' = Append(emitted, raw) /\ UNCHANGED encoderOk
    <3>1. Consecutive(emitted', From) /\ Len(emitted') = Len(emitted) + 1
      BY <1>1, <1>3, <2>2, <2>4, ConsecutiveAppend
    <3>2. From + Len(emitted') + Encoding' = From + Len(emitted) + Encoding
      BY <1>1, <2>2, <3>1
    <3>3. Len(emitted') + Waiting' = Len(emitted) + Waiting
      BY <1>1, <2>1, <2>2, <3>1 DEF Waiting
    <3>4. At \in 1..(Pages + 1)
      BY <1>1 DEF Stages
    <3>5. Len(emitted) + 1 + Len(queue) <= Before(Pages + 1) /\ Before(Pages + 1) \in Nat
      BY <1>1, <1>3, <2>1, <2>2, <3>4, BeforeSteps DEF Waiting
    <3>6. Len(emitted') <= Before(Pages + 1)
      BY <1>1, <3>1, <3>5
    <3>7. At' = At
      BY <2>1
    <3> QED
      BY <1>2, <1>3, <2>1, <2>4, <3>1, <3>2, <3>3, <3>6, <3>7 DEF InOrder, Consecutive
  <2> QED
    BY <1>11, <2>3, <2>4 DEF Encode
<1>12. CASE PaintEnds \/ Paint \/ Close \/ CloseNotifies \/ SpuriousWakeUp
  BY <1>4, <1>12 DEF PaintEnds, Paint, Close, CloseNotifies, SpuriousWakeUp, encoderVars,
     painterVars
<1>13. CASE Offer /\ UNCHANGED queue
  <2>1. queue # Append(queue, index)
    BY <1>1
  <2>2. painter = "offer" /\ painter' \in {"close", "asleep"}
    BY <1>13, <2>1 DEF Offer
  <2> QED
    BY <1>4, <1>13, <2>2 DEF Offer, encoderVars
<1>14. CASE PopNotifies \/ (Take /\ queue = <<>>) \/ UNCHANGED vars
  BY <1>4, <1>14 DEF PopNotifies, Woken, Take, vars, encoderVars, painterVars
<1>15. CASE Offer
  BY <1>7, <1>13, <1>15 DEF Offer
<1> QED
  BY <1>5, <1>6, <1>8, <1>9, <1>10, <1>11, <1>12, <1>14, <1>15
     DEF Next, Painter, Encoder, Returned

\* So they are in every reachable state.
LEMMA InOrderHolds == Spec => []InOrder
<1>1. Init => InOrder
  BY BeforeSteps, PipelineAssumption DEF Init, InOrder, Waiting, Encoding, Consecutive
<1> QED
  BY <1>1, InOrderStep, StagesHold, PTL DEF Spec

\* Pages come out in order, from the first of the range and without a gap.
THEOREM PagesComeInOrder == Spec => []PagesInOrder
<1>1. Types /\ InOrder => PagesInOrder
  <2> SUFFICES ASSUME Types, InOrder, NEW i \in 1..Len(emitted)
               PROVE  emitted[i] = From + i - 1 /\ emitted[i] <= To
    BY DEF PagesInOrder
  <2>1. Len(emitted) \in Nat /\ Len(emitted) <= Before(Pages + 1)
    BY DEF Types, TypeOK, InOrder
  <2>2. Before(Pages + 1) >= 1 => Before(Pages + 1) <= To - From + 1
    BY RangeTyped, PipelineAssumption DEF Before, From, To
  <2> QED
    BY <2>1, <2>2, RangeTyped, BeforeSteps, PipelineAssumption DEF InOrder, Consecutive
<1> QED
  BY <1>1, InOrderHolds, StagesHold, PTL

\* A return of true means that every page of the range was emitted.
THEOREM TrueIsAll == Spec => []TrueMeansAll
<1>1. Before(Pages + 1) = IF From > To THEN 0 ELSE To - From + 1
  BY PipelineAssumption DEF Before, From, To
<1>2. InOrder => TrueMeansAll
  BY <1>1 DEF InOrder, TrueMeansAll
<1> QED
  BY <1>2, InOrderHolds, PTL
=============================================================================
