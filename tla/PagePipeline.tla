---------------------------- MODULE PagePipeline ----------------------------
(***************************************************************************)
(* paint_pages (src/src/lok_engine.cpp): the painter, which is the calling *)
(* thread, paints the pages of the requested range and hands the raw       *)
(* pixels to an encoder thread through a queue of kMaxQueued, under one    *)
(* mutex and one condition variable. With vector output the painter emits  *)
(* each page itself. Pixels are left out: a page is its number.            *)
(***************************************************************************)
EXTENDS Integers, Sequences

CONSTANTS Pages,        \* pages.size()
          FirstPage,    \* options.first_page, 0 when unbounded
          LastPage,     \* options.last_page, 0 when unbounded
          MaxQueued     \* kMaxQueued

ASSUME PipelineAssumption == /\ Pages \in Nat \ {0}
                             /\ FirstPage \in Nat
                             /\ LastPage \in Nat
                             /\ MaxQueued \in Nat \ {0}

VARIABLES
  vector,      \* options.vector_format is SVG
  painter,     \* where the painter is
  index,       \* the page it is at, from 1
  encoder,     \* where the encoder thread is
  raw,         \* the page the encoder has popped, 0 when none
  queue,       \* painted pages not yet popped
  paintDone,   \* paint_done
  encoderOk,   \* encoder_ok
  emitted,     \* the pages emitted, in order
  result       \* what paint_pages returned

painterVars == <<painter, index, paintDone, result>>
encoderVars == <<encoder, raw>>
vars == <<vector, painterVars, encoderVars, queue, encoderOk, emitted>>

Init == /\ vector \in BOOLEAN
        /\ painter = "paint" /\ index = 1
        /\ encoder = "wait" /\ raw = 0
        /\ queue = <<>>
        /\ paintDone = FALSE
        /\ encoderOk = TRUE
        /\ emitted = <<>>
        /\ result = "none"

InRange(page) == /\ FirstPage > 0 => page >= FirstPage
                 /\ LastPage > 0 => page <= LastPage

----------------------------------------------------------------------------
(* The painter *)

PastLastPage == index > Pages

\* The loop ends at the last page, or as soon as it sees a failure.
PaintEnds ==
  /\ painter = "paint"
  /\ PastLastPage \/ ~encoderOk
  /\ painter' = "close"
  /\ UNCHANGED <<vector, index, paintDone, result, encoderVars, queue, encoderOk,
                 emitted>>

Skip ==
  /\ painter = "paint"
  /\ encoderOk /\ ~PastLastPage /\ ~InRange(index)
  /\ index' = index + 1
  /\ UNCHANGED <<vector, painter, paintDone, result, encoderVars, queue, encoderOk,
                 emitted>>

\* Vector output: exported, or painted and wrapped, and emitted right here.
EmitVector ==
  /\ painter = "paint"
  /\ encoderOk /\ ~PastLastPage /\ InRange(index)
  /\ vector
  /\ \/ /\ emitted' = Append(emitted, index)
        /\ index' = index + 1
        /\ UNCHANGED <<painter, encoderOk>>
     \/ /\ encoderOk' = FALSE      \* no SVG at all, or emit failed
        /\ painter' = "close"
        /\ UNCHANGED <<emitted, index>>
  /\ UNCHANGED <<vector, paintDone, result, encoderVars, queue>>

Paint ==
  /\ painter = "paint"
  /\ encoderOk /\ ~PastLastPage /\ InRange(index)
  /\ ~vector
  /\ painter' = "offer"
  /\ UNCHANGED <<vector, index, paintDone, result, encoderVars, queue, encoderOk,
                 emitted>>

Room == Len(queue) < MaxQueued

\* The painter's critical section: wait for room, push, unless the encoder
\* failed. wait evaluates its predicate and sleeps under the mutex.
Offer ==
  /\ painter = "offer"
  /\ \/ /\ ~encoderOk
        /\ painter' = "close"
        /\ UNCHANGED queue
     \/ /\ encoderOk /\ Room
        /\ queue' = Append(queue, index)
        /\ painter' = "notify"
     \/ /\ encoderOk /\ ~Room
        /\ painter' = "asleep"
        /\ UNCHANGED queue
  /\ UNCHANGED <<vector, index, paintDone, result, encoderVars, encoderOk, emitted>>

\* notify_one can only find the other thread asleep.
Woken(state, awake) == IF state = "asleep" THEN awake ELSE state

PushNotifies ==
  /\ painter = "notify"
  /\ encoder' = Woken(encoder, "wait")
  /\ painter' = "paint"
  /\ index' = index + 1
  /\ UNCHANGED <<vector, paintDone, result, raw, queue, encoderOk, emitted>>

\* paint_done under the mutex, then the last notification.
Close ==
  /\ painter = "close"
  /\ paintDone' = TRUE
  /\ painter' = "closed"
  /\ UNCHANGED <<vector, index, result, encoderVars, queue, encoderOk, emitted>>

CloseNotifies ==
  /\ painter = "closed"
  /\ encoder' = Woken(encoder, "wait")
  /\ painter' = "join"
  /\ UNCHANGED <<vector, index, paintDone, result, raw, queue, encoderOk, emitted>>

\* Mutant: the page loop decides, the encoder's failure does not.
LoopRanOut == index > Pages
Succeeded == encoderOk

\* join returns when the encoder thread has ended.
Join ==
  /\ painter = "join"
  /\ encoder = "ended"
  /\ result' = IF Succeeded THEN "true" ELSE "false"
  /\ painter' = "returned"
  /\ UNCHANGED <<vector, index, paintDone, encoderVars, queue, encoderOk, emitted>>

----------------------------------------------------------------------------
(* The encoder *)

Newest == queue[Len(queue)]   \* mutant: the page painted last is taken
Oldest == Head(queue)

\* The encoder's critical section: wait for a page or the end, pop.
Take ==
  /\ encoder = "wait"
  /\ \/ /\ queue # <<>>
        /\ raw' = Oldest
        /\ queue' = Tail(queue)
        /\ encoder' = "notify"
     \/ /\ queue = <<>>
        /\ encoder' = IF paintDone THEN "ended" ELSE "asleep"
        /\ UNCHANGED <<raw, queue>>
  /\ UNCHANGED <<vector, painterVars, encoderOk, emitted>>

\* Mutant: the pop does not tell the painter that there is room.
PopSilently ==
  /\ encoder = "notify"
  /\ encoder' = "encode"
  /\ UNCHANGED <<vector, painterVars, raw, queue, encoderOk, emitted>>

PopNotifies ==
  /\ encoder = "notify"
  /\ painter' = Woken(painter, "offer")
  /\ encoder' = "encode"
  /\ UNCHANGED <<vector, index, paintDone, result, raw, queue, encoderOk, emitted>>

\* The page is encoded and emitted; or either fails, and the thread ends,
\* telling nobody.
Encode ==
  /\ encoder = "encode"
  /\ \/ /\ emitted' = Append(emitted, raw)
        /\ encoder' = "wait"
        /\ UNCHANGED encoderOk
     \/ /\ encoderOk' = FALSE
        /\ encoder' = "ended"
        /\ UNCHANGED emitted
  /\ raw' = 0
  /\ UNCHANGED <<vector, painterVars, queue>>

\* A condition variable may wake a sleeper for no reason.
SpuriousWakeUp ==
  \/ /\ painter = "asleep"
     /\ painter' = "offer"
     /\ UNCHANGED <<vector, index, paintDone, result, encoderVars, queue, encoderOk,
                    emitted>>
  \/ /\ encoder = "asleep"
     /\ encoder' = "wait"
     /\ UNCHANGED <<vector, painterVars, raw, queue, encoderOk, emitted>>

Painter == \/ PaintEnds \/ Skip \/ EmitVector \/ Paint \/ Offer
           \/ PushNotifies \/ Close \/ CloseNotifies \/ Join
Encoder == Take \/ PopNotifies \/ Encode

Returned == painter = "returned" /\ UNCHANGED vars

Next == Painter \/ Encoder \/ SpuriousWakeUp \/ Returned

\* Both threads run; nothing promises a spurious wake-up.
Spec == Init /\ [][Next]_vars /\ WF_vars(Painter) /\ WF_vars(Encoder)

----------------------------------------------------------------------------
(* Properties *)

\* Every variable stays within its type; the loop stops after the last page.
TypeOK ==
  /\ vector \in BOOLEAN
  /\ painter \in {"paint", "offer", "asleep", "notify", "close", "closed", "join",
                  "returned"}
  /\ index \in 1..(Pages + 1)
  /\ encoder \in {"wait", "asleep", "notify", "encode", "ended"}
  /\ raw \in 0..Pages
  /\ queue \in Seq(1..Pages)
  /\ paintDone \in BOOLEAN
  /\ encoderOk \in BOOLEAN
  /\ emitted \in Seq(1..Pages)
  /\ result \in {"none", "true", "false"}

\* Raw pixel buffers never pile up: one being painted, the queue, and one
\* being encoded.
BuffersBounded ==
  Len(queue) + (IF painter \in {"offer", "asleep"} THEN 1 ELSE 0)
             + (IF raw # 0 THEN 1 ELSE 0) <= MaxQueued + 2

\* The first page of the range and its last.
From == IF FirstPage > 0 THEN FirstPage ELSE 1
To == IF LastPage > 0 /\ LastPage < Pages THEN LastPage ELSE Pages

\* Pages come out in order, from the first of the range and without a gap,
\* whichever thread emits them.
PagesInOrder ==
  \A i \in 1..Len(emitted) : emitted[i] = From + i - 1 /\ emitted[i] <= To

\* A return of true means that every page of the range was emitted.
TrueMeansAll ==
  result = "true" => Len(emitted) = (IF From > To THEN 0 ELSE To - From + 1)

\* No wake-up is lost while nothing fails: the call returns.
HealthyPaintReturns == []encoderOk => <>(painter = "returned")

\* The comment above paint_pages: on failure it sets *error and returns false.
FailureReturns == ~encoderOk ~> painter = "returned"
=============================================================================
