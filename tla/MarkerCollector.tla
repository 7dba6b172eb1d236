--------------------------- MODULE MarkerCollector ---------------------------
(***************************************************************************)
(* How the worker finds the marks of a text document (MarkerCollector and  *)
(* the walks that feed it, src/src/uno_extract.cpp): comments, bookmarks,  *)
(* tracked changes and form fields. One walk over the body, its tables and *)
(* the text apart from it counts characters, pairs the boundaries of each  *)
(* mark and collects the text in between; what stayed open is flushed, and *)
(* what was never met is looked up in the document's own lists.            *)
(*                                                                         *)
(* The document is not known in advance: each step of the walk meets its   *)
(* next portion. A text is its length.                                     *)
(***************************************************************************)
EXTENDS Integers, Sequences, FiniteSets

CONSTANTS Marks,       \* the marks of the document; their order is that of their names
          MaxText      \* bound: characters of the document, paragraph ends included

ASSUME MarksAssumption == Marks \subseteq Nat \ {0} /\ MaxText \in Nat

VARIABLES
  kind,     \* what each mark is
  place,    \* what is being walked, or how the walk ended
  offset,   \* annotation_offset, of the body's text
  walked,   \* characters met, wherever
  open,     \* open_comments_, open_changes_, open_bookmarks_, open_fields_
  seen,     \* seen_comment_names_, seen_bookmark_names_, seen_change_ids_
  events,   \* the marks emitted
  warned,   \* history: a portion or a list could not be read
  confused, \* history: marks that a boundary of unknown owner may have been taken for
  starts,   \* history: where each mark really starts
  ends,     \* history: where it really ends
  stray     \* history: text inside a mark that its offsets do not count,
            \* less the text that its offsets alone count

document == <<kind, starts, ends, stray>>
marksVars == <<document, place, offset, walked, open, seen, events, warned,
              confused>>

Kinds == {"comment", "bookmark", "change", "field"}
Anon == 0        \* "\nanon", a comment boundary that waits for its comment
Outside == -1    \* char_start and char_end apart from the body's text
Unmet == -2      \* no boundary met
Missed == -3     \* a boundary that lies where no walk comes

Walks == {"body", "table", "apart"}
Kind(m) == IF m = Anon THEN "comment" ELSE kind[m]
OpenOf(k) == {m \in DOMAIN open : Kind(m) = k}

\* A failure of the office core is caught and told; one is enough (bound).
Warn == ~warned /\ warned' = TRUE

\* offset in the body, no offset anywhere else.
Here == IF place = "body" THEN offset ELSE Outside

MarksInit ==
  /\ kind \in [Marks -> Kinds]
  /\ place = "body" /\ offset = 0 /\ walked = 0
  /\ open = << >> /\ seen = {} /\ events = <<>>
  /\ warned = FALSE /\ confused = {}
  /\ starts = [m \in Marks |-> Unmet] /\ ends = [m \in Marks |-> Unmet]
  /\ stray = [m \in Marks |-> 0]

----------------------------------------------------------------------------
(* The text *)

\* on_run_text, for every open mark of every kind.
HearNone == open   \* mutant: the paragraph break is not mirrored
Hear == [m \in DOMAIN open |-> [open[m] EXCEPT !.covered = @ + 1]]

Inside(m) == starts[m] # Unmet /\ ends[m] = Unmet
Pending == {m \in Marks : kind[m] = "comment" /\ Inside(m)}
AddStray(n) == stray' = [m \in Marks |-> IF Inside(m) THEN stray[m] + n ELSE stray[m]]

RunRead == IF place = "body" THEN offset + 1 ELSE offset

\* A character of a run, whose length the body alone adds to the offset. When the
\* run's properties cannot be read, the collector does not hear of it.
ReadText ==
  /\ place \in Walks
  /\ walked < MaxText
  /\ walked' = walked + 1
  /\ offset' = RunRead
  /\ \/ /\ open' = Hear
        /\ AddStray(IF place = "body" THEN 0 ELSE 1)
        /\ UNCHANGED warned
     \/ /\ Warn
        /\ AddStray(IF place = "body" THEN -1 ELSE 0)
        /\ UNCHANGED open
  /\ UNCHANGED <<kind, starts, ends, place, seen, events, confused>>

Break == Hear

\* fill_paragraph ends: the newline of the annotation space.
EndParagraph ==
  /\ place = "body"
  /\ walked < MaxText
  /\ walked' = walked + 1
  /\ offset' = offset + 1
  /\ open' = Break
  /\ UNCHANGED <<document, place, seen, events, warned, confused>>

\* walk_table_marks, and back; then notes, indexes, headers and frames. A mark
\* ends where it started or is never closed; a boundary that waits for its comment
\* is not met by it any more.
Move ==
  /\ \/ place = "body" /\ place' \in {"table", "apart"}
     \/ place = "table" /\ place' = "body"
     \/ place = "apart" /\ place' = "flush"
  /\ confused' = IF Anon \in DOMAIN open THEN confused \cup Pending ELSE confused
  /\ ends' = [m \in Marks |-> IF Inside(m) /\ (starts[m] = Outside \/ place' = "apart")
                             THEN Missed ELSE ends[m]]
  /\ UNCHANGED <<kind, starts, stray, offset, walked, open, seen, events, warned>>

----------------------------------------------------------------------------
(* The boundaries of marks *)

NoText == -1
Event(m, from, to, covered) == [mark |-> m, from |-> from, to |-> to, covered |-> covered]
Emit(e) == events' = Append(events, e)
Without(m) == [n \in DOMAIN open \ {m} |-> open[n]]
Opened(m, from) == [n \in DOMAIN open \cup {m} |->
                      IF n = m THEN [from |-> from, covered |-> 0] ELSE open[n]]

Close(m, as) ==
  /\ Emit(Event(as, open[m].from, Here, open[m].covered))
  /\ open' = Without(m)

\* A boundary with its field: it closes the comment, or opens it, or gives its
\* name to a boundary that waits.
NamedAnnotation(m) ==
  /\ kind[m] = "comment"
  /\ \/ m \in DOMAIN open /\ Close(m, m) /\ UNCHANGED seen
     \/ /\ m \notin DOMAIN open
        /\ seen' = seen \cup {m}
        /\ IF Anon \in DOMAIN open THEN Close(Anon, m)
           ELSE open' = Opened(m, Here) /\ UNCHANGED events

\* std::prev(end()) of the open marks of a kind, in the order of their names.
FirstByName(m) == m \in DOMAIN open /\ \A n \in OpenOf(Kind(m)) : m <= n   \* mutant: begin()
LastByName(m) == m \in DOMAIN open /\ \A n \in OpenOf(Kind(m)) : n <= m

\* A boundary without: it closes the open comment with the last name, or waits.
PlainAnnotation ==
  /\ \/ \E last \in OpenOf("comment") : LastByName(last) /\ Close(last, last)
     \/ OpenOf("comment") = {} /\ open' = Opened(Anon, Here) /\ UNCHANGED events
  /\ UNCHANGED seen

\* on_bookmark of a range, and on_redline: an end without its start emits what is
\* known.
OnBookmark(m, isStart) ==
  /\ kind[m] \in {"bookmark", "change"}
  /\ seen' = seen \cup {m}
  /\ \/ isStart /\ m \notin DOMAIN open /\ open' = Opened(m, Here) /\ UNCHANGED events
     \/ ~isStart /\ m \in DOMAIN open /\ Close(m, m)
     \/ /\ ~isStart /\ m \notin DOMAIN open
        /\ Emit(Event(m, Outside, Here, NoText))
        /\ UNCHANGED open

\* An end without its mark closes the open field with the last name; a stray end
\* is ignored.
OnFieldmark(m, isStart, named) ==
  /\ kind[m] = "field"
  /\ UNCHANGED seen
  /\ \/ isStart /\ open' = Opened(m, Here) /\ UNCHANGED events
     \/ ~isStart /\ named /\ m \in DOMAIN open /\ Close(m, m)
     \/ /\ ~isStart /\ ~named
        /\ \E last \in OpenOf("field") : LastByName(last) /\ Close(last, last)
     \/ /\ ~isStart
        /\ IF named THEN m \notin DOMAIN open ELSE OpenOf("field") = {}
        /\ UNCHANGED <<open, events>>

\* A collapsed bookmark or a TextFieldStartEnd.
OnPoint(m) ==
  /\ kind[m] \in {"bookmark", "field"}
  /\ seen' = seen \cup {m}
  /\ Emit(Event(m, Here, Here, NoText))
  /\ UNCHANGED open

Sight(m, isStart, named) ==
  \/ named /\ NamedAnnotation(m)
  \/ ~named /\ kind[m] = "comment" /\ PlainAnnotation
  \/ named /\ OnBookmark(m, isStart)
  \/ OnFieldmark(m, isStart, named)

\* A boundary of a comment, and the end of a field, may come without its name.
MayBePlain(m, isStart) == kind[m] = "comment" \/ (kind[m] = "field" /\ ~isStart)

\* The inmost of nested marks whose names are in the order of their starts.
Inmost(m) == m \in DOMAIN open /\ \A n \in OpenOf(kind[m]) : n <= m

\* Whose boundary it is can only be guessed: it has no name, and does not end the
\* inmost mark; or a boundary waits, and perhaps not for m.
Guessed(m, isStart, named) ==
  \/ ~named /\ ~(OpenOf(kind[m]) \subseteq {m}) /\ (isStart \/ ~Inmost(m))
  \/ ~named /\ kind[m] = "comment" /\ ~isStart /\ m \notin DOMAIN open
  \/ /\ named /\ kind[m] = "comment" /\ m \notin DOMAIN open
     /\ Anon \in DOMAIN open /\ Pending \ DOMAIN open # {m}

\* The marks it may be taken for.
Rivals(m) ==
  {m} \cup {n \in Marks : kind[n] = kind[m] /\ (n \in DOMAIN open \/ Inside(n))}

Meet(m, isStart) ==
  \E named \in BOOLEAN :
    /\ named \/ MayBePlain(m, isStart)
    /\ Sight(m, isStart, named)
    /\ confused' = IF Guessed(m, isStart, named) THEN confused \cup Rivals(m) ELSE confused

\* The walk meets the start of m, or its end: in the body, or where the start was.
MeetStart(m) ==
  /\ place \in Walks /\ starts[m] = Unmet /\ ends[m] = Unmet
  /\ Meet(m, TRUE)
  /\ starts' = [starts EXCEPT ![m] = Here]
  /\ UNCHANGED <<kind, ends, stray, place, offset, walked, warned>>

MeetEnd(m) ==
  /\ place \in Walks /\ ends[m] = Unmet
  /\ \/ starts[m] = Unmet
     \/ starts[m] = Outside <=> place # "body"
  /\ Meet(m, FALSE)
  /\ starts' = [starts EXCEPT ![m] = IF @ = Unmet THEN Missed ELSE @]
  /\ ends' = [ends EXCEPT ![m] = Here]
  /\ UNCHANGED <<kind, stray, place, offset, walked, warned>>

MeetPoint(m) ==
  /\ place \in Walks /\ starts[m] = Unmet /\ ends[m] = Unmet
  /\ OnPoint(m)
  /\ starts' = [starts EXCEPT ![m] = Here] /\ ends' = [ends EXCEPT ![m] = Here]
  /\ UNCHANGED <<kind, stray, place, offset, walked, warned, confused>>

\* on_portion catches what reading a boundary throws. By then a comment or a
\* bookmark may be noted as seen, a boundary that waited for the comment dropped,
\* and a change opened with no start filled in.
FailToRead(m) ==
  /\ place \in Walks
  /\ \/ starts[m] = Unmet /\ ends[m] = Unmet /\ starts' = [starts EXCEPT ![m] = Here]
        /\ UNCHANGED ends
     \/ Inside(m) /\ ends' = [ends EXCEPT ![m] = Here] /\ UNCHANGED starts
  /\ \/ UNCHANGED <<seen, open>>
     \/ /\ kind[m] # "field" /\ m \notin DOMAIN open
        /\ seen' = seen \cup {m}
        /\ open' = CASE kind[m] = "comment" -> Without(Anon)
                     [] kind[m] = "change" -> Opened(m, 0)
                     [] OTHER -> open
  /\ Warn
  /\ UNCHANGED <<kind, stray, place, offset, walked, events, confused>>

----------------------------------------------------------------------------
(* finish *)

FlushPointless(m) == Event(m, open[m].from, Here, open[m].covered)   \* mutant: closed at the end
Flushed(m) ==
  Event(m, open[m].from, IF Kind(m) = "comment" THEN open[m].from ELSE -1, NoText)

\* flush_open, in any order.
Flush ==
  /\ place = "flush"
  /\ \/ \E m \in DOMAIN open :
          /\ Emit(Flushed(m))
          /\ open' = Without(m)
          /\ UNCHANGED place
     \/ open = << >> /\ place' = "sweep" /\ UNCHANGED <<open, events>>
  /\ UNCHANGED <<document, offset, walked, seen, warned, confused>>

SweepAll == {m \in Marks : kind[m] # "field"}   \* mutant: also what was seen
Unseen == {m \in Marks \ seen : kind[m] # "field"}

\* sweep_bookmarks, sweep_comments and sweep_redlines, each of which may fail.
Sweep ==
  /\ place = "sweep"
  /\ \/ \E m \in Unseen :
          /\ Emit(Event(m, Outside, Outside, NoText))
          /\ seen' = seen \cup {m}
          /\ UNCHANGED <<place, warned>>
     \/ Unseen = {} /\ place' = "done" /\ UNCHANGED <<seen, events, warned>>
     \/ Unseen # {} /\ place' = "done" /\ Warn /\ UNCHANGED <<seen, events>>
  /\ UNCHANGED <<document, offset, walked, open, confused>>

\* An emit found the parent gone: nothing more is emitted, and the walk unwinds.
Unwind ==
  /\ place \notin {"done", "failed"}
  /\ place' = "failed"
  /\ UNCHANGED <<document, offset, walked, open, seen, events, warned, confused>>

Ended == place \in {"done", "failed"} /\ UNCHANGED marksVars

MarksNext ==
  \/ ReadText \/ EndParagraph \/ Move
  \/ \E m \in Marks : MeetStart(m) \/ MeetEnd(m) \/ MeetPoint(m) \/ FailToRead(m)
  \/ Flush \/ Sweep \/ Unwind \/ Ended

MarksSpec == MarksInit /\ [][MarksNext]_marksVars

----------------------------------------------------------------------------
(* Properties *)

Spans == -1..MaxText
NoteEvents == [mark : Marks \cup {Anon}, from : Spans, to : Spans, covered : Spans]

\* Every variable stays within its type.
MarksTypeOK ==
  /\ kind \in [Marks -> Kinds]
  /\ place \in Walks \cup {"flush", "sweep", "done", "failed"}
  /\ walked \in 0..MaxText /\ offset \in 0..walked
  /\ DOMAIN open \subseteq Marks \cup {Anon}
  /\ open \in [DOMAIN open -> [from : Spans, covered : 0..walked]]
  /\ seen \subseteq Marks
  /\ events \in Seq(NoteEvents)
  /\ warned \in BOOLEAN /\ confused \subseteq Marks
  /\ starts \in [Marks -> -3..MaxText] /\ ends \in [Marks -> -3..MaxText]
  /\ stray \in [Marks -> -walked..walked]

Emitted(m) == {i \in 1..Len(events) : events[i].mark = m}
Started(m) == starts[m] \notin {Unmet, Missed}
EndMet(m) == ends[m] \notin {Unmet, Missed}

\* The marks of which no boundary's owner was guessed.
Clear == Marks \ confused

\* Whichever way a mark is found, by its boundaries, by the flush or in the
\* document's lists, it is emitted once: a comment, bookmark or change always, a
\* field when its start was met, and nothing under a name no mark has. Only the
\* marks that a boundary without its name may have been taken for are excepted.
EachMarkOnce ==
  /\ \A m \in Clear : Cardinality(Emitted(m)) <= 1
  /\ ~warned /\ confused = {} => Emitted(Anon) = {}
  /\ place = "done" /\ ~warned =>
       \A m \in Clear : kind[m] # "field" \/ Started(m) => Emitted(m) # {}

\* The offsets a mark is emitted with are those of its boundaries, and one that
\* was not met is never made up: a comment then is a point. A boundary without
\* its name ends the right one of nested marks whose names are in the order of
\* their starts; any other harms no mark but those it may have been taken for.
SpansTrue ==
  ~warned =>
    \A i \in {j \in 1..Len(events) : events[j].mark \in Clear} :
      LET e == events[i]
          m == e.mark
          Point(p) == kind[m] = "comment" /\ e.from = p /\ e.to = p
      IN  \/ Started(m) /\ EndMet(m) /\ e.from = starts[m] /\ e.to = ends[m]
          \/ Started(m) /\ ~EndMet(m) /\ (Point(starts[m]) \/ (e.from = starts[m] /\ e.to = -1))
          \/ ~Started(m) /\ EndMet(m) /\ (Point(ends[m]) \/ (e.from = -1 /\ e.to = ends[m]))
          \/ ~Started(m) /\ ~EndMet(m) /\ e.from = -1 /\ e.to = -1

\* The text a mark is emitted with lies between its boundaries: all of it that
\* the offsets count, and what was met in tables on the way.
TextBetween ==
  \A i \in 1..Len(events) :
    LET e == events[i]
    IN  ~warned /\ e.mark \in Clear /\ e.covered # NoText =>
          /\ Started(e.mark) /\ EndMet(e.mark)
          /\ e.covered = (e.to - e.from) + stray[e.mark]

=============================================================================
