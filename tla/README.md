# Verification of grpc-libreoffice

TLA+ models of the conversion service in `src/`, the configurations under which TLC
checks them, and proofs that TLAPS checks. Every definition was written from the source;
`PROJECT.json` maps each one to the lines it stands for, lists the hazards of the code at
their lines, and gives for every checked property a plausible bug (a *mutant*, in the
module next to the definition it changes) under which the property fails.

    tlc -config RenderService.cfg RenderService       # one run per .cfg, below
    tlapm RenderServiceProofs.tla                     # proofs of RenderService

## The system

A C++ gRPC server accepts a document as a stream of chunks and answers with a stream of
events (page images, typed content, PDF chunks, and a terminal status), or with one
Docling document. It does not load documents itself: each call forks a *worker process*
that loads one document with the office core, writes its events as length-prefixed frames
to a pipe, and exits with a code that says how it went.

| component | state it keeps | operations | talks to |
|---|---|---|---|
| gRPC service, `render_service.cpp` | buffered-upload counter, busy slots, counters; per call its bytes, reservation, slot, work dir | `StreamPages`, `ConvertToPdf`, `ToDocument`, all through `render` | clients; the worker runner; the mapper |
| option resolution, `render_service.cpp`, `worker_main.cpp` | merged `StreamOptions`, parts token, dpi, range, encoding | `capture_*`, `merge_stream_options`, worker's reading of argv and `options.pb` | the worker, by two ways at once |
| worker runner, `worker_runner.cpp` | two pipes, a frame reader, a child process | `run_worker`, `finish`, `FrameReader` | service (callbacks), worker (pipes, SIGKILL) |
| worker process, `worker_main.cpp`, `lok_engine.cpp` | staged files, password prompt, the loaded document | stage, load (three attempts), redact, verify, emit, exit | runner (stdin, stdout, exit code), office core |
| paint pipeline, `lok_engine.cpp` | bounded queue, two flags, one mutex and condition variable | `paint_pages`: painter and encoder thread | office core, encoders |
| marks of text documents, `uno_extract.cpp` | the open marks, the seen names, the offset | `MarkerCollector`, fed by the text walks | office core's portions and lists |
| document mapping, `docling_map.cpp` | the item tree, anchors waiting for the end | `consume`, one handler per event | service |
| redaction, `uno_extract.cpp` | the loaded document, the pieces of text to remove | `apply_redaction`: resolve, inspect, rewrite, verify, typed check | office core; the worker, which emits nothing before it |
| typed extraction, `uno_extract.cpp` | counters of each kind, the collector of marks, warnings | `emit_typed_content_with` and the walks under it | office core; `emit_fn`, which frames an event or looks at it |
| column grid of text tables, `uno_extract.cpp` | the edges of all rows, the lines merged from them | `fill_grid_from_separators`, `fill_column_spans` | the walk that emits a table |
| PDF stream, page geometry | the loaded document | `export_pdf_stream`, page rectangles | office core |
| passwords file, event framing | none | encode, decode | service and worker |
| image encoders, GIF palette | none | PNG, JPEG, WebP, LZW | paint pipeline |
| server process, `main.cpp` | configuration, shutdown flag | start, signals, metrics | operating system |
| demo front end, clients, scripts | none of the system's | HTTP facade, examples | service |

What is hard in it, and what would make it wrong:

- *Concurrent calls* share a byte counter grown by a compare-exchange loop and a slot
  gate on a condition variable; some thirty returns must each give back exactly what was
  taken, in the reverse order. Correct means that counter, slots, work dirs and answer
  counters stay exact, and that nobody waits for ever.
- *Two pipes in one thread* can deadlock; the child may die, hang, close its stdout or
  refuse early; deadline and cancellation race with output already waiting. Correct means
  that the outcome tells the truth and the run ends.
- *One condition variable in both directions* between painter and encoder, with failures
  on both sides. Correct means order, completeness, bounded memory and no lost wake-up.
- *Options in any request of a stream*, with different rules for different fields, sent
  to the worker twice. Correct means that the first request wins and the copies agree.
- *Secrets*: passwords and the plain upload on a tmpfs; text that must be removed before
  anything is emitted, by operations that may partly fail. Correct means that nothing
  redacted goes out, that refused calls emit nothing, that files live briefly.
- *Marks* come as boundaries in text, sometimes without saying whose; some are never met.
  Correct means each is told once, with true offsets and its own text.
- *Text to remove* is addressed by offsets, found by content, cut into segments and
  rewritten by edits that may fail one by one. Correct means that what goes on holds no
  occurrence, that nothing else was changed, and that what was refused was rightly refused.
- *A table's columns* are nowhere in the document: they are merged from the edges of all
  rows, with a tolerance, from an unstable sort. Correct means that no row loses a box and
  that columns agree between rows, whatever the order.
- *Any selection of parts* walks the same document with shared counters and marks, while
  reads fail and the reader may leave; and a redacted document is walked twice. Correct
  means that a selection only filters, that numbers have no gap, that no refusal is lost,
  and that nothing is sent that the first walk has not seen.
- *Events in any subset and order* must build one well-formed tree, with anchors
  resolved only when all of the text is known.

## Modules

| module | models | abstract specification | proofs |
|---|---|---|---|
| `RenderService` | `render` for any number of concurrent calls | | `RenderServiceProofs` |
| `WorkerRunner` | `run_worker` with worker and pipes | `WorkerRun` | `WorkerRunnerProofs` |
| `RenderWorker` | the worker process | `WorkerContract` | `RenderWorkerProofs` |
| `PagePipeline` | `paint_pages` | | `PagePipelineProofs` |
| `StreamOptions` (`MCStreamOptions` for TLC) | merging and the two copies | | `StreamOptionsProofs` |
| `MarkerCollector` | the marks of a text document | | `TextProofs` |
| `Redaction` (`MCRedaction` for TLC) | `apply_redaction` on a text document | | `TextProofs` |
| `TypedContent` (`MCTypedContent`) | `emit_typed_content_with` for every document type | | `ExtractionProofs` |
| `TableGrid` (`MCTableGrid`) | the columns of a text table | | `ExtractionProofs` |
| `DoclingMapper` | the document tree | | `DoclingMapperProofs` |

The modules meet at their interfaces. `RenderService` takes the worker run as one step
with any outcome; `WorkerRunner` opens that step and is shown to implement `WorkerRun`
(one worker, alive only during the run; frames in between; `kOk` only for a complete
response). `WorkerRunner` takes the worker as an adversary within a contract;
`RenderWorker` is shown to implement it as `WorkerContract` (whole upload before the first
event, nothing after the status, exit 0 only then). `RenderWorker` takes painting as a
loop that may fail and the redaction as a step with a verdict; `PagePipeline` and
`Redaction` open them. `TypedContent` is the walk behind one `typed` event of
`RenderWorker`, and the scan that `Redaction` has as its typed check; it takes marks and
tables as elements, which `MarkerCollector` and `TableGrid` open. What it sends is what
`DoclingMapper` folds.

### RenderService

One value of `pc` per place in `render` where another call, the client or the clock can
come in between. `reserved`, `loaded` and `buffered` are the compare-exchange loop of
`UploadReservation::add`, in two steps (load, exchange), so that two uploads can both see
room. `busy`, `held` and the steps `acquire` and `asleep` are `SlotGuard::acquire`, whose
wait is timed. `needs` and `staged` are the files of the work dir. The destructors are
steps of their own (`RemoveWorkDir`, `ReleaseSlot`, `FreeBytes`, `Unreserve`) because other
calls see what is between them. `RemoveWorkDir` may fail without a word, as the code ignores
the error of `remove_all`; `undeleted` remembers whose directory stayed, and
`NothingLeftBehind` excepts those. A request's fields are reduced to whether validation
accepts them, and the reply to its status code and counter.

### WorkerRunner, WorkerRun

The upload travels in units, a frame is a header and a payload unit, pipes have a
capacity; so a read can end inside a frame and a write can be partial. One pass of the
loop is: look at cancellation and deadline, `poll`, feed, drain in a batch, call back.
The worker reads its upload, writes frames and exits; at any step it may die, hang,
refuse early or close its stdout and live on.

### RenderWorker, WorkerContract

`request` and `document` are what decides the path: mode, candidate passwords, the opt-in
for repair, redaction, painting; the package (sound, broken, unreadable), the encryption
and the first right candidate. `step` walks through `main` and `run_render`. `secret` is
what is left of the text to redact, by region: one that the verify walk reads, that the
typed-content check reads, that both read, or that neither does (the pixels of an image).
A rewrite that fails leaves the whole, a part or nothing, anywhere, and is warned of; the
two checks look for whole occurrences, as in the code, and let a part pass. `leaked`
remembers what went out, from where. So `OnlyPartsLeak` claims no more than the code keeps:
a whole occurrence never goes out from where a check reads, and a part only after a rewrite
that failed, with a warning. `Redaction` says when that happens. A rewrite that did not
throw is assumed to have replaced what it addressed.

### PagePipeline

Painter and encoder are two processes over the queue and the flags. A wait is split into
the test under the mutex, the sleep, and the wake-up, so that a notification can be lost
or taken by the other; spurious wake-ups are possible and never relied upon.

### StreamOptions

A request's options are a function from field to number. `Merged` follows
`merge_stream_options` field by field: first nonzero value, first list, sticky flags, two
pairs, and the vector format implied by `page_format`. `WorkerVector`, `ArgvPage` and
`WorkerPage` are what the worker makes of argv and `options.pb`. `FirstRequestWins` leaves
`vector_format` out, whose rule the documents contradict (Findings).

### MarkerCollector

The walk goes over the body, its tables and the text apart (headers, footers, frames);
each step meets the document's next portion, which is not known in advance. `starts`,
`ends` and `stray` remember what the document really has, for the properties. A comment
boundary, and the end of a field, may come without saying whose it is, anywhere and
whatever else is open: `PlainAnnotation` and `OnFieldmark` then close the open mark that is
last by name, as the code does. That is the right one when marks nest and their names are
in the order of their starts (`Inmost`). Otherwise the code guesses, and `confused`
remembers the marks the boundary may have been taken for: those open or pending then, and
also when the boundary that waited may not be this comment's. The properties speak of all
others (`Clear`), so they also say that a guess harms no mark but its rivals. Assumed of
documents: the two ends of a mark lie in the same text; all four kinds were asked for; at
most one failure of the office core.

### Redaction

A paragraph is a sequence of code points, each with its segment and whether the segment is
nested in a content control (there the walks read it, but neither the annotation text space
nor the typed events do). The rest of the document is one string for each way text is
treated: rewritten, only checked (names), only seen by typed events (authors), generated
(indexes), embedded. `step` is the stage of `apply_redaction`; its early returns and its
`catch` are steps of their own. `Resolve` turns spans into pieces as the code does, by
clipping and trimming; `Covered` and `Masked` are `covered_intervals` and `masked`;
`RewriteBody` edits each segment from the right and may stop at any stretch, with a warning,
as `rewrite_segment` does. `original` and `missed` are history. The properties say what a
span addresses by counting in the document as loaded, not by resolving.

### TypedContent

A document is cut into the stages of its type, in the order of the code; a stage is a
sequence of elements with depths, so that what an element encloses follows it. `Read` is an
element read without trouble, `ReadInPart` one that is told although a read inside it
failed, `GiveUp` one that is lost, with what lies under the same handler (`LostTo`):
what it encloses, the rest of its series, or the rest of its page. `offers` are the events
of the element just read; `Offer` hands one to `emit_fn`, which takes it or refuses.
A refusal of a mark's event is kept by the collector (`failed`) and looked at only in the
places the code looks (`Checked`), or at the end (`Finish`). `pass` is the scan of a
redaction, the walk after it, or the only walk; `Passed` is the condition under which
`apply_redaction` lets the call go on, and `shown` remembers what that scan has seen.
Assumed of documents: a stage holds the sorts of element its walk enumerates (`Met`), or
what tells nothing or is not what it should be; marks are in text documents only, and there
not in the metadata or the embedded objects; a text document has one `finish`.
What a document holds of a kind (`PlacesOf`) is defined from the document alone, not from
the walk, so that `SelectionOnlyFilters` compares two independent answers.

### TableGrid

`table` has each row's separators and the boxes that are named. `Merge` takes any edge of
the smallest position left, so equal edges come in every order; `Begins` is the condition
under which an edge begins a grid line; `Place` puts cells on lines; `NoGrid` and
`SpanByNames` are the fallback, with whatever number of columns the office core reports.
Two separators of a row may be rounded to one position; then the sort may swap them, and
the cells at them cross. `SideBySide` excepts those rows (`Misplaced`), and asks for cells
within the columns only where the core counts a column for every box (`Within`);
`RowsKeepTheirEdges` holds of every row, but orders only edges that do not coincide.
`Aligned` is what one would like to hold of every table; it does not when a row's own
edges lie within the tolerance of each other, because a row keeps its edges apart and the
line it then begins is not the other rows'. `AlignedIfWide` leaves such tables out.

### DoclingMapper

`tree` has the size of each arena, each item's parent and each parent's children; an item
is its reference. One action per event handler, each with every item the handler adds.
`groups` holds the maps from slide, sheet, page and group path to the group that stands
for it; an event whose group never came falls back to the body, as in `group_by_ref` and
`link_child`. `offset` is the document-wide character space in which marks are anchored;
`WalkOn` is a paragraph that counts there and gives no event (the caller did not select
paragraphs); a table's cells do not count. `OnStatus` is `resolve_anchors`.

## Runs

| run | asks | bounds, and why they do | states |
|---|---|---|---|
| `RenderService` | are bytes exact and capped, is the worker briefed, and is nothing left behind, whichever way calls end; does a waiter whose caller left leave; is an uploaded call answered | two calls, one slot, two-byte documents and buffer, chunks of one and two bytes: a call waits while one renders, a chunk fits, passes the document limit, or passes the buffer; the file system keeps no, one or both directories. Two waiters at once would take a third call, which is beyond reach here | 549 thousand |
| `WorkerRunner` | is the outcome true; is at most one batch read after the deadline; does the run end; is `WorkerRun` implemented | upload of three over a pipe of two, six output units over a pipe of three, a batch of three units: both pipes fill, and a batch ends inside a frame | 78 thousand |
| `PagePipeline` | order, completeness, no lost wake-up | pages 2 to 6 of 7, queue of two: pages skipped at both ends, queue filled twice | 344 |
| `PagePipelineFailure` | *violation*: does `paint_pages` return after a failure | five pages | |
| `StreamOptions` | first request wins; copies agree | up to three requests, each with one kind of option and every combination that resolves differently: two that compete and one between | 99 thousand |
| `RenderWorker` | passwords, repair, exit; what of the text to redact can go out; is `WorkerContract` implemented | every request and document with two candidates, so that the right one is first, second or none; four events before the status; occurrences in any regions, rewritten wholly, partly or not | 211 thousand |
| `MarkerCollector` | each mark once, with true offsets and text | two marks of any kinds (one may be inside the other or cross it), boundaries with and without their names, three characters | 9.8 million |
| `Redaction` | was only an occurrence changed; is everything a span addresses gone; was a refusal right | two paragraphs, of three and of up to two characters out of two letters, a space and the glyph; the first cut into one to three segments, the middle one nested or not; one further text at a time; requests of one or two spans from 0 past the end: occurrences inside a segment, across two and three, overlapping themselves, at the end of a paragraph and over the newline | 1.2 million |
| `RedactionPartial` | *violation*: does what a span addresses leave the document | the same | |
| `TypedContent` | are events numbered without a gap; does a selection only filter; is nothing sent that a scan has not seen; is no refusal lost | five documents of the four types, with nesting one deeper than the limit (here 1), marks in and out of reach; selections of one, of two and of all parts; up to two failed reads and a refusal at any event | 81 thousand |
| `TableGrid` | do rows keep their edges; do lines follow the page; do columns agree between rows; do cells lie side by side | every table of two rows over a sum of six with a box unnamed or one too many, every table of three rows with chained separators, and rows with two separators at one position; the tolerance is one | 134 thousand |
| `DoclingMapper` | tree whole at every point; rows in their sheet; anchors, replies and references found | two parts, three characters of body, two marks, two further blocks in text documents and four items in the others: two paragraphs and a gap, a comment and its reply in both orders, two sheets with a pivot between them | 1.2 million |

No run uses a symmetry or a state constraint. Only the `StreamOptions` run turns the
deadlock check off: an upload may end after any request. Every other module has an
explicit step for being finished (`AllDone`, `Returned`, `Exited`, `Ended`, `Done`).

### Fairness

- `RenderService`: only the waiting loop is fair. Its wait is timed (`kSlotPoll`), so it
  wakes without a notification. `UploadedCallEnds` adds that threads run and renders end,
  which `run_worker`'s own deadline gives (`RunEnds` of `WorkerRunner`). No client is fair.
- `WorkerRunner`: the thread runs, its `poll` and its reap grace time out, and SIGKILL
  takes effect. The worker owes nothing. That the consumer returns is an explicit premise
  of `RunEnds`.
- `PagePipeline`: both threads run; a spurious wake-up is never promised.
- `RenderWorker`: the process runs as long as the office core's calls return.
- `StreamOptions`, `MarkerCollector`, `DoclingMapper`, `Redaction`, `TypedContent`,
  `TableGrid`: safety only.

## Proofs

Each theorem holds for every value of the constants under the module's named assumption
(`LimitsAssumption`, `RunAssumption`, ...), which TLC evaluates on every run. The scheme
is the same everywhere: a strengthening that is inductive, one lemma per action or group
of actions, and a temporal step that combines them. A proof module is about one component,
but `TextProofs` is about the two passes over text, and `ExtractionProofs` about the walk
that emits and the tables it emits.

- **RenderServiceProofs**: slots bounded, cap, counted bytes, dirs under slots, worker
  briefed, answers counted. None of these is inductive alone: `HoldsByPlace` ties what a
  call holds to its `pc`, `CountedThroughout` ties bytes to reservation through the load
  and the exchange, and `AnsweredByPlace` ties the status to the place. `ReservationsSummed`
  is that the shared counter is at every point the sum of what calls have reserved
  (`BufferExact`), and `ServerIdleIsEmpty` that a server without calls holds nothing
  (`NothingLeftBehind`), for any number of calls. The sum over calls is a fold; the lemmas
  on `SumFunction` say what it is of no call, what one call's change does to it, and that a
  sum of nothing is nothing, from the well-foundedness of proper subsets of a finite set.
- **WorkerRunnerProofs**: kOk is complete, early exits told, late reads bounded, cancelled
  runs deliver nothing, and the refinement of `WorkerRun`. The invariant is in three parts:
  `Verdicts` (what the thread may conclude from where it is), `Flow` (units written, in the
  pipe, and read add up, and frames are delivered from them in order), and `LateBatch`.
- **PagePipelineProofs**: bounded buffers, pages in order, true means all. `Stages` is who
  may be where with which flags; `InOrder` is that emitted, encoded, queued and painted
  pages follow each other.
- **StreamOptionsProofs**: the copies agree, a merged request is absorbed, and the first
  request to set a field wins it (`TheFirstAlwaysWins`), for uploads of any length.
  `Settled` says for each merged field when it can still change. `AllWon` is the last of
  these without its search: each field has the value of a request that set it when none
  before it had. One more request keeps that so, and the search can find no other.
- **RenderWorkerProofs**: what redacted text can go out, silence of refusals, event order,
  staging, repair, password verdict, exit code, and the refinement of `WorkerContract`.
  `Cleared` (past a check nothing whole is left where it reads, and a part only with a
  warning), `Answered`, `Ordered`, `Staged`, `Attempted` and `Prompted` are what each step
  relies on.
- **DoclingMapperProofs**: types, `AlwaysStructurallyValid`, and where rows, anchors and
  references land (`RowsStayWithTheirSheet`, `AnchorsLand`, `ThreadsJoin`). `Tree` adds
  that the arenas are filled without a gap, so that a new reference is new and the form
  region is the first of its arena; `Sound` adds that everything the mapper remembers is in
  the tree, without which an anchor could resolve to nothing. `InText` is that paragraphs
  follow each other, so that those that start at or before a position are the first so
  many, and the search of `resolve_doc_span` finds the one paragraph a mark starts in.
  `RowsInv` is that every table stays under the group of its sheet while the arenas grow.
- **TextProofs**, redaction: `NothingRemainsWhenDone`, `OnlyOccurrences`, `RefusalHasCause`
  and `AddressedGone`. `Ordered` is what no stage has touched yet, `Checked` what each check
  that was passed still guarantees at the later stages (the first theorem); `CleanByStage`
  is that after a rewrite without a failure a piece without glyphs of its own occurs in no
  text the stage has rewritten, and `TypedByStage` the same of what typed events say, so
  that neither check then finds one (the third). The fourth is in two halves: what a span
  addresses, counted in the document, is covered by the pieces the span resolves to
  (clipped at paragraphs, trimmed of space), and what a piece covers is a glyph after the
  rewrite, if none failed (`GoneByStage`). Lemmas on `Masked` carry all four.
- **TextProofs**, marks: `MarksToldOnce`, `SpansAreTrue`, `TextLiesBetween`, and types, for
  any number of marks that nest, cross or enclose each other in a text of any length,
  nameless boundaries anywhere; they speak of the marks in `Clear`.
  `Once` ties what was told to what is open and to what was met: a mark that was told is
  not open, and is told before its end was met only by `finish`. `Followed` is what is known
  of each mark while everything could be read: it is open from its own start (`OpenRight`)
  with the text since then (`Width`, and `stray` for what offsets do not count), or its
  boundary waits for its name (`Waits`), and then no other mark in `Clear` does. From it each
  event is true when it is told, and stays so because a mark told of changes no more
  (`TellsTrue`).
- **ExtractionProofs**, the walk: `NumbersInOrder`, `RefusalsReported`, `ScannedBeforeSent`,
  `SelectionFilters`, and types, for any document, selection, failures of the office core
  and refusals.
  `CountsSent` is that a counter is the number of events of its kind that were sent, as
  long as the collector has kept no refusal to itself. `Known` is which refusals a walk that
  goes on may have behind it (marks' only, and then the collector knows), and
  `EarlyIsUnmarked` that no mark is offered before the body, so that the walk that ends
  without a body has none behind it.
  `ScanTellsAll` is that a scan without a warning has shown, or is about to, whatever any
  walk could tell of the elements behind it; a later walk, which fails otherwise, tells of
  each element no more than that.
  `Filtering` is the loop invariant of the selection, as long as nothing failed and no event
  was refused: of each selected kind, what was sent or waits is what the document holds at
  the places the walk has passed, and a comment of a text is out if and only if it was met,
  or the sweep has been (`ToldSoFar`); and what was sent and what waits is in turn
  (`InOrder`). It is kept because what an element is read for is what the document holds
  there (`MineIsHeld`), an element tells no kind twice but its mark (`TellsIs`), and a stage
  that is skipped or over has nothing left of a selected kind (`HeldIsWanted`,
  `NothingLeft`): the table of wanted parts forgets none.
- **ExtractionProofs**, the column grid: types, `EdgesOfARowStayApart` and
  `ColumnsFollowThePage`, for any table, separators that coincide included, and any order
  of equal edges. `Frontier` is that merged edges are in the order of their positions,
  `LastLine` that the last line began at `start` and has an edge of each of `rows`.
  `CellsSideBySide` and `WideTablesAlign` are about the cells: those of a row lie side by
  side, on the grid or by their names, but for rows whose separators coincide
  (`Misplaced`), and what a table without narrow columns aligns on the page is aligned in
  its columns. `WideInv` is that such a table has one line for each position, `CellsInv`
  what each way of placing the cells has placed. By their names a cell reaches to the
  least name after it, which there is because `<` is well-founded.

Type correctness is proved where a `...TypeCorrect` is listed, which is of every
component, so the runs do not repeat it; so are `SlotsBounded`, `WorkDirsHoldSlots`,
`AnsweredOnce`, `CancelledRunDeliversNothing`, `BuffersBounded`, `Absorbed`,
`RefusedSendsNothing`, `StagedBriefly`, `EventOrder` and `NothingRemains`, which TLC finds
to hold under the same configurations.

Only model-checked: all liveness (TLAPS does not do fairness or ENABLED). Every safety
property of a passing run is stated by a theorem.

## Findings

Each is shown by a violation run and quoted in `PROJECT.json`.

- *Bug*, `PagePipelineFailure`: the encoder thread fails and ends without a notification.
  If the painter sleeps on a full queue, nothing wakes it; the worker hangs until the
  parent's deadline kills it, instead of reporting the failure.
- *Bug*, `RedactionPartial`: a rewrite of one segment that fails is only warned of, on the
  ground that the verify walk will find what is left. When the rest of the occurrence lies
  in another segment and was rewritten, there is no occurrence any more: both checks pass,
  and the part that stayed is painted and sent.

Seen while modelling, each a place where the code and a comment or document disagree:
- `on_frame` blocks inside the loop that watches the deadline (`worker_runner.cpp:318`), so
  the deadline does not cover a client that stops reading; `worker_runner.h:31-32` says it
  covers the whole run.
- Of a boundary without its field the comment says that it closes "the most recent open
  comment" (`uno_extract.cpp:1023-1024`). The code closes the last of a map ordered by name,
  which may be the one opened first; both are then told with an offset of the other.
- A request whose `page_format` lost the pair still turns on vector output
  (`render_service.cpp:173`): after one that says PNG, or only a quality, a later SVG makes
  every page vector graphics. `office_service.proto:176-177` has the format resolve as one
  pair with the quality, and line 201 has an unset `vector_format` follow the format.
- Without any candidate password an encrypted document exits as a load failure
  (`lok_engine.cpp:437`), though `lok_engine.h:119-121` includes that case in
  `kExitPasswordRequired`.
- After a refusal of a mark's event "the walks should unwind" (`uno_extract.cpp:916`); only
  the body and the controls of the draw page look. Notes, indexes, headers, frames and
  shapes walk on and offer further events; the walk still ends in failure
  (`RefusalReported`).
- Form fields in footnotes, headers, frames and shapes are told only when those parts are
  selected too, because the sweep at the end has no list of them; comments are swept up,
  and so come in an order that depends on the selection (`SelectionOnlyFilters` says so).
- Columns of two rows that end at the same place may differ when one of them has edges
  closer than the tolerance (`Aligned` of `TableGrid`).

Seen while reading, and not settled by a run: a mark that starts exactly at the end of a
paragraph with text gets no place (`resolve_doc_span`), which `AnchorsPlaced` states as the
code has it; a mark whose properties throw after it was noted as seen is told by nobody,
only warned of; duplicated bookmark starts close the bookmark; the late "SVG export failed"
text is overwritten by a generic one.

## Not modelled, and why

- What the office core does inside a call, pixels, geometry, fonts, and what a typed event
  carries besides its kind, place and number: data without control, read call by call from
  a library.
- The byte level of `FrameReader` (units here), of the passwords file and of `options.pb`.
- Page rectangles and filters before painting (`PagePipeline` has only the range).
- `PdfChunkSink`. Of redaction: which properties and shapes make up each family of text,
  the kinds of embedded models, nesting limits, and refusals by region. `RenderWorker` keeps
  its own coarse regions, so that leaks can be related to events and exit codes.
- An upload that stalls in `Read` (the call's own deadline is all that ends it), pipe ends
  inherited by a sibling worker between `pipe` and `fork`, the clamps from twips to pixels,
  work directories left by a server that died, and two calls that wait for one slot, where a
  notification may wake the wrong one (every wait is timed, so it delays the other by one
  poll): hazards that no property covers.
- Page images, page styles, metadata and named ranges in the mapper.
- The GIF palette; `main.cpp`; service info and health; the demo front end; scripts.

## Plan

Next, in order of what would hurt most if wrong:

1. `PdfChunkSink` and `FrameReader` at byte level, one checked against the other as the two
   ends of a stream; `PasswordFile` as a round trip.
2. `PageSelection`: which pages are painted and in which size, including the clamps.
3. `RenderCall`: a call end to end, composed of `RenderService` and `WorkerRun`, as the
   refinement of what the protocol file promises a client.
4. `WorkerPipes`: two threads that fork at the same time and the descriptors that leak.
5. `Shutdown` of the server; then the front end's mapping of one request to one call.
