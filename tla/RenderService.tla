--------------------------- MODULE RenderService ---------------------------
(***************************************************************************)
(* The request path of RenderServiceImpl::render                           *)
(* (src/src/render_service.cpp), as run by any number of concurrent gRPC   *)
(* calls: the upload loop that counts every byte against a server-wide     *)
(* buffer, validation, the wait for a render slot, the tmpfs work dir, the *)
(* worker run, the mapping of its outcome to a status, and the destructors *)
(* that unwind all of it in reverse order.                                 *)
(*                                                                         *)
(* Document bytes are sizes; the fields a request carries are abstracted   *)
(* to whether validation accepts them. The worker run is one step with any *)
(* outcome here; module WorkerRunner opens it up.                          *)
(***************************************************************************)
EXTENDS Integers, FiniteSets, Functions

CONSTANTS Calls,          \* the calls the server handles, one thread each
          MaxSlots,       \* config_.max_concurrent_documents
          MaxDocBytes,    \* config_.max_document_bytes
          ConfiguredCap,  \* max_buffered_upload_bytes as configured, 0 if not
          ChunkSizes      \* sizes of the chunks a client may send

ASSUME LimitsAssumption == /\ IsFiniteSet(Calls)
                           /\ MaxSlots \in Nat \ {0}
                           /\ MaxDocBytes \in Nat \ {0}
                           /\ ConfiguredCap \in Nat
                           /\ ChunkSizes \subseteq Nat

(***************************************************************************)
(* The constructor's normalisation: an unset cap is one document per slot, *)
(* and no cap is smaller than one document.                                *)
(***************************************************************************)
UploadCap ==
  LET asked == IF ConfiguredCap <= 0 THEN MaxDocBytes * MaxSlots ELSE ConfiguredCap
  IN  IF asked < MaxDocBytes THEN MaxDocBytes ELSE asked

VARIABLES
  pc,          \* where each call's thread is in render()
  bytes,       \* bytes.size(): the upload bytes the call holds in memory
  reserved,    \* UploadReservation::reserved_
  chunk,       \* the size of the chunk being added, 0 between requests
  loaded,      \* current: the counter as add() last loaded it
  complete,    \* saw_complete
  held,        \* SlotGuard::held_
  needs,       \* the files the worker of this call must find in its work dir
  staged,      \* the files written whole
  status,      \* the status returned, "none" before
  cancelled,   \* calls whose client went away
  expired,     \* calls whose own deadline has passed
  buffered,    \* buffered_upload_bytes
  busy,        \* busy_slots_
  workDirs,    \* calls whose work dir is on the tmpfs
  undeleted,   \* history: calls whose work dir the file system kept
  answers      \* the rendered, rejected and failed counters

callVars == <<bytes, reserved, chunk, loaded, complete, held, needs, staged>>
environment == <<cancelled, expired>>
dirs == <<workDirs, undeleted>>
shared == <<buffered, busy, dirs>>
vars == <<pc, callVars, status, environment, shared, answers>>

Steps == {"idle", "reading", "reserve", "append", "acquire", "asleep", "mkdir",
          "stage", "launch", "running", "rmdir", "release", "free", "unreserve",
          "done"}
Codes == {"OK", "INVALID_ARGUMENT", "RESOURCE_EXHAUSTED", "UNIMPLEMENTED",
          "FAILED_PRECONDITION", "DEADLINE_EXCEEDED", "CANCELLED", "INTERNAL"}
Counters == {"rendered", "rejected", "failed"}
Files == {"options", "passwords"}

CancelledAnswer == <<"failed", "CANCELLED">>

(***************************************************************************)
(* The counter and the status each worker outcome is answered with.        *)
(* "malformed" is the run that stopped because the worker's frame did not  *)
(* parse, which is told apart from a consumer that declined the frame.     *)
(***************************************************************************)
Answer == [kOk              |-> <<"rendered", "OK">>,
           kLoadFailure     |-> <<"rejected", "INVALID_ARGUMENT">>,
           kPasswordRequired|-> <<"rejected", "INVALID_ARGUMENT">>,
           kRepairNeedsOptIn|-> <<"rejected", "FAILED_PRECONDITION">>,
           kWorkDirNotTmpfs |-> <<"failed", "FAILED_PRECONDITION">>,
           kRedactionRefused|-> <<"rejected", "FAILED_PRECONDITION">>,
           kTimeout         |-> <<"failed", "DEADLINE_EXCEEDED">>,
           kAborted         |-> CancelledAnswer,
           kCancelled       |-> CancelledAnswer,
           kCrash           |-> <<"failed", "INTERNAL">>,
           malformed        |-> <<"failed", "INTERNAL">>]

Init == /\ pc = [c \in Calls |-> "idle"]
        /\ bytes = [c \in Calls |-> 0]
        /\ reserved = [c \in Calls |-> 0]
        /\ chunk = [c \in Calls |-> 0]
        /\ loaded = [c \in Calls |-> 0]
        /\ complete = [c \in Calls |-> FALSE]
        /\ held = [c \in Calls |-> FALSE]
        /\ needs = [c \in Calls |-> {}]
        /\ staged = [c \in Calls |-> {}]
        /\ status = [c \in Calls |-> "none"]
        /\ cancelled = {}
        /\ expired = {}
        /\ buffered = 0
        /\ busy = 0
        /\ workDirs = {}
        /\ undeleted = {}
        /\ answers = [k \in Counters |-> 0]

Goto(c, step) == pc' = [pc EXCEPT ![c] = step]

(***************************************************************************)
(* A return statement: one counter moves, the status is fixed, and the     *)
(* destructors of what the call has built so far run, from step on.        *)
(***************************************************************************)
Return(c, counter, code, step) ==
  /\ answers' = [answers EXCEPT ![counter] = @ + 1]
  /\ status' = [status EXCEPT ![c] = code]
  /\ Goto(c, step)

Reject(c, code, step) == Return(c, "rejected", code, step)
Fail(c, code, step) == Return(c, "failed", code, step)
NoAnswer == UNCHANGED <<status, answers>>

----------------------------------------------------------------------------
(* The upload *)

\* read_passwords bounds the candidates before any byte is buffered.
Begin(c) ==
  /\ pc[c] = "idle"
  /\ \/ \E files \in {{"options"}, Files} :
          /\ needs' = [needs EXCEPT ![c] = files]
          /\ Goto(c, "reading")
          /\ NoAnswer
     \/ /\ Reject(c, "INVALID_ARGUMENT", "free")
        /\ UNCHANGED needs
  /\ UNCHANGED <<bytes, reserved, chunk, loaded, complete, held, staged,
                 environment, shared>>

\* in->Read, the per-document bound, and add()'s first load of the counter.
ReadChunk(c) ==
  /\ pc[c] = "reading"
  /\ \E size \in ChunkSizes :
       \/ /\ bytes[c] + size > MaxDocBytes
          /\ Reject(c, "RESOURCE_EXHAUSTED", "free")
          /\ UNCHANGED <<chunk, loaded>>
       \/ /\ bytes[c] + size <= MaxDocBytes
          /\ chunk' = [chunk EXCEPT ![c] = size]
          /\ loaded' = [loaded EXCEPT ![c] = buffered]
          /\ Goto(c, "reserve")
          /\ NoAnswer
  /\ UNCHANGED <<bytes, reserved, complete, held, needs, staged, environment, shared>>

OverCap(c) == loaded[c] + chunk[c] > UploadCap

\* What compare_exchange_weak compares.
PlainAdd(c) == TRUE   \* mutant: the counter is added to without comparing
CounterStillAsLoaded(c) == buffered = loaded[c]

\* One turn of UploadReservation::add's compare-exchange loop. Its local
\* copy of the counter goes out of scope when it returns.
Reserve(c) ==
  /\ pc[c] = "reserve"
  /\ \/ /\ OverCap(c)
        /\ Reject(c, "RESOURCE_EXHAUSTED", "free")
        /\ loaded' = [loaded EXCEPT ![c] = 0]
        /\ UNCHANGED <<buffered, reserved>>
     \/ /\ ~OverCap(c)
        /\ CounterStillAsLoaded(c)
        /\ buffered' = buffered + chunk[c]
        /\ reserved' = [reserved EXCEPT ![c] = @ + chunk[c]]
        /\ loaded' = [loaded EXCEPT ![c] = 0]
        /\ Goto(c, "append")
        /\ NoAnswer
     \/ /\ ~OverCap(c)
        /\ ~CounterStillAsLoaded(c)
        /\ loaded' = [loaded EXCEPT ![c] = buffered]
        /\ NoAnswer
        /\ UNCHANGED <<pc, buffered, reserved>>
  /\ UNCHANGED <<bytes, chunk, complete, held, needs, staged, environment,
                 busy, dirs>>

\* The chunk joins the buffer, marked as the last one or not; a PDF is
\* refused as soon as it shows.
Append(c) ==
  /\ pc[c] = "append"
  /\ bytes' = [bytes EXCEPT ![c] = @ + chunk[c]]
  /\ chunk' = [chunk EXCEPT ![c] = 0]
  /\ \E last \in BOOLEAN : complete' = [complete EXCEPT ![c] = @ \/ last]
  /\ \/ Goto(c, "reading") /\ NoAnswer
     \/ Reject(c, "UNIMPLEMENTED", "free")   \* names_pdf, or a PDF signature
  /\ UNCHANGED <<reserved, loaded, held, needs, staged, environment, shared>>

\* Read returns false: the client half-closed or went away. Validation follows.
EndUpload(c) ==
  /\ pc[c] = "reading"
  /\ \/ Reject(c, "INVALID_ARGUMENT", "free")   \* any field out of range
     \/ /\ bytes[c] > 0
        /\ complete[c]
        /\ Goto(c, "acquire")
        /\ NoAnswer
  /\ UNCHANGED <<callVars, environment, shared>>

----------------------------------------------------------------------------
(* The render slot *)

SlotFree == busy < MaxSlots

\* One turn of SlotGuard::acquire's loop, the slots mutex held. The probes
\* run only while no slot is free.
Acquire(c) ==
  /\ pc[c] = "acquire"
  /\ \/ /\ SlotFree
        /\ busy' = busy + 1
        /\ held' = [held EXCEPT ![c] = TRUE]
        /\ Goto(c, "mkdir")
        /\ NoAnswer
     \/ /\ ~SlotFree
        /\ \/ c \in cancelled /\ Reject(c, "CANCELLED", "free")
           \/ c \in expired \ cancelled /\ Reject(c, "DEADLINE_EXCEEDED", "free")
           \/ c \notin cancelled \cup expired /\ Goto(c, "asleep") /\ NoAnswer
        /\ UNCHANGED <<busy, held>>
  /\ UNCHANGED <<bytes, reserved, chunk, loaded, complete, needs, staged,
                 environment, buffered, dirs>>

\* Mutant: an untimed wait, which only a free slot ends.
WakeWhenFree(c) ==
  /\ pc[c] = "asleep"
  /\ SlotFree
  /\ Goto(c, "acquire")
  /\ UNCHANGED <<callVars, status, environment, shared, answers>>

\* wait_for returns: kSlotPoll has passed (a notification only hastens it).
Wake(c) ==
  /\ pc[c] = "asleep"
  /\ Goto(c, "acquire")
  /\ UNCHANGED <<callVars, status, environment, shared, answers>>

----------------------------------------------------------------------------
(* The render *)

\* ScopedWorkDir's constructor.
MakeWorkDir(c) ==
  /\ pc[c] = "mkdir"
  /\ \/ /\ workDirs' = workDirs \cup {c}
        /\ Goto(c, "stage")
        /\ NoAnswer
     \/ /\ Fail(c, "INTERNAL", "release")
        /\ UNCHANGED workDirs
  /\ UNCHANGED <<callVars, environment, buffered, busy, undeleted>>

OptionsWhole(c, written) == "options" \in written   \* mutant: only the first checked
AllWhole(c, written) == written = needs[c]

\* options.pb, then the passwords file when the call carries any; a write
\* that does not reach the tmpfs whole fails the call.
Stage(c) ==
  /\ pc[c] = "stage"
  /\ \E written \in {{}, {"options"}, needs[c]} :
       /\ staged' = [staged EXCEPT ![c] = written]
       /\ IF AllWhole(c, written)
          THEN Goto(c, "launch") /\ NoAnswer
          ELSE Fail(c, "INTERNAL", "rmdir")
  /\ UNCHANGED <<bytes, reserved, chunk, loaded, complete, held, needs,
                 environment, shared>>

\* The caller's own deadline caps the worker's; none left, no worker.
Launch(c) ==
  /\ pc[c] = "launch"
  /\ IF c \in expired THEN Reject(c, "DEADLINE_EXCEEDED", "rmdir")
     ELSE Goto(c, "running") /\ NoAnswer
  /\ UNCHANGED <<callVars, environment, shared>>

\* run_worker returns, its worker reaped; the outcome becomes the answer.
Finish(c) ==
  /\ pc[c] = "running"
  /\ \E kind \in DOMAIN Answer :
       /\ kind = "kCancelled" => c \in cancelled
       /\ Return(c, Answer[kind][1], Answer[kind][2], "rmdir")
  /\ UNCHANGED <<callVars, environment, shared>>

----------------------------------------------------------------------------
(* The destructors, innermost first *)

DirsWithout(c) == workDirs \ {c}

\* ~ScopedWorkDir, which ignores what remove_all reports.
RemoveWorkDir(c) ==
  /\ pc[c] = "rmdir"
  /\ \/ workDirs' = DirsWithout(c) /\ UNCHANGED undeleted
     \/ undeleted' = undeleted \cup {c} /\ UNCHANGED workDirs
  /\ staged' = [staged EXCEPT ![c] = {}]
  /\ Goto(c, "release")
  /\ UNCHANGED <<bytes, reserved, chunk, loaded, complete, held, needs, status,
                 environment, buffered, busy, answers>>

SlotLeaked == busy   \* mutant: the slot is never given back
BusyWithoutOne == busy - 1

\* ~SlotGuard, the notification included: it wakes one waiter, if any sleeps.
ReleaseSlot(c) ==
  /\ pc[c] = "release"
  /\ busy' = BusyWithoutOne
  /\ held' = [held EXCEPT ![c] = FALSE]
  /\ LET asleep == {w \in Calls : pc[w] = "asleep"}
     IN  \/ asleep = {} /\ Goto(c, "free")
         \/ \E w \in asleep : pc' = [pc EXCEPT ![c] = "free", ![w] = "acquire"]
  /\ UNCHANGED <<bytes, reserved, chunk, loaded, complete, needs, staged, status,
                 environment, buffered, dirs, answers>>

FreeBytes(c) ==
  /\ pc[c] = "free"
  /\ bytes' = [bytes EXCEPT ![c] = 0]
  /\ chunk' = [chunk EXCEPT ![c] = 0]
  /\ complete' = [complete EXCEPT ![c] = FALSE]
  /\ needs' = [needs EXCEPT ![c] = {}]
  /\ Goto(c, "unreserve")
  /\ UNCHANGED <<reserved, loaded, held, staged, status, environment, shared,
                 answers>>

BytesStillHeld(c) == bytes[c]   \* mutant: bytes is already empty by then
Counted(c) == reserved[c]

\* ~UploadReservation
Unreserve(c) ==
  /\ pc[c] = "unreserve"
  /\ buffered' = buffered - Counted(c)
  /\ reserved' = [reserved EXCEPT ![c] = 0]
  /\ Goto(c, "done")
  /\ UNCHANGED <<bytes, chunk, loaded, complete, held, needs, staged, status,
                 environment, busy, dirs, answers>>

----------------------------------------------------------------------------
(* The clients and the clock *)

InFlight(c) == pc[c] \notin {"idle", "done"}

\* Neither is looked at again once the call is answered.
Unanswered(c) == InFlight(c) /\ status[c] = "none"

Cancel(c) ==
  /\ Unanswered(c)
  /\ c \notin cancelled
  /\ cancelled' = cancelled \cup {c}
  /\ UNCHANGED <<pc, callVars, status, expired, shared, answers>>

Expire(c) ==
  /\ Unanswered(c)
  /\ c \notin expired
  /\ expired' = expired \cup {c}
  /\ UNCHANGED <<pc, callVars, status, cancelled, shared, answers>>

AllDone == (\A c \in Calls : pc[c] = "done") /\ UNCHANGED vars

Upload(c) == ReadChunk(c) \/ Reserve(c) \/ Append(c) \/ EndUpload(c)
Wait(c) == Acquire(c) \/ Wake(c)
Render(c) == MakeWorkDir(c) \/ Stage(c) \/ Launch(c) \/ Finish(c)
Unwind(c) == RemoveWorkDir(c) \/ ReleaseSlot(c) \/ FreeBytes(c) \/ Unreserve(c)

Next == \/ \E c \in Calls : \/ Begin(c) \/ Upload(c) \/ Wait(c)
                            \/ Render(c) \/ Unwind(c)
                            \/ Cancel(c) \/ Expire(c)
        \/ AllDone

Spec == Init /\ [][Next]_vars

\* Only the waiting loop is fair: every render may be stuck for ever.
WaiterSpec == Spec /\ \A c \in Calls : WF_vars(Wait(c))

\* What else UploadedCallEnds assumes: the threads keep running, and a worker
\* run ends, because run_worker has a deadline of its own (WorkerRunner).
RendersEnd == \A c \in Calls : WF_vars(Render(c) \/ Unwind(c))

----------------------------------------------------------------------------
(* Properties *)

\* Every variable stays within its type.
TypeOK == /\ pc \in [Calls -> Steps]
          /\ bytes \in [Calls -> Nat]
          /\ reserved \in [Calls -> Nat]
          /\ chunk \in [Calls -> Nat]
          /\ loaded \in [Calls -> Int]
          /\ complete \in [Calls -> BOOLEAN]
          /\ held \in [Calls -> BOOLEAN]
          /\ needs \in [Calls -> SUBSET Files]
          /\ staged \in [Calls -> SUBSET Files]
          /\ status \in [Calls -> Codes \cup {"none"}]
          /\ cancelled \subseteq Calls
          /\ expired \subseteq Calls
          /\ buffered \in Int
          /\ busy \in Int
          /\ workDirs \subseteq Calls
          /\ undeleted \subseteq Calls
          /\ answers \in [Counters -> Nat]

Holders == {c \in Calls : held[c]}

\* busy_slots_ counts the calls that hold a slot, never more than the
\* configured number, so no more workers run at once.
SlotsBounded == busy = Cardinality(Holders) /\ busy <= MaxSlots

\* No call holds a byte it has not counted, so the bytes really in memory
\* are within the cap too, while an upload runs and while it unwinds.
BytesCounted == \A c \in Calls : bytes[c] <= reserved[c]

\* The server-wide buffer counter is the sum of the live reservations,
\* however the compare-exchange loops interleave, and each covers its bytes.
BufferExact == buffered = SumFunction(reserved) /\ BytesCounted

\* It never passes the cap, whichever calls grow it at the same time.
BufferCapped == buffered <= UploadCap

\* A work dir exists only under a held slot, unless the file system refused to
\* remove it: the tmpfs has to hold no more documents than there are slots.
WorkDirsHoldSlots == workDirs \subseteq Holders \cup undeleted

\* A worker starts only with every file its call depends on written whole;
\* options.pb carries the redaction spans, which must not get lost.
WorkerBriefed ==
  \A c \in Calls : pc[c] = "running" => c \in workDirs /\ staged[c] = needs[c]

\* rendered, rejected and failed together count each answered call once,
\* and rendered counts the calls answered OK.
AnsweredOnce ==
  LET Having(S) == {c \in Calls : status[c] \in S}
  IN  /\ answers["rendered"] + answers["rejected"] + answers["failed"]
           = Cardinality(Having(Codes))
      /\ answers["rendered"] = Cardinality(Having({"OK"}))

\* When no call is in flight, whatever way each one ended, the server holds
\* no byte, no slot and no work dir but those the file system kept.
NothingLeftBehind ==
  (\A c \in Calls : ~InFlight(c)) =>
    buffered = 0 /\ busy = 0 /\ workDirs \subseteq undeleted

\* A caller that cancelled, or whose deadline passed, stops waiting for a
\* slot even when every slot is held for ever.
GoneWaiterLeaves ==
  \A c \in Calls :
    (pc[c] \in {"acquire", "asleep"} /\ c \in cancelled \cup expired)
      ~> pc[c] \notin {"acquire", "asleep"}

\* A call whose upload has ended is answered and fully unwound, provided
\* that the worker runs of the calls ahead of it end.
UploadedCallEnds ==
  RendersEnd => \A c \in Calls : pc[c] = "acquire" ~> pc[c] = "done"
=============================================================================
