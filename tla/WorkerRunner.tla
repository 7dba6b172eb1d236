---------------------------- MODULE WorkerRunner ----------------------------
(***************************************************************************)
(* run_worker and finish (src/src/worker_runner.cpp): one thread feeds the *)
(* upload to a worker process and drains its event frames, both over       *)
(* nonblocking pipes, under a deadline and the caller's cancellation, and  *)
(* then reaps the process. The worker is an adversary within its contract  *)
(* (src/src/worker_main.cpp): it reads its whole stdin before it emits, it *)
(* exits 0 only after its last frame, and it may die, hang, or close its   *)
(* stdout and live on at any moment.                                       *)
(*                                                                         *)
(* Bytes travel in units: the upload is UploadSize units, and a frame is a *)
(* header unit and a payload unit, so a read can end inside a frame.       *)
(***************************************************************************)
EXTENDS Integers, Sequences

CONSTANTS UploadSize,   \* units of stdin_bytes
          StdinRoom,    \* capacity of the worker's stdin pipe
          StdoutRoom,   \* capacity of its stdout pipe
          Frames,       \* frames of the complete response
          Batch         \* reads per wake-up (16 in the code)

ASSUME RunAssumption == /\ UploadSize \in Nat
                        /\ StdinRoom \in Nat \ {0}
                        /\ StdoutRoom \in Nat \ {0}
                        /\ Frames \in Nat \ {0}
                        /\ Batch \in Nat \ {0}

VARIABLES
  pc,          \* where the thread is in run_worker or finish
  input,       \* whether the parent's input_fd is open
  output,      \* whether the parent's output_fd is open
  written,     \* units of the upload written
  revents,     \* the ends the last poll found ready
  reads,       \* batch: reads since that poll
  lateReads,   \* history: reads since the deadline elapsed
  midFrame,    \* FrameReader: a header is in, its payload is not
  delivered,   \* frames on_frame has accepted
  verdict,     \* the kind finish was called with
  forced,      \* finish killed a worker that outlived the reap grace
  outcome,     \* the kind run_worker returned
  faulted,     \* a system call of the parent failed
  deadline,    \* the deadline has elapsed
  cancelled,   \* cancelled() would say true
  proc,        \* the worker process
  code,        \* how it ended
  stdin,       \* units in the stdin pipe
  stdinOpen,   \* whether the worker still has its stdin
  stdout,      \* units in the stdout pipe
  stdoutOpen,  \* whether the worker still has its stdout
  consumed,    \* units the worker has read
  emitted,     \* units the worker has written
  killed       \* SIGKILL sent

parentVars == <<pc, input, output, written, revents, reads, lateReads, midFrame,
                delivered, verdict, forced, outcome, faulted>>
clientVars == <<deadline, cancelled>>
workerVars == <<proc, code, stdinOpen, stdoutOpen, consumed, emitted>>
pipeVars == <<stdin, stdout>>
vars == <<parentVars, clientVars, workerVars, pipeVars, killed>>

Codes == {"ok", "load", "password", "repair", "tmpfs", "redaction", "other", "signal"}

Unexpected(c) == "kCrash"

\* finish: what a worker that ended by itself is reported as.
KindOf(c) == CASE c = "ok"        -> "kOk"
               [] c = "load"      -> "kLoadFailure"
               [] c = "password"  -> "kPasswordRequired"
               [] c = "repair"    -> "kRepairNeedsOptIn"
               [] c = "tmpfs"     -> "kWorkDirNotTmpfs"
               [] c = "redaction" -> "kRedactionRefused"
               [] OTHER           -> Unexpected(c)

Init == /\ pc = "start"
        /\ input = FALSE /\ output = FALSE
        /\ written = 0 /\ revents = {} /\ reads = 0 /\ lateReads = 0
        /\ midFrame = FALSE /\ delivered = 0
        /\ verdict = "none" /\ forced = FALSE /\ outcome = "none"
        /\ faulted = FALSE
        /\ deadline = FALSE /\ cancelled = FALSE
        /\ proc = "none" /\ code = "none"
        /\ stdin = 0 /\ stdinOpen = FALSE
        /\ stdout = <<>> /\ stdoutOpen = FALSE
        /\ consumed = 0 /\ emitted = 0
        /\ killed = FALSE

----------------------------------------------------------------------------
(* The parent *)

(***************************************************************************)
(* stop: both ends are closed, and finish begins, killing first or not.    *)
(***************************************************************************)
Stop(kill, kind) ==
  /\ input' = FALSE
  /\ output' = FALSE
  /\ killed' = (killed \/ kill)
  /\ verdict' = kind
  /\ pc' = "reap"

Goto(step) == pc' = step /\ UNCHANGED <<input, output, killed, verdict>>

\* Pipes, fork, the child's descriptors, the parent's nonblocking ends; an
\* empty upload is closed at once.
Start ==
  /\ pc = "start"
  /\ \/ /\ proc' = "running" /\ stdinOpen' = TRUE /\ stdoutOpen' = TRUE
        /\ input' = (UploadSize > 0)
        /\ output' = TRUE
        /\ pc' = "loop"
        /\ UNCHANGED <<verdict, outcome, faulted, killed>>
     \/ /\ proc' = "running" /\ stdinOpen' = TRUE /\ stdoutOpen' = TRUE
        /\ faulted' = TRUE
        /\ Stop(TRUE, "kCrash")
        /\ UNCHANGED outcome
     \/ /\ faulted' = TRUE
        /\ outcome' = "kCrash"
        /\ pc' = "done"
        /\ UNCHANGED <<proc, stdinOpen, stdoutOpen, input, output, verdict, killed>>
  /\ UNCHANGED <<written, revents, reads, lateReads, midFrame, delivered, forced, clientVars,
                 code, consumed, emitted, pipeVars>>

CallerGone == cancelled

\* The top of the loop: the deadline, then the caller's cancellation.
Check ==
  /\ pc = "loop"
  /\ \/ deadline /\ Stop(TRUE, "kTimeout")
     \/ ~deadline /\ CallerGone /\ Stop(TRUE, "kCancelled")
     \/ ~deadline /\ ~CallerGone /\ Goto("poll")
  /\ UNCHANGED <<written, revents, reads, lateReads, midFrame, delivered, forced, outcome,
                 faulted, clientVars, workerVars, pipeVars>>

\* A pipe end is ready when there is something to transfer or the other end
\* is closed.
Ready ==
  {e \in {"in", "out"} :
     \/ e = "in" /\ input /\ (stdin < StdinRoom \/ ~stdinOpen)
     \/ e = "out" /\ (stdout # <<>> \/ ~stdoutOpen)}

\* poll returns: with what is ready, with nothing after kCancelPoll or an
\* interrupt, or with an error.
Poll ==
  /\ pc = "poll"
  /\ \/ /\ Ready # {}
        /\ revents' = Ready
        /\ reads' = 0
        /\ Goto(IF "in" \in Ready THEN "feed" ELSE "drain")
        /\ UNCHANGED faulted
     \/ /\ Ready = {}
        /\ Goto("loop")
        /\ UNCHANGED <<faulted, revents, reads>>
     \/ /\ faulted' = TRUE
        /\ Stop(TRUE, "kCrash")
        /\ UNCHANGED <<revents, reads>>
  /\ UNCHANGED <<written, lateReads, midFrame, delivered, forced, outcome,
                 clientVars, workerVars, pipeVars>>

\* What follows the feeding: the batch of reads, if poll saw output.
AfterFeed == IF "out" \in revents THEN "drain" ELSE "loop"

\* Mutant: the write end stays open when the upload is all written.
InputKept(done) == input
InputAfter(done) == input /\ ~done

\* Mutant: EPIPE is an error like any other.
BrokenPipeCrashes ==
  /\ Stop(TRUE, "kCrash")
  /\ UNCHANGED <<written, stdin, faulted>>

\* EPIPE: the worker stopped reading; its exit status tells the story.
BrokenPipe ==
  /\ written' = UploadSize
  /\ input' = InputAfter(TRUE)
  /\ pc' = AfterFeed
  /\ UNCHANGED <<output, killed, verdict, stdin, faulted>>

\* The write loop: until the pipe is full or the upload is all written.
Feed ==
  /\ pc = "feed"
  /\ \/ /\ stdinOpen
        /\ LET room == StdinRoom - stdin
               left == UploadSize - written
               n == IF left < room THEN left ELSE room
           IN  /\ stdin' = stdin + n
               /\ written' = written + n
               /\ input' = InputAfter(n = left)
        /\ pc' = AfterFeed
        /\ UNCHANGED <<output, killed, verdict, faulted>>
     \/ /\ ~stdinOpen
        /\ BrokenPipe
     \/ /\ faulted' = TRUE
        /\ Stop(TRUE, "kCrash")
        /\ UNCHANGED <<written, stdin>>
  /\ UNCHANGED <<revents, reads, lateReads, midFrame, delivered, forced, outcome,
                 clientVars, workerVars, stdout>>

\* End of file: inside a frame the stream is torn, between frames it ended.
EndOfStream == \/ midFrame /\ Stop(TRUE, "kCrash")
               \/ ~midFrame /\ Stop(FALSE, "kOk")

NeverOver(n) == FALSE   \* mutant: it reads on while there is output
BatchOver(n) == n = Batch

AfterRead(n) == IF BatchOver(n) THEN "loop" ELSE "drain"

\* What FrameReader::feed makes of the unit just read.
Parse(unit) ==
  \/ unit = "header" /\ midFrame' = TRUE /\ Goto(AfterRead(reads + 1))
  \/ unit = "payload" /\ Goto("callback") /\ UNCHANGED midFrame
  \/ unit = "oversize" /\ Stop(TRUE, "kCrash") /\ UNCHANGED midFrame

\* One read of the batch, of one unit: nothing there, a unit, or an error.
Drain ==
  /\ pc = "drain"
  /\ \/ /\ stdout = <<>>
        /\ \/ stdoutOpen /\ Goto("loop")
           \/ ~stdoutOpen /\ EndOfStream
        /\ UNCHANGED <<reads, lateReads, midFrame, stdout, faulted>>
     \/ /\ stdout # <<>>
        /\ stdout' = Tail(stdout)
        /\ reads' = reads + 1
        /\ lateReads' = IF deadline THEN lateReads + 1 ELSE lateReads
        /\ Parse(Head(stdout))
        /\ UNCHANGED faulted
     \/ /\ faulted' = TRUE
        /\ Stop(TRUE, "kCrash")
        /\ UNCHANGED <<reads, lateReads, midFrame, stdout>>
  /\ UNCHANGED <<written, revents, delivered, forced, outcome, clientVars,
                 workerVars, stdin>>

\* on_frame returns: the consumer accepts the frame or declines it.
Callback ==
  /\ pc = "callback"
  /\ midFrame' = FALSE
  /\ \/ /\ delivered' = delivered + 1
        /\ Goto(AfterRead(reads))
     \/ /\ Stop(TRUE, "kAborted")
        /\ UNCHANGED delivered
  /\ UNCHANGED <<written, revents, reads, lateReads, forced, outcome, faulted, clientVars,
                 workerVars, pipeVars>>

\* Mutant: the end of the stream is taken for the worker's success.
TrustStream == IF forced THEN "kCrash" ELSE verdict

\* finish: what the run is reported as once the worker is reaped.
Report == IF verdict # "kOk" THEN verdict
          ELSE IF forced THEN "kCrash" ELSE KindOf(code)

\* waitpid returns the worker.
Reap ==
  /\ pc = "reap"
  /\ proc = "exited"
  /\ proc' = "reaped"
  /\ outcome' = Report
  /\ pc' = "done"
  /\ UNCHANGED <<input, output, written, revents, reads, lateReads, midFrame, delivered,
                 verdict, forced, faulted, clientVars, code, stdinOpen, stdoutOpen,
                 consumed, emitted, pipeVars, killed>>

\* Mutant: finish gives up on a worker that outlives the grace.
LeaveRunning ==
  /\ pc = "reap"
  /\ ~forced
  /\ outcome' = "kCrash"
  /\ pc' = "done"
  /\ UNCHANGED <<input, output, written, revents, reads, lateReads, midFrame, delivered,
                 verdict, forced, faulted, clientVars, workerVars, pipeVars, killed>>

\* Mutant: it waits for the worker without killing it.
GraceWithoutKill ==
  /\ pc = "reap"
  /\ ~forced
  /\ forced' = TRUE
  /\ UNCHANGED <<pc, input, output, written, revents, reads, lateReads, midFrame,
                 delivered, verdict, outcome, faulted, clientVars, workerVars,
                 pipeVars, killed>>

\* kReapGrace passes with the worker still there: it is killed, and waitpid
\* now waits for as long as that takes.
GraceElapses ==
  /\ pc = "reap"
  /\ ~forced
  /\ forced' = TRUE
  /\ killed' = TRUE
  /\ UNCHANGED <<pc, input, output, written, revents, reads, lateReads, midFrame, delivered,
                 verdict, outcome, faulted, clientVars, workerVars, pipeVars>>

----------------------------------------------------------------------------
(* The worker *)

Alive == proc = "running"

WorkerReads ==
  /\ Alive
  /\ stdinOpen
  /\ stdin > 0
  /\ stdin' = stdin - 1
  /\ consumed' = consumed + 1
  /\ UNCHANGED <<parentVars, clientVars, proc, code, stdinOpen, stdoutOpen, emitted,
                 stdout, killed>>

SawEndOfUpload == stdin = 0 /\ ~input
MidEmission == emitted % 2 = 1

\* The next unit of a frame, or the header of one above the bound. A write
\* with the parent's end closed fails, and the worker then exits.
WorkerWrites ==
  /\ Alive
  /\ stdoutOpen
  /\ output
  /\ SawEndOfUpload
  /\ emitted < 2 * Frames
  /\ Len(stdout) < StdoutRoom
  /\ \E unit \in IF MidEmission THEN {"payload"} ELSE {"header", "oversize"} :
       stdout' = Append(stdout, unit)
  /\ emitted' = emitted + 1
  /\ UNCHANGED <<parentVars, clientVars, proc, code, stdinOpen, stdoutOpen, consumed,
                 stdin, killed>>

WorkerCloses ==
  /\ Alive
  /\ stdoutOpen
  /\ stdoutOpen' = FALSE
  /\ UNCHANGED <<parentVars, clientVars, proc, code, stdinOpen, consumed, emitted,
                 pipeVars, killed>>

\* Process exit closes its ends of both pipes; what it wrote stays readable.
Ends(how) ==
  /\ proc' = "exited"
  /\ code' = how
  /\ stdinOpen' = FALSE
  /\ stdoutOpen' = FALSE
  /\ UNCHANGED <<parentVars, clientVars, consumed, emitted, pipeVars, killed>>

WorkerCompletes == Alive /\ emitted = 2 * Frames /\ Ends("ok")
WorkerFails == Alive /\ \E how \in Codes \ {"ok"} : Ends(how)
KillArrives == Alive /\ killed /\ Ends("signal")

----------------------------------------------------------------------------
(* The caller and the clock *)

DeadlineElapses ==
  /\ pc # "start"
  /\ ~deadline
  /\ deadline' = TRUE
  /\ UNCHANGED <<parentVars, cancelled, workerVars, pipeVars, killed>>

CallerCancels ==
  /\ ~cancelled
  /\ cancelled' = TRUE
  /\ UNCHANGED <<parentVars, deadline, workerVars, pipeVars, killed>>

Returned == pc = "done" /\ UNCHANGED vars

Thread == Start \/ Check \/ Poll \/ Feed \/ Drain \/ Reap \/ GraceElapses
Healthy == WorkerReads \/ WorkerWrites \/ WorkerCompletes

Next == \/ Thread \/ Callback
        \/ Healthy \/ WorkerCloses \/ WorkerFails \/ KillArrives
        \/ DeadlineElapses \/ CallerCancels
        \/ Returned

Spec == Init /\ [][Next]_vars

\* The thread runs, its poll and its grace time out, and SIGKILL kills. The
\* worker is under no obligation, and neither is the consumer.
FairSpec == Spec /\ WF_vars(Thread) /\ WF_vars(KillArrives)

----------------------------------------------------------------------------
(* Properties *)

Kinds == {"kOk", "kLoadFailure", "kPasswordRequired", "kRepairNeedsOptIn",
          "kWorkDirNotTmpfs", "kRedactionRefused", "kTimeout", "kAborted",
          "kCancelled", "kCrash"}

Steps == {"start", "loop", "poll", "feed", "drain", "callback", "reap", "done"}
Units == {"header", "payload", "oversize"}

PlacesTyped == /\ pc \in Steps
               /\ revents \subseteq {"in", "out"}
               /\ proc \in {"none", "running", "exited", "reaped"}
               /\ code \in Codes \cup {"none"}
               /\ verdict \in Kinds \cup {"none"}
               /\ outcome \in Kinds \cup {"none"}

FlagsTyped == /\ input \in BOOLEAN /\ output \in BOOLEAN
              /\ midFrame \in BOOLEAN /\ forced \in BOOLEAN
              /\ faulted \in BOOLEAN /\ killed \in BOOLEAN
              /\ deadline \in BOOLEAN /\ cancelled \in BOOLEAN
              /\ stdinOpen \in BOOLEAN /\ stdoutOpen \in BOOLEAN

CountsTyped == /\ written \in 0..UploadSize
               /\ stdin \in 0..StdinRoom
               /\ reads \in Nat /\ lateReads \in Nat
               /\ delivered \in Nat
               /\ consumed \in Nat /\ emitted \in Nat

StreamTyped == stdout \in Seq(Units)

\* Every variable stays within its type, the outcome within the kinds.
TypeOK == PlacesTyped /\ FlagsTyped /\ CountsTyped /\ StreamTyped

\* kOk means what worker_runner.h says it means: exit 0, and every frame of
\* the response, the terminal status included, handed to the consumer.
OkMeansComplete ==
  outcome = "kOk" => code = "ok" /\ delivered = Frames /\ ~midFrame

\* A worker that ends by itself, its upload read or not, is reported by its
\* exit status: unless the run was stopped for another reason, a refusal
\* never turns into a crash because the upload could not be written.
EarlyExitTold ==
  (/\ pc = "done"
   /\ code \in Codes \ {"signal", "other"}
   /\ verdict = "kCrash")
     => faulted \/ midFrame \/ emitted > 2 * delivered

\* After the deadline the worker's output is read for one batch at most, so
\* output that never pauses does not keep the deadline from being seen.
LateReadsBounded == lateReads <= Batch

\* A run whose caller was gone before it started hands over no frame.
CancelledRunDeliversNothing ==
  [](cancelled /\ pc = "start" => [](delivered = 0))

\* With a worker that reads, writes and exits as it should and a consumer
\* that takes the frames, a run ends without the deadline: the worker sees
\* the end of its upload, and neither side waits for the other.
HealthyRunEnds ==
  (/\ WF_vars(Healthy) /\ WF_vars(Callback)
   /\ []~deadline /\ []~cancelled) => <>(pc = "done")

\* Whatever the worker does, a run ends once its deadline has elapsed,
\* provided that the consumer returns from each frame it is handed.
RunEnds == WF_vars(Callback) => (deadline ~> pc = "done")

\* The run as its caller sees it: module WorkerRun's promise.
Run == INSTANCE WorkerRun WITH
         phase <- IF pc = "done" THEN "over"
                  ELSE IF pc = "start" THEN "idle" ELSE "live",
         worker <- proc \in {"running", "exited"},
         frames <- delivered,
         kind <- outcome

KeepsPromise == Run!Spec
=============================================================================
