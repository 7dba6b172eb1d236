------------------------- MODULE WorkerRunnerProofs -------------------------
(***************************************************************************)
(* WorkerRunner for an upload, pipes, a response and a batch of any size:  *)
(* what a run reports, how long it reads past its deadline, and that it    *)
(* keeps the promise of module WorkerRun.                                  *)
(***************************************************************************)
EXTENDS WorkerRunner, TLAPS

USE DEF Goto, Stop

----------------------------------------------------------------------------
(* Types *)

\* What finish reports is always one of the kinds.
LEMMA ReportTyped ==
  ASSUME verdict \in Kinds PROVE Report \in Kinds
BY DEF Report, KindOf, Unexpected, Kinds

\* A verdict is a kind from the moment the run is stopped.
Places == PlacesTyped /\ (pc = "reap" => verdict \in Kinds)

\* Where the thread and the worker are stays within its types.
LEMMA PlacesStep == ASSUME Places, [Next]_vars PROVE Places'
<1> USE DEF Places, PlacesTyped, Kinds, Codes, Steps
<1>1. CASE UNCHANGED <<pc, revents, proc, code, verdict, outcome>>
  BY <1>1
<1>2. CASE Start
  BY <1>2 DEF Start, clientVars, pipeVars
<1>3. CASE Check
  BY <1>3 DEF Check, clientVars, workerVars, pipeVars
<1>4. CASE Poll
  <2>1. Ready \subseteq {"in", "out"}
    BY DEF Ready
  <2>2. UNCHANGED <<proc, code, outcome>>
    BY <1>4 DEF Poll, workerVars
  <2>3. revents' \in {revents, Ready}
    BY <1>4 DEF Poll
  <2>4. \/ pc' \in {"feed", "drain", "loop"} /\ UNCHANGED verdict
        \/ pc' = "reap" /\ verdict' = "kCrash"
    BY <1>4 DEF Poll
  <2> QED
    BY <2>1, <2>2, <2>3, <2>4
<1>5. CASE Feed
  <2>1. AfterFeed \in Steps
    BY DEF AfterFeed
  <2>2. UNCHANGED <<revents, proc, code, outcome>>
    BY <1>5 DEF Feed, workerVars
  <2>3. \/ pc' = AfterFeed /\ UNCHANGED verdict
        \/ pc' = "reap" /\ verdict' = "kCrash"
    BY <1>5 DEF Feed, BrokenPipe
  <2>4. AfterFeed # "reap"
    BY DEF AfterFeed
  <2> QED
    BY <2>1, <2>2, <2>3, <2>4
<1>6. CASE Drain
  BY <1>6 DEF Drain, EndOfStream, Parse, AfterRead, clientVars, workerVars
<1>7. CASE Callback
  BY <1>7 DEF Callback, AfterRead, clientVars, workerVars, pipeVars
<1>8. CASE Reap
  BY <1>8, ReportTyped DEF Reap, clientVars, pipeVars
<1>9. CASE GraceElapses
  BY <1>9 DEF GraceElapses, clientVars, workerVars, pipeVars
<1>10. CASE WorkerReads \/ WorkerWrites \/ WorkerCloses
  BY <1>1, <1>10 DEF WorkerReads, WorkerWrites, WorkerCloses, parentVars
<1>11. CASE WorkerCompletes \/ WorkerFails \/ KillArrives
  <2>1. UNCHANGED <<pc, revents, verdict, outcome>>
    BY <1>11 DEF WorkerCompletes, WorkerFails, KillArrives, Ends, parentVars
  <2>2. proc' = "exited" /\ code' \in Codes
    BY <1>11 DEF WorkerCompletes, WorkerFails, KillArrives, Ends
  <2> QED
    BY <2>1, <2>2
<1>12. CASE DeadlineElapses \/ CallerCancels
  BY <1>1, <1>12 DEF DeadlineElapses, CallerCancels, parentVars, workerVars
<1> QED
  BY <1>1, <1>2, <1>3, <1>4, <1>5, <1>6, <1>7, <1>8, <1>9, <1>10, <1>11, <1>12
     DEF Next, Thread, Healthy, Returned, vars, parentVars, workerVars

\* The counters stay within their types, the pipe within its capacity.
LEMMA CountsStep == ASSUME CountsTyped, [Next]_vars PROVE CountsTyped'
<1> USE RunAssumption DEF CountsTyped
<1>1. CASE UNCHANGED <<written, stdin, reads, lateReads, delivered, consumed, emitted>>
  BY <1>1
<1>2. CASE Start \/ Check
  BY <1>1, <1>2 DEF Start, Check, workerVars, pipeVars
<1>3. CASE Poll
  BY <1>3 DEF Poll, workerVars, pipeVars
<1>4. CASE Feed
  <2>1. UNCHANGED <<reads, lateReads, delivered, consumed, emitted>>
    BY <1>4 DEF Feed, workerVars
  <2>2. CASE UNCHANGED <<written, stdin>>
    BY <2>1, <2>2
  <2>3. CASE written' = UploadSize /\ UNCHANGED stdin
    BY <2>1, <2>3
  <2>4. ASSUME NEW n \in 0..(UploadSize - written), n <= StdinRoom - stdin,
               written' = written + n, stdin' = stdin + n
        PROVE  CountsTyped'
    BY <2>1, <2>4
  <2>5. CASE stdinOpen /\ ~UNCHANGED <<written, stdin>>
    <3> DEFINE room == StdinRoom - stdin
               left == UploadSize - written
               n == IF left < room THEN left ELSE room
    <3>1. n \in 0..left /\ n <= room
      OBVIOUS
    <3>2. written' = written + n /\ stdin' = stdin + n
      BY <1>4, <2>5 DEF Feed
    <3> QED
      BY <2>4, <3>1, <3>2
  <2> QED
    BY <1>4, <2>2, <2>3, <2>5 DEF Feed, BrokenPipe
<1>5. CASE Drain
  BY <1>5 DEF Drain, workerVars
<1>6. CASE Callback
  BY <1>6 DEF Callback, workerVars, pipeVars
<1>7. CASE Reap \/ GraceElapses
  BY <1>1, <1>7 DEF Reap, GraceElapses, workerVars, pipeVars
<1>8. CASE WorkerReads
  BY <1>8 DEF WorkerReads, parentVars
<1>9. CASE WorkerWrites
  BY <1>9 DEF WorkerWrites, parentVars
<1>10. CASE WorkerCloses \/ WorkerCompletes \/ WorkerFails \/ KillArrives
  BY <1>1, <1>10 DEF WorkerCloses, WorkerCompletes, WorkerFails, KillArrives, Ends,
     parentVars, pipeVars
<1>11. CASE DeadlineElapses \/ CallerCancels
  BY <1>1, <1>11 DEF DeadlineElapses, CallerCancels, parentVars, workerVars, pipeVars
<1> QED
  BY <1>1, <1>2, <1>3, <1>4, <1>5, <1>6, <1>7, <1>8, <1>9, <1>10, <1>11
     DEF Next, Thread, Healthy, Returned, vars, parentVars, workerVars, pipeVars

\* The flags stay flags.
LEMMA FlagsStep == ASSUME FlagsTyped, [Next]_vars PROVE FlagsTyped'
<1> USE DEF FlagsTyped
<1>1. CASE UNCHANGED <<input, output, midFrame, forced, faulted, killed, deadline,
                       cancelled, stdinOpen, stdoutOpen>>
  BY <1>1
<1>2. CASE Start
  <2>1. UNCHANGED <<midFrame, forced, deadline, cancelled>>
    BY <1>2 DEF Start, clientVars
  <2>2. input' \in BOOLEAN
    <3>1. (UploadSize > 0) \in BOOLEAN
      BY RunAssumption, SMT
    <3> QED
      BY <1>2, <3>1, Zenon DEF Start
  <2>3. output' \in BOOLEAN /\ faulted' \in BOOLEAN
    BY <1>2, Zenon DEF Start
  <2>4. killed' \in BOOLEAN
    BY <1>2, Zenon DEF Start
  <2>5. stdinOpen' \in BOOLEAN /\ stdoutOpen' \in BOOLEAN
    BY <1>2, Zenon DEF Start
  <2> QED
    BY <2>1, <2>2, <2>3, <2>4, <2>5, Zenon
<1>3. CASE Check
  BY <1>3, Zenon DEF Check, clientVars, workerVars
<1>4. CASE Poll
  BY <1>4, Zenon DEF Poll, clientVars, workerVars
<1>5. CASE Feed
  BY <1>5, Zenon DEF Feed, BrokenPipe, InputAfter, clientVars, workerVars
<1>6. CASE Drain
  BY <1>6, Zenon DEF Drain, EndOfStream, Parse, clientVars, workerVars
<1>7. CASE Callback
  BY <1>7, Zenon DEF Callback, clientVars, workerVars
<1>8. CASE Reap \/ GraceElapses
  BY <1>8, Zenon DEF Reap, GraceElapses, clientVars, workerVars
<1>9. CASE WorkerReads \/ WorkerWrites
  BY <1>1, <1>9 DEF WorkerReads, WorkerWrites, parentVars, clientVars
<1>10. CASE WorkerCloses \/ WorkerCompletes \/ WorkerFails \/ KillArrives
  <2>1. UNCHANGED <<input, output, midFrame, forced, faulted, killed, deadline, cancelled>>
    BY <1>10 DEF WorkerCloses, WorkerCompletes, WorkerFails, KillArrives, Ends,
                 parentVars, clientVars
  <2>2. stdinOpen' \in {stdinOpen, FALSE} /\ stdoutOpen' = FALSE
    BY <1>10 DEF WorkerCloses, WorkerCompletes, WorkerFails, KillArrives, Ends
  <2> QED
    BY <2>1, <2>2, Zenon
<1>11. CASE DeadlineElapses \/ CallerCancels
  BY <1>11, Zenon DEF DeadlineElapses, CallerCancels, parentVars, workerVars
<1> QED
  BY <1>1, <1>2, <1>3, <1>4, <1>5, <1>6, <1>7, <1>8, <1>9, <1>10, <1>11
     DEF Next, Thread, Healthy, Returned, vars, parentVars, clientVars, workerVars

\* What travels is a stream of units.
LEMMA StreamStep == ASSUME StreamTyped, [Next]_vars PROVE StreamTyped'
<1> USE DEF StreamTyped, Units
<1>1. CASE UNCHANGED stdout
  BY <1>1
<1>2. CASE Drain
  BY <1>2 DEF Drain
<1>3. CASE WorkerWrites
  BY <1>3 DEF WorkerWrites
<1> QED
  BY <1>1, <1>2, <1>3
     DEF Next, Thread, Healthy, Returned, vars, pipeVars, Start, Check, Poll, Feed,
         Callback, Reap, GraceElapses, WorkerReads, WorkerCloses, WorkerCompletes,
         WorkerFails, KillArrives, Ends, DeadlineElapses, CallerCancels

\* Every variable stays within its type, the outcome within the kinds.
THEOREM TypeCorrect == Spec => []TypeOK
<1>1. Init => Places /\ FlagsTyped /\ CountsTyped /\ StreamTyped
  <2> SUFFICES ASSUME Init PROVE Places /\ FlagsTyped /\ CountsTyped /\ StreamTyped
    OBVIOUS
  <2>1. Places
    BY DEF Init, Places, PlacesTyped, Steps
  <2>2. FlagsTyped
    BY DEF Init, FlagsTyped
  <2>3. CountsTyped
    BY RunAssumption DEF Init, CountsTyped
  <2>4. StreamTyped
    BY DEF Init, StreamTyped
  <2> QED
    BY <2>1, <2>2, <2>3, <2>4
<1>2. Spec => [](Places /\ FlagsTyped /\ CountsTyped /\ StreamTyped)
  BY <1>1, PlacesStep, FlagsStep, CountsStep, StreamStep, PTL DEF Spec
<1> QED
  BY <1>2, PTL DEF TypeOK, Places

----------------------------------------------------------------------------
(* What a run reports *)

LiveSteps == {"loop", "poll", "feed", "drain", "callback"}

\* The verdict is fixed when the run is stopped, and a run stopped for the
\* end of its stream has read all of it.
Verdicts ==
  /\ pc \in {"start"} \cup LiveSteps => verdict = "none"
  /\ pc = "reap" => verdict # "none"
  /\ pc \in {"start", "reap", "done"} => ~output
  /\ pc = "start" => proc = "none"
  /\ pc \in LiveSteps \cup {"reap"} => proc \in {"running", "exited"}
  /\ verdict = "kOk" => stdout = <<>> /\ ~midFrame /\ pc \in {"reap", "done"}
  /\ code = "ok" => emitted = 2 * Frames /\ proc \in {"exited", "reaped"}
  /\ outcome = "kOk" => verdict = "kOk" /\ code = "ok"

\* Every step keeps the verdict, the worker and its exit code in line.
LEMMA VerdictsStep == ASSUME TypeOK, Verdicts, [Next]_vars PROVE Verdicts'
<1> USE DEF Verdicts, LiveSteps
<1>1. CASE UNCHANGED vars
  BY <1>1 DEF vars, parentVars, workerVars, pipeVars
<1>2. CASE Start
  BY <1>2 DEF Start, pipeVars
<1>3. CASE Check
  BY <1>3 DEF Check, workerVars, pipeVars
<1>4. CASE Poll
  BY <1>4 DEF Poll, workerVars, pipeVars
<1>5. CASE Feed
  BY <1>5 DEF Feed, AfterFeed, BrokenPipe, workerVars
<1>6. CASE Drain
  <2>1. UNCHANGED <<outcome, code, proc, emitted>> /\ pc = "drain"
    BY <1>6 DEF Drain, workerVars
  <2>2. CASE stdout = <<>> /\ Goto("loop") /\ UNCHANGED <<midFrame, stdout>>
    BY <2>1, <2>2
  <2>3. CASE stdout = <<>> /\ EndOfStream /\ UNCHANGED <<midFrame, stdout>>
    BY <2>1, <2>3 DEF EndOfStream
  <2>4. CASE stdout # <<>> /\ Parse(Head(stdout))
    BY <2>1, <2>4 DEF Parse, AfterRead
  <2>5. CASE Stop(TRUE, "kCrash")
    BY <2>1, <2>5
  <2> QED
    BY <1>6, <2>2, <2>3, <2>4, <2>5 DEF Drain
<1>7. CASE Callback
  BY <1>7 DEF Callback, AfterRead, workerVars, pipeVars
<1>8. CASE Reap
  BY <1>8 DEF Reap, Report, KindOf, Unexpected, pipeVars
<1>9. CASE GraceElapses
  BY <1>9 DEF GraceElapses, workerVars, pipeVars
<1>10. CASE WorkerReads \/ WorkerWrites \/ WorkerCloses
  BY <1>10 DEF WorkerReads, WorkerWrites, WorkerCloses, Alive, parentVars, pipeVars
<1>11. CASE WorkerCompletes \/ WorkerFails \/ KillArrives
  BY <1>11 DEF WorkerCompletes, WorkerFails, KillArrives, Ends, Alive, parentVars, pipeVars
<1>12. CASE DeadlineElapses \/ CallerCancels
  BY <1>12 DEF DeadlineElapses, CallerCancels, parentVars, workerVars, pipeVars
<1> QED
  BY <1>1, <1>2, <1>3, <1>4, <1>5, <1>6, <1>7, <1>8, <1>9, <1>10, <1>11, <1>12
     DEF Next, Thread, Healthy, Returned

\* The units taken off the stream: two a frame, and the frame being read.
Taken == 2 * delivered + (IF midFrame THEN 1 ELSE 0) + (IF pc = "callback" THEN 1 ELSE 0)

\* Every unit the worker wrote is in the pipe or was taken off it, until the
\* run is given up; units alternate, so the parser is never out of step.
Flow ==
  /\ verdict \notin {"kCrash", "kAborted"} => emitted = Len(stdout) + Taken
  /\ pc = "callback" => midFrame
  /\ verdict = "kCrash" => faulted \/ midFrame \/ emitted > 2 * delivered
  /\ \A i \in 1..Len(stdout) :
       stdout[i] = "payload" <=> (emitted - Len(stdout) + i) % 2 = 0

\* Every step keeps the account of where the emitted units are.
LEMMA FlowStep == ASSUME TypeOK, Verdicts, Flow, [Next]_vars PROVE Flow'
<1> USE DEF Flow, Taken
<1>0. /\ emitted \in Nat /\ delivered \in Nat /\ midFrame \in BOOLEAN
      /\ stdout \in Seq(Units) /\ Len(stdout) \in Nat
  BY DEF TypeOK, CountsTyped, FlagsTyped, StreamTyped
<1>1. CASE UNCHANGED <<pc, verdict, stdout, delivered, midFrame, faulted, emitted>>
  BY <1>1
<1>2. CASE /\ UNCHANGED <<stdout, delivered, midFrame, faulted, emitted, verdict>>
           /\ pc # "callback" /\ pc' # "callback"
  BY <1>2
<1>3. CASE /\ UNCHANGED <<stdout, delivered, midFrame, emitted>>
           /\ pc # "callback" /\ verdict \notin {"kCrash", "kAborted"}
           /\ pc' = "reap"
           /\ \/ verdict' \in {"kOk", "kTimeout", "kCancelled"} /\ UNCHANGED faulted
              \/ verdict' = "kCrash" /\ (faulted' \/ midFrame)
  BY <1>0, <1>3
<1>4. CASE Start
  BY <1>2, <1>3, <1>4 DEF Start, Verdicts, pipeVars, LiveSteps
<1>5. CASE Check
  BY <1>2, <1>3, <1>5 DEF Check, Verdicts, workerVars, pipeVars, LiveSteps
<1>6. CASE Poll
  BY <1>2, <1>3, <1>6 DEF Poll, Verdicts, workerVars, pipeVars, LiveSteps
<1>7. CASE Feed
  BY <1>2, <1>3, <1>7 DEF Feed, AfterFeed, BrokenPipe, Verdicts, workerVars, LiveSteps
<1>8. CASE Drain
  <2>1. pc = "drain" /\ verdict = "none" /\ UNCHANGED <<delivered, emitted>>
    BY <1>8 DEF Drain, Verdicts, LiveSteps, workerVars
  <2>2. CASE UNCHANGED <<midFrame, stdout>> /\ (Goto("loop") /\ UNCHANGED faulted)
    BY <1>2, <2>1, <2>2
  <2>3. CASE UNCHANGED <<midFrame, stdout, faulted>> /\ EndOfStream
    BY <1>3, <2>1, <2>3 DEF EndOfStream
  <2>4. CASE UNCHANGED <<midFrame, stdout>> /\ faulted' = TRUE /\ Stop(TRUE, "kCrash")
    BY <1>3, <2>1, <2>4
  <2>5. CASE stdout # <<>> /\ stdout' = Tail(stdout) /\ Parse(Head(stdout)) /\ UNCHANGED faulted
    <3>1. /\ Len(stdout) \in Nat \ {0}
          /\ Len(stdout') = Len(stdout) - 1
          /\ \A i \in 1..Len(stdout') : stdout'[i] = stdout[i + 1]
      BY <1>0, <2>5
    <3>2. \A i \in 1..Len(stdout') :
            stdout'[i] = "payload" <=> (emitted' - Len(stdout') + i) % 2 = 0
      <4> TAKE i \in 1..Len(stdout')
      <4>1. i + 1 \in 1..Len(stdout)
        BY <3>1
      <4>2. emitted' - Len(stdout') + i = emitted - Len(stdout) + (i + 1)
        BY <1>0, <2>1, <3>1
      <4> QED
        BY <3>1, <4>1, <4>2
    <3>3. stdout[1] = "payload" <=> (emitted - Len(stdout) + 1) % 2 = 0
      BY <3>1
    <3>4. Head(stdout) = "payload" <=> midFrame
      <4>1. Head(stdout) = stdout[1]
        BY <1>0, <2>5
      <4>2. CASE midFrame
        <5>1. emitted - Len(stdout) + 1 = 2 * (delivered + 1)
          BY <1>0, <2>1, <4>2
        <5>2. (emitted - Len(stdout) + 1) % 2 = 0
          BY <1>0, <5>1
        <5> QED
          BY <3>3, <4>1, <4>2, <5>2
      <4>3. CASE ~midFrame
        <5>1. emitted - Len(stdout) + 1 = 2 * delivered + 1
          BY <1>0, <2>1, <4>3
        <5>2. (emitted - Len(stdout) + 1) % 2 # 0
          BY <1>0, <5>1
        <5> QED
          BY <3>3, <4>1, <4>3, <5>2
      <4> QED
        BY <4>2, <4>3
    <3>5. CASE Head(stdout) = "header" /\ midFrame' = TRUE /\ Goto(AfterRead(reads + 1))
      BY <1>0, <2>1, <3>1, <3>2, <3>4, <3>5 DEF AfterRead
    <3>6. CASE Head(stdout) = "payload" /\ Goto("callback") /\ UNCHANGED midFrame
      BY <1>0, <2>1, <3>1, <3>2, <3>4, <3>6
    <3>7. CASE Head(stdout) = "oversize" /\ Stop(TRUE, "kCrash") /\ UNCHANGED midFrame
      BY <1>0, <2>1, <3>1, <3>2, <3>4, <3>7
    <3> QED
      BY <2>5, <3>5, <3>6, <3>7 DEF Parse
  <2> QED
    BY <1>8, <2>2, <2>3, <2>4, <2>5 DEF Drain
<1>9. CASE Callback
  BY <1>0, <1>9 DEF Callback, AfterRead, Verdicts, LiveSteps, workerVars, pipeVars
<1>10. CASE WorkerWrites
  <2>1. PICK unit \in IF MidEmission THEN {"payload"} ELSE {"header", "oversize"} :
          stdout' = Append(stdout, unit)
    BY <1>10 DEF WorkerWrites
  <2>2. /\ Len(stdout') = Len(stdout) + 1
        /\ \A i \in 1..Len(stdout) : stdout'[i] = stdout[i]
        /\ stdout'[Len(stdout) + 1] = unit
    BY <1>0, <2>1
  <2>3. emitted' = emitted + 1 /\ UNCHANGED <<pc, verdict, delivered, midFrame, faulted>>
    BY <1>10 DEF WorkerWrites, parentVars
  <2>4. unit = "payload" <=> emitted % 2 = 1
    BY <2>1 DEF MidEmission
  <2>5. \A i \in 1..Len(stdout') :
          stdout'[i] = "payload" <=> (emitted' - Len(stdout') + i) % 2 = 0
    <3> TAKE i \in 1..Len(stdout')
    <3>1. CASE i \in 1..Len(stdout)
      <4>1. emitted' - Len(stdout') + i = emitted - Len(stdout) + i
        BY <1>0, <2>2, <2>3
      <4> QED
        BY <2>2, <3>1, <4>1
    <3>2. CASE i = Len(stdout) + 1
      <4>1. emitted' - Len(stdout') + i = emitted + 1
        BY <1>0, <2>2, <2>3, <3>2
      <4>2. (emitted + 1) % 2 = 0 <=> emitted % 2 = 1
        BY <1>0
      <4> QED
        BY <2>2, <2>4, <3>2, <4>1, <4>2, Zenon
    <3> QED
      BY <1>0, <2>2, <3>1, <3>2
  <2> QED
    BY <1>0, <2>2, <2>3, <2>5
<1>11. CASE Reap \/ GraceElapses
  BY <1>2, <1>11 DEF Reap, GraceElapses, workerVars, pipeVars
<1>12. CASE WorkerReads \/ WorkerCloses \/ WorkerCompletes \/ WorkerFails \/ KillArrives
  BY <1>1, <1>12 DEF WorkerReads, WorkerCloses, WorkerCompletes, WorkerFails,
     KillArrives, Ends, parentVars, pipeVars
<1>13. CASE DeadlineElapses \/ CallerCancels
  BY <1>1, <1>13 DEF DeadlineElapses, CallerCancels, parentVars, workerVars, pipeVars
<1> QED
  BY <1>1, <1>4, <1>5, <1>6, <1>7, <1>8, <1>9, <1>10, <1>11, <1>12, <1>13
     DEF Next, Thread, Healthy, Returned, vars, parentVars, workerVars, pipeVars

\* The two invariants hold in every reachable state.
LEMMA RunInvariant == Spec => [](TypeOK /\ Verdicts /\ Flow)
<1>1. Init => Verdicts
  BY DEF Init, Verdicts, LiveSteps
<1>2. Init => Flow
  BY DEF Init, Flow, Taken
<1> QED
  BY <1>1, <1>2, TypeCorrect, VerdictsStep, FlowStep, PTL DEF Spec

\* kOk means exit 0 and every frame of the response handed over.
THEOREM OkIsComplete == Spec => []OkMeansComplete
<1>1. TypeOK /\ Verdicts /\ Flow => OkMeansComplete
  <2> SUFFICES ASSUME TypeOK, Verdicts, Flow, outcome = "kOk" PROVE OkMeansComplete
    BY DEF OkMeansComplete
  <2>1. verdict = "kOk" /\ code = "ok" /\ stdout = <<>> /\ ~midFrame /\ pc # "callback"
    BY DEF Verdicts
  <2>2. emitted = 2 * Frames /\ emitted = 2 * delivered
    BY <2>1 DEF Verdicts, Flow, Taken, TypeOK, CountsTyped
  <2> QED
    BY <2>1, <2>2, RunAssumption DEF OkMeansComplete, TypeOK, CountsTyped
<1> QED
  BY <1>1, RunInvariant, PTL

\* A worker that ended by itself is reported by its exit status, unless the
\* run was given up for something its frames or the system did.
THEOREM EarlyExitIsTold == Spec => []EarlyExitTold
<1>1. Flow => EarlyExitTold
  BY DEF Flow, EarlyExitTold
<1> QED
  BY <1>1, RunInvariant, PTL

----------------------------------------------------------------------------
(* How long a run goes on *)

\* The deadline is looked at before every poll, so the reads after it are
\* those of the batch it elapsed in: the inductive form of LateReadsBounded.
LateBatch ==
  /\ ~deadline \/ pc \in {"start", "poll", "feed"} => lateReads = 0
  /\ pc = "feed" => reads = 0
  /\ pc = "drain" => lateReads <= reads /\ reads < Batch
  /\ pc = "callback" => lateReads <= reads /\ reads <= Batch
  /\ lateReads <= Batch

\* Every step keeps the reads after the deadline within one batch.
LEMMA LateStep == ASSUME TypeOK, LateBatch, [Next]_vars PROVE LateBatch'
<1> USE RunAssumption DEF LateBatch, TypeOK, CountsTyped
<1>1. CASE UNCHANGED <<pc, reads, lateReads, deadline>>
  BY <1>1
<1>2. CASE Start \/ Check
  BY <1>2 DEF Start, Check, clientVars
<1>3. CASE Poll
  BY <1>3 DEF Poll, clientVars
<1>4. CASE Feed
  BY <1>4 DEF Feed, AfterFeed, BrokenPipe, clientVars
<1>5. CASE Drain
  BY <1>5 DEF Drain, EndOfStream, Parse, AfterRead, BatchOver, clientVars
<1>6. CASE Callback
  BY <1>6 DEF Callback, AfterRead, BatchOver, clientVars
<1>7. CASE Reap \/ GraceElapses
  BY <1>7 DEF Reap, GraceElapses, clientVars
<1>8. CASE WorkerReads \/ WorkerWrites \/ WorkerCloses \/ WorkerCompletes
           \/ WorkerFails \/ KillArrives
  BY <1>1, <1>8 DEF WorkerReads, WorkerWrites, WorkerCloses, WorkerCompletes,
     WorkerFails, KillArrives, Ends, parentVars, clientVars
<1>9. CASE DeadlineElapses
  BY <1>9 DEF DeadlineElapses, parentVars
<1>10. CASE CallerCancels
  BY <1>1, <1>10 DEF CallerCancels, parentVars
<1> QED
  BY <1>1, <1>2, <1>3, <1>4, <1>5, <1>6, <1>7, <1>8, <1>9, <1>10
     DEF Next, Thread, Healthy, Returned, vars, parentVars, clientVars

\* After the deadline at most one batch of output is still read.
THEOREM LateReadsAreBounded == Spec => []LateReadsBounded
<1>1. Init => LateBatch
  BY RunAssumption DEF Init, LateBatch
<1>2. LateBatch => LateReadsBounded
  BY DEF LateBatch, LateReadsBounded
<1> QED
  BY <1>1, <1>2, LateStep, TypeCorrect, PTL DEF Spec

\* A run whose caller was gone before it started hands over no frame.
THEOREM CancelledDeliversNothing == Spec => CancelledRunDeliversNothing
<1> DEFINE Gone == /\ cancelled
                   /\ pc \in {"start", "loop", "reap", "done"}
                   /\ delivered = 0
           Fresh == pc = "start" => delivered = 0
<1>1. Gone /\ [Next]_vars => Gone'
  <2> SUFFICES ASSUME Gone, [Next]_vars PROVE Gone'
    OBVIOUS
  <2>1. CASE UNCHANGED <<pc, cancelled, delivered>>
    BY <2>1
  <2>2. CASE Start
    BY <2>2 DEF Start, clientVars
  <2>3. CASE Check
    BY <2>3 DEF Check, CallerGone, clientVars
  <2>4. CASE Reap \/ GraceElapses
    BY <2>4 DEF Reap, GraceElapses, clientVars
  <2>5. CASE WorkerReads \/ WorkerWrites \/ WorkerCloses \/ WorkerCompletes
             \/ WorkerFails \/ KillArrives
    BY <2>1, <2>5 DEF WorkerReads, WorkerWrites, WorkerCloses, WorkerCompletes,
       WorkerFails, KillArrives, Ends, parentVars, clientVars
  <2>6. CASE DeadlineElapses \/ CallerCancels
    BY <2>6 DEF DeadlineElapses, CallerCancels, parentVars
  <2> QED
    BY <2>1, <2>2, <2>3, <2>4, <2>5, <2>6
       DEF Next, Thread, Healthy, Returned, vars, parentVars, clientVars, Poll, Feed,
           Drain, Callback
<1>2. Fresh /\ [Next]_vars => Fresh'
  <2> SUFFICES ASSUME Fresh, [Next]_vars, pc' = "start" PROVE delivered' = 0
    OBVIOUS
  <2>1. UNCHANGED <<pc, delivered>>
    BY DEF Next, Thread, Healthy, Returned, vars, parentVars, Start, Check, Poll, Feed,
       AfterFeed, BrokenPipe, Drain, EndOfStream, Parse, AfterRead, Callback, Reap,
       GraceElapses, WorkerReads, WorkerWrites, WorkerCloses, WorkerCompletes,
       WorkerFails, KillArrives, Ends, DeadlineElapses, CallerCancels
  <2> QED
    BY <2>1
<1>3. Init => Fresh
  BY DEF Init
<1>4. Fresh /\ cancelled /\ pc = "start" => Gone
  OBVIOUS
<1>5. Gone => delivered = 0
  OBVIOUS
<1> QED
  BY <1>1, <1>2, <1>3, <1>4, <1>5, PTL DEF Spec, CancelledRunDeliversNothing

----------------------------------------------------------------------------
(* The promise *)

\* run_worker implements WorkerRun: each of its steps is a step of the
\* promise, or one the caller does not see.
THEOREM PromiseKept == Spec => KeepsPromise
<1>1. Init => Run!Init
  BY DEF Init, Run!Init
<1>2. TypeOK /\ Verdicts /\ OkMeansComplete' /\ [Next]_vars => [Run!Next]_(Run!vars)
  <2> SUFFICES ASSUME TypeOK, Verdicts, OkMeansComplete', [Next]_vars
               PROVE  Run!Next \/ UNCHANGED Run!vars
    OBVIOUS
  <2> DEFINE Live(p) == p \notin {"start", "done"}
  <2> USE DEF Verdicts, LiveSteps, Run!Next, Run!vars
  <2>1. CASE /\ UNCHANGED <<proc, delivered, outcome>>
             /\ Live(pc) /\ Live(pc')
    BY <2>1
  <2>2. CASE UNCHANGED <<pc, proc, delivered, outcome>>
    BY <2>2
  <2>3. CASE Start
    <3>1. CASE proc' = "running" /\ pc' \in {"loop", "reap"} /\ UNCHANGED outcome
      BY <2>3, <3>1 DEF Start, Run!Start
    <3>2. CASE outcome' = "kCrash" /\ pc' = "done" /\ UNCHANGED proc
      BY <2>3, <3>2 DEF Start, Run!End, Run!Kinds
    <3> QED
      BY <2>3, <3>1, <3>2 DEF Start
  <2>4. CASE Check \/ Poll
    BY <2>1, <2>4 DEF Check, Poll, workerVars
  <2>5. CASE Feed
    BY <2>1, <2>5 DEF Feed, AfterFeed, BrokenPipe, workerVars
  <2>6. CASE Drain
    BY <2>1, <2>6 DEF Drain, EndOfStream, Parse, AfterRead, workerVars
  <2>7. CASE Callback
    <3>1. CASE delivered' = delivered + 1
      BY <2>7, <3>1 DEF Callback, AfterRead, workerVars, Run!Deliver
    <3>2. CASE UNCHANGED delivered
      BY <2>1, <2>7, <3>2 DEF Callback, AfterRead, workerVars
    <3> QED
      BY <2>7, <3>1, <3>2 DEF Callback
  <2>8. CASE Reap
    <3>1. outcome' = "kOk" => delivered' = Frames
      BY DEF OkMeansComplete
    <3>2. outcome' \in Run!Kinds
      BY <2>8, ReportTyped DEF Reap, TypeOK, PlacesTyped, Kinds, Run!Kinds
    <3> QED
      BY <2>8, <3>1, <3>2 DEF Reap, Run!End
  <2>9. CASE GraceElapses
    BY <2>1, <2>9 DEF GraceElapses, workerVars
  <2>10. CASE WorkerReads \/ WorkerWrites \/ WorkerCloses
    BY <2>2, <2>10 DEF WorkerReads, WorkerWrites, WorkerCloses, parentVars
  <2>11. CASE WorkerCompletes \/ WorkerFails \/ KillArrives
    BY <2>11 DEF WorkerCompletes, WorkerFails, KillArrives, Ends, Alive, parentVars
  <2>12. CASE DeadlineElapses \/ CallerCancels
    BY <2>2, <2>12 DEF DeadlineElapses, CallerCancels, parentVars, workerVars
  <2> QED
    BY <2>2, <2>3, <2>4, <2>5, <2>6, <2>7, <2>8, <2>9, <2>10, <2>11, <2>12
       DEF Next, Thread, Healthy, Returned, vars, parentVars, workerVars
<1> QED
  BY <1>1, <1>2, RunInvariant, OkIsComplete, PTL DEF Spec, KeepsPromise, Run!Spec
=============================================================================
