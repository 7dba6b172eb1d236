----------------------------- MODULE WorkerRun -----------------------------
(***************************************************************************)
(* What run_worker (src/src/worker_runner.h) promises its caller, with no  *)
(* pipe, poll or signal in sight: one worker lives from the start of the   *)
(* run until before its end, frames are handed over only in between, and   *)
(* an outcome of kOk says that the response was handed over completely.    *)
(***************************************************************************)
EXTENDS Naturals

CONSTANT Frames   \* the frames of the complete response, its status last

VARIABLES phase,      \* "idle", "live" or "over"
          worker,     \* whether a worker process exists
          frames,     \* the frames the consumer has accepted
          kind        \* WorkerOutcome::Kind, "none" before the end

vars == <<phase, worker, frames, kind>>

Kinds == {"kOk", "kLoadFailure", "kPasswordRequired", "kRepairNeedsOptIn",
          "kWorkDirNotTmpfs", "kRedactionRefused", "kTimeout", "kAborted",
          "kCancelled", "kCrash"}

Init == phase = "idle" /\ worker = FALSE /\ frames = 0 /\ kind = "none"

Start ==
  /\ phase = "idle"
  /\ phase' = "live"
  /\ worker' = TRUE
  /\ UNCHANGED <<frames, kind>>

Deliver ==
  /\ phase = "live"
  /\ worker
  /\ frames' = frames + 1
  /\ UNCHANGED <<phase, worker, kind>>

\* The run ends with its worker gone; a run that never got one has crashed.
End ==
  /\ phase # "over"
  /\ phase' = "over"
  /\ worker' = FALSE
  /\ kind' \in Kinds
  /\ phase = "idle" => kind' = "kCrash"
  /\ kind' = "kOk" => frames = Frames
  /\ UNCHANGED frames

Next == Start \/ Deliver \/ End

Spec == Init /\ [][Next]_vars
=============================================================================
