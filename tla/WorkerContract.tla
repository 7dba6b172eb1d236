--------------------------- MODULE WorkerContract ---------------------------
(***************************************************************************)
(* What the server may rely on of the worker process at the other end of   *)
(* its pipes, and what module WorkerRunner assumes of it: the worker takes *)
(* in its whole upload before it sends an event, it sends nothing after    *)
(* the event that completes the response, and it exits 0 only then.        *)
(***************************************************************************)
EXTENDS Naturals

VARIABLES received,   \* whether the worker has the whole upload
          events,     \* how many events it has sent
          complete,   \* whether the last of them was the terminal status
          exit        \* how the process ended, "none" before

vars == <<received, events, complete, exit>>

Codes == {"ok", "load", "password", "repair", "tmpfs", "redaction", "render", "signal"}

Init == received = FALSE /\ events = 0 /\ complete = FALSE /\ exit = "none"

Receive ==
  /\ exit = "none"
  /\ ~received
  /\ received' = TRUE
  /\ UNCHANGED <<events, complete, exit>>

Send ==
  /\ exit = "none"
  /\ received /\ ~complete
  /\ events' = events + 1
  /\ complete' \in BOOLEAN
  /\ UNCHANGED <<received, exit>>

\* A response that is complete is followed by exit 0, unless the process dies.
End ==
  /\ exit = "none"
  /\ exit' \in (IF complete THEN {"ok", "signal"} ELSE Codes \ {"ok"})
  /\ UNCHANGED <<received, events, complete>>

Next == Receive \/ Send \/ End

Spec == Init /\ [][Next]_vars
=============================================================================
