---------------------------- MODULE RenderWorker ----------------------------
(***************************************************************************)
(* The worker process, from its first read to its exit code: main          *)
(* (src/src/worker_main.cpp) stages the upload on the tmpfs, run_render    *)
(* (src/src/lok_engine.cpp) loads it, by up to three attempts, redacts it  *)
(* and emits the events of the response; apply_redaction                   *)
(* (src/src/uno_extract.cpp) refuses what it cannot remove.                *)
(*                                                                         *)
(* The office core is an adversary: each of its calls may fail wherever    *)
(* the code handles a failure. A document is what decides the path: its    *)
(* package, its encryption, and where the text to redact occurs. paint     *)
(* and export are loops that emit; module PagePipeline opens the first up. *)
(***************************************************************************)
EXTENDS Integers, Sequences, SequencesExt

CONSTANTS MaxCandidates,   \* bound: candidate passwords of a call
          MaxEvents        \* bound: events before the terminal status

ASSUME WorkerAssumption == MaxCandidates \in Nat /\ MaxEvents \in Nat

VARIABLES
  request,     \* what the call asked for
  document,    \* what the upload is
  step,        \* where the process is
  files,       \* the files of the work dir that hold secrets or a verdict
  received,    \* stdin is read to its end, into memory
  next,        \* PasswordPrompt::next, the candidates given so far
  asked,       \* PasswordPrompt::asked
  opened,      \* which load attempt succeeded
  secret,      \* what is left of the text to redact, by region
  warned,      \* a rewrite failed, and the status will say so
  leaked,      \* history: what has gone out of it, and from where
  sent,        \* the events emitted whole
  parentGone,  \* nobody reads the worker's stdout any more
  code         \* how the process ended

givens == <<request, document>>
loading == <<next, asked, opened>>
redaction == <<secret, warned>>
output == <<sent, leaked>>
vars == <<givens, step, files, received, loading, redaction, output, parentGone, code>>

(***************************************************************************)
(* Regions by which of the two checks reads them: the verify walk, which   *)
(* goes where the rewrite goes, the typed-content check, both, or neither  *)
(* (the pixels of an image). A rewrite that fails half way leaves a part   *)
(* of an occurrence.                                                       *)
(***************************************************************************)
Regions == {"walked", "typed", "both", "unread"}
VerifyReads == {"walked", "both"}
TypedReads == {"typed", "both"}
Extents == {"none", "part", "whole"}

Left == {r \in Regions : secret[r] # "none"}

Requests == [mode : {"pages", "pdf"}, candidates : 0..MaxCandidates,
             repair : BOOLEAN, redact : BOOLEAN, paint : BOOLEAN]
Documents == [package : {"sound", "broken", "unreadable"}, encrypted : BOOLEAN,
              key : 0..MaxCandidates]   \* the first right candidate, 0 when none is

Codes == {"ok", "load", "password", "repair", "tmpfs", "redaction", "render", "signal"}
Events == {"info", "page", "typed", "chunk", "status"}
Steps == {"options", "passwords", "upload", "tmpfs", "stage", "profile", "load", "prompt",
          "repair", "classify", "unlink", "redact", "verify", "scan", "layout", "info",
          "paint", "typed", "export", "status", "leave", "exited"}

Init ==
  /\ request \in Requests
  /\ document \in Documents
  /\ document.key <= request.candidates
  /\ ~document.encrypted => document.key = 0
  /\ step = "options"
  /\ files = {"options"} \cup (IF request.candidates > 0 THEN {"passwords"} ELSE {})
  /\ received = FALSE
  /\ next = 0 /\ asked = FALSE /\ opened = "none"
  /\ secret \in [Regions -> IF request.redact THEN {"none", "whole"} ELSE {"none"}]
  /\ Left # {} => "both" \in Left   \* spans address paragraphs
  /\ warned = FALSE
  /\ leaked = {} /\ sent = <<>>
  /\ parentGone = FALSE
  /\ code = "none"

Goto(s) == step' = s /\ UNCHANGED code
Exit(c) == step' = "exited" /\ code' = c

\* A step that fails ends the process as kExitRenderFailure.
Try(s) == Goto(s) \/ Exit("render")

----------------------------------------------------------------------------
(* main: start-up and staging *)

\* The service always writes options.pb; without it nothing is rendered.
ReadOptions ==
  /\ step = "options"
  /\ Try("passwords")
  /\ UNCHANGED <<givens, files, received, loading, redaction, output, parentGone>>

\* Unlinked once read, malformed or not.
ReadPasswords ==
  /\ step = "passwords"
  /\ files' = files \ {"passwords"}
  /\ \/ Goto("upload")
     \/ "passwords" \in files /\ Exit("render")
  /\ UNCHANGED <<givens, received, loading, redaction, output, parentGone>>

\* The service refuses an empty upload: stdin is empty only when the parent died.
EmptyUpload == parentGone /\ Exit("load")

\* read_all_stdin, a read error included.
ReadUpload ==
  /\ step = "upload"
  /\ \/ Goto("tmpfs") /\ received' = TRUE
     \/ Exit("render") /\ UNCHANGED received
     \/ EmptyUpload /\ UNCHANGED received
  /\ UNCHANGED <<givens, files, loading, redaction, output, parentGone>>

CheckTmpfs ==
  /\ step = "tmpfs"
  /\ Goto("stage") \/ Exit("tmpfs")
  /\ UNCHANGED <<givens, files, received, loading, redaction, output, parentGone>>

Stage ==
  /\ step = "stage"
  /\ files' = files \cup {"doc"}
  /\ Try("profile")
  /\ UNCHANGED <<givens, received, loading, redaction, output, parentGone>>

\* The profile, its seed, TMPDIR, and the office core itself.
StartCore ==
  /\ step = "profile"
  /\ Try("load")
  /\ UNCHANGED <<givens, files, received, loading, redaction, output, parentGone>>

----------------------------------------------------------------------------
(* run_render: the load attempts *)

Opens(how) == opened' = how /\ Goto("unlink")

RepairAnyway == "repair"   \* mutant: the opt-in is not asked for
AfterRefusal == IF request.repair THEN "repair" ELSE "classify"

\* The first load, with Batch: it never asks for a password.
Load ==
  /\ step = "load"
  /\ LET loads == document.package = "sound" /\ ~document.encrypted
     IN  \/ loads /\ Opens("plain")
         \/ /\ ~loads
            /\ Goto(IF request.candidates > 0 THEN "prompt" ELSE AfterRefusal)
            /\ UNCHANGED opened
  /\ UNCHANGED <<givens, files, received, next, asked, redaction, output, parentGone>>

RightCandidate == next # 0 /\ next = document.key

LastCandidateKept == next + 1 < request.candidates   \* mutant: off by one
CandidatesLeft == next < request.candidates


\* answer_password_request: the next candidate, or no password once they ran
\* out, which fails the load.
Answer ==
  \/ /\ CandidatesLeft
     /\ next' = next + 1
     /\ UNCHANGED <<step, code>>
  \/ /\ ~CandidatesLeft
     /\ Exit("password")
     /\ UNCHANGED next

\* In the second load the core asks until it has the right password.
Ask ==
  /\ step = "prompt"
  /\ document.encrypted /\ document.package # "unreadable"
  /\ ~RightCandidate
  /\ asked' = TRUE
  /\ Answer
  /\ UNCHANGED <<givens, files, received, opened, redaction, output, parentGone>>

\* The second load returns: opened, failed although the password was right,
\* or failed before the core asked for one.
RetryReturns ==
  /\ step = "prompt"
  /\ \/ RightCandidate /\ document.package = "sound" /\ Opens("password")
     \/ RightCandidate /\ document.package # "sound" /\ Exit("password") /\ UNCHANGED opened
     \/ /\ ~asked
        /\ document.encrypted => document.package # "sound"
        /\ Goto(AfterRefusal)
        /\ UNCHANGED opened
  /\ UNCHANGED <<givens, files, received, next, asked, redaction, output, parentGone>>

\* The third load rebuilds a broken package, which may not succeed.
Repair ==
  /\ step = "repair"
  /\ \/ document.package = "broken" /\ ~document.encrypted /\ Opens("repair")
     \/ Goto("classify") /\ UNCHANGED opened
  /\ UNCHANGED <<givens, files, received, next, asked, redaction, output, parentGone>>

\* is_repairable_broken_package, which says no whenever it cannot tell.
Classify ==
  /\ step = "classify"
  /\ \/ document.package = "broken" /\ ~request.repair /\ Exit("repair")
     \/ Exit("load")
  /\ UNCHANGED <<givens, files, received, loading, redaction, output, parentGone>>

WithoutUpload == files \ {"doc"}

Unlink ==
  /\ step = "unlink"
  /\ \/ files' = WithoutUpload /\ Goto("redact")
     \/ Exit("render") /\ UNCHANGED files
  /\ UNCHANGED <<givens, received, loading, redaction, output, parentGone>>

----------------------------------------------------------------------------
(* apply_redaction *)

\* A refusal, whose reason main leaves in the work dir if it can.
Refuse ==
  /\ Exit("redaction")
  /\ files' \in {files, files \cup {"refusal"}}

\* A rewrite removes every occurrence it reaches, or fails somewhere: what is
\* left then is a part, the whole, or nothing. Text it does not reach may change
\* with the text it is generated from.
Rewritten(after, failed) ==
  /\ \A r \in Regions \ Left : after[r] = "none"
  /\ after["unread"] = secret["unread"]
  /\ failed \/ /\ \A r \in VerifyReads : after[r] = "none"
               /\ after["typed"] \in {"none", secret["typed"]}

\* The spans resolved and the text rewritten; a rewrite that fails only warns.
Rewrite ==
  /\ step = "redact"
  /\ \/ Left = {} /\ Goto("layout") /\ UNCHANGED <<files, redaction>>
     \/ request.redact /\ Refuse /\ UNCHANGED redaction
     \/ /\ Left # {} /\ Goto("verify")
        /\ warned' \in {warned, TRUE}
        /\ secret' \in [Regions -> Extents]
        /\ Rewritten(secret', warned')
        /\ UNCHANGED files
  /\ UNCHANGED <<givens, received, loading, output, parentGone>>

\* The checks look for whole occurrences.
NothingVerified == TRUE   \* mutant: the verify walk is left out
VerifyFindsNothing == \A r \in VerifyReads : secret[r] # "whole"

ScanFindsNothing == \A r \in TypedReads : secret[r] # "whole"

\* Either check also refuses when it could not read everything.
Verify ==
  /\ step = "verify"
  /\ \/ VerifyFindsNothing /\ Goto("scan") /\ UNCHANGED files
     \/ Refuse
  /\ UNCHANGED <<givens, received, loading, redaction, output, parentGone>>

Scan ==
  /\ step = "scan"
  /\ \/ ScanFindsNothing /\ Goto("layout") /\ UNCHANGED files
     \/ Refuse
  /\ UNCHANGED <<givens, received, loading, redaction, output, parentGone>>

----------------------------------------------------------------------------
(* run_render: the events *)

\* No page to render, or no PDF filter for the document.
Layout ==
  /\ step = "layout"
  /\ Try("info")
  /\ UNCHANGED <<givens, files, received, loading, redaction, output, parentGone>>

\* An event shows what is left in the regions it is made from.
Sends(event, regions) ==
  /\ ~parentGone
  /\ sent' = Append(sent, event)
  /\ leaked' = leaked \cup {<<r, secret[r]>> : r \in regions \cap Left}

\* emit returns false: the write failed, and the render ends.
EmitFails == parentGone /\ Exit("render") /\ UNCHANGED output

SendInfo ==
  /\ step = "info"
  /\ \/ /\ Sends("info", {})
        /\ Goto(IF request.mode = "pdf" THEN "export"
                ELSE IF request.paint THEN "paint" ELSE "typed")
     \/ EmitFails
  /\ UNCHANGED <<givens, files, received, loading, redaction, parentGone>>

MoreEvents == Len(sent) < MaxEvents

\* A page image shows the text of every region.
Paint ==
  /\ step = "paint"
  /\ \/ MoreEvents /\ Sends("page", Regions) /\ UNCHANGED <<step, code>>
     \/ Try("typed") /\ UNCHANGED output
  /\ UNCHANGED <<givens, files, received, loading, redaction, parentGone>>

AfterTyped == "status"

\* Each typed event is checked once more on its way out.
EmitTyped ==
  /\ step = "typed"
  /\ \/ /\ MoreEvents
        /\ Sends("typed", TypedReads)
        /\ UNCHANGED <<step, code, files>>
     \/ ~ScanFindsNothing /\ Refuse /\ UNCHANGED output
     \/ EmitFails /\ UNCHANGED files
     \/ Goto(AfterTyped) /\ UNCHANGED <<files, output>>
  /\ UNCHANGED <<givens, received, loading, redaction, parentGone>>

Exported == Last(sent) = "chunk"

\* export_pdf_stream: it succeeds only with bytes delivered and the stream
\* closed; a chunk that could not be sent may get lost on the way back.
Export ==
  /\ step = "export"
  /\ \/ MoreEvents /\ Sends("chunk", Regions) /\ UNCHANGED <<step, code>>
     \/ (Exported \/ parentGone) /\ Goto("status") /\ UNCHANGED output
     \/ Exit("render") /\ UNCHANGED output
  /\ UNCHANGED <<givens, files, received, loading, redaction, parentGone>>

\* Mutant: the result of the last emit is dropped.
IgnoreFailure == parentGone /\ Goto("leave") /\ UNCHANGED output
StatusFails == EmitFails

SendStatus ==
  /\ step = "status"
  /\ \/ Sends("status", {}) /\ Goto("leave")
     \/ StatusFails
  /\ UNCHANGED <<givens, files, received, loading, redaction, parentGone>>

\* The document is closed, and _exit.
Leave ==
  /\ step = "leave"
  /\ Exit("ok")
  /\ UNCHANGED <<givens, files, received, loading, redaction, output, parentGone>>

----------------------------------------------------------------------------
(* The outside *)

\* A crash of the core, or the parent's SIGKILL.
Killed ==
  /\ step # "exited"
  /\ Exit("signal")
  /\ UNCHANGED <<givens, files, received, loading, redaction, output, parentGone>>

\* The parent closes its end of stdout, or dies; SIGPIPE is ignored.
ParentLeaves ==
  /\ step # "exited"
  /\ ~parentGone
  /\ parentGone' = TRUE
  /\ UNCHANGED <<givens, step, files, received, loading, redaction, output, code>>

Exited == step = "exited" /\ UNCHANGED vars

Main == ReadOptions \/ ReadPasswords \/ ReadUpload \/ CheckTmpfs \/ Stage \/ StartCore
Open == Load \/ Ask \/ RetryReturns \/ Repair \/ Classify \/ Unlink
Redact == Rewrite \/ Verify \/ Scan
Emit == Layout \/ SendInfo \/ Paint \/ EmitTyped \/ Export \/ SendStatus \/ Leave

Next == Main \/ Open \/ Redact \/ Emit \/ Killed \/ ParentLeaves \/ Exited

Spec == Init /\ [][Next]_vars

\* The process runs as long as the office core returns from its calls.
FairSpec == Spec /\ WF_vars(Main \/ Open \/ Redact \/ Emit)

----------------------------------------------------------------------------
(* Properties *)

\* Every variable stays within its type, the exit code within the ones the
\* parent knows.
TypeOK ==
  /\ request \in Requests
  /\ document \in Documents
  /\ step \in Steps
  /\ files \subseteq {"options", "passwords", "doc", "refusal"}
  /\ received \in BOOLEAN
  /\ next \in 0..request.candidates
  /\ asked \in BOOLEAN
  /\ opened \in {"none", "plain", "password", "repair"}
  /\ secret \in [Regions -> Extents]
  /\ warned \in BOOLEAN
  /\ leaked \subseteq Regions \X Extents
  /\ sent \in Seq(Events)
  /\ parentGone \in BOOLEAN
  /\ code \in Codes \cup {"none"}

Rank == [info |-> 1, page |-> 2, chunk |-> 2, typed |-> 3, status |-> 4]

\* The order a client may rely on: the document's info once and first, then
\* pages, then typed content, or the chunks of a PDF, and one status, last.
EventOrder ==
  \A i \in 1..Len(sent) :
    /\ sent[i] = "info" <=> i = 1
    /\ sent[i] = "status" => i = Len(sent)
    /\ i > 1 => Rank[sent[i - 1]] <= Rank[sent[i]]
    /\ sent[i] = "chunk" => request.mode = "pdf"

\* Exit 0 says that the terminal status went out, and once it did, only a
\* death on the way out can say anything else.
ExitTellsStatus ==
  LET complete == sent # <<>> /\ Last(sent) = "status"
  IN  /\ code = "ok" => complete
      /\ complete => code \in {"none", "ok", "signal"}

\* A refused redaction has emitted nothing at all: the guard on outgoing
\* typed events never finds what the check before painting missed.
RefusedSendsNothing == code = "redaction" => sent = <<>>

\* Where either check reads, no page, chunk or typed event ever shows a whole
\* occurrence of the text to remove, and a part of one only after a rewrite
\* that failed, which the status reports.
OnlyPartsLeak ==
  \A left \in leaked :
    left[1] \in VerifyReads \cup TypedReads => left[2] = "part" /\ warned

\* A sound encrypted document opens if any candidate is right, whichever,
\* and is reported as password-protected if all of them are wrong.
PasswordVerdict ==
  (/\ received /\ document.package = "sound" /\ document.encrypted
   /\ request.candidates > 0
   /\ code \in {"load", "password", "repair"})
     => code = "password" /\ document.key = 0 /\ next = request.candidates

\* No byte of a broken package goes out, and no repair runs, without the
\* caller's opt-in.
RepairAsked ==
  /\ opened = "repair" => request.repair
  /\ document.package # "sound" /\ sent # <<>> => request.repair

\* The passwords are gone from the work dir before the upload is read, and
\* the upload before any event is sent.
StagedBriefly ==
  /\ received => "passwords" \notin files
  /\ sent # <<>> => "doc" \notin files


\* What WorkerRunner assumes of the worker.
Contract == INSTANCE WorkerContract WITH
              events <- Len(sent),
              complete <- sent # <<>> /\ Last(sent) = "status",
              exit <- code

KeepsContract == Contract!Spec

=============================================================================
