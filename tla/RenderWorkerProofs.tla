------------------------- MODULE RenderWorkerProofs -------------------------
(***************************************************************************)
(* RenderWorker for any number of candidate passwords and of events: what  *)
(* its exit code says, what never leaves it, what it leaves on the tmpfs,  *)
(* and that it keeps the contract of module WorkerContract.                *)
(***************************************************************************)
EXTENDS RenderWorker, TLAPS

USE DEF Goto, Exit, Try, EmptyUpload

----------------------------------------------------------------------------
(* Types *)

\* An event sent keeps the types of what was sent.
LEMMA SendsTyped ==
  ASSUME TypeOK, NEW event \in Events, NEW regions \in SUBSET Regions, Sends(event, regions)
  PROVE  sent' \in Seq(Events) /\ leaked' \subseteq Regions \X Extents
<1>1. sent' \in Seq(Events)
  BY DEF Sends, TypeOK
<1>2. leaked' \subseteq Regions \X Extents
  BY DEF Sends, TypeOK
<1> QED
  BY <1>1, <1>2

\* Every variable keeps its type.
THEOREM TypeCorrect == Spec => []TypeOK
<1> USE WorkerAssumption DEF TypeOK
<1>1. ASSUME Init PROVE TypeOK
  <2>1. 0 \in 0..request.candidates
    BY <1>1 DEF Init, Requests
  <2>2. secret \in [Regions -> Extents]
    BY <1>1 DEF Init, Extents
  <2>3. files \subseteq {"options", "passwords", "doc", "refusal"}
    BY <1>1 DEF Init
  <2>4. sent \in Seq(Events)
    BY <1>1 DEF Init
  <2> QED
    BY <1>1, <2>1, <2>2, <2>3, <2>4 DEF Init, Steps
<1>2. ASSUME TypeOK, [Next]_vars PROVE TypeOK'
  <2> USE <1>2
  <2>1. step' \in Steps /\ code' \in Codes \cup {"none"}
    <3> USE DEF Steps, Codes
    <3>1. CASE Main
      BY <3>1 DEF Main, ReadOptions, ReadPasswords, ReadUpload, CheckTmpfs, Stage, StartCore
    <3>2. CASE Open
      BY <3>2 DEF Open, Load, Ask, Answer, RetryReturns, Repair, Classify, Unlink, Opens,
                  AfterRefusal
    <3>3. CASE Redact
      BY <3>3 DEF Redact, Rewrite, Verify, Scan, Refuse
    <3>4. CASE Emit
      BY <3>4 DEF Emit, Layout, SendInfo, Paint, EmitTyped, Export, SendStatus, Leave,
                  AfterTyped, StatusFails, EmitFails, Refuse
    <3>5. CASE Killed \/ ParentLeaves \/ UNCHANGED vars
      BY <3>5 DEF Killed, ParentLeaves, vars
    <3> QED
      BY <3>1, <3>2, <3>3, <3>4, <3>5 DEF Next, Exited
  <2>2. sent' \in Seq(Events) /\ leaked' \subseteq Regions \X Extents
    <3>1. CASE UNCHANGED output
      BY <3>1 DEF output
    <3>2. CASE \E event \in Events, regions \in SUBSET Regions : Sends(event, regions)
      BY <3>2, SendsTyped
    <3>3. CASE SendInfo \/ Paint \/ EmitTyped \/ Export \/ SendStatus
      <4>1. /\ {} \in SUBSET Regions /\ Regions \in SUBSET Regions
            /\ TypedReads \in SUBSET Regions
            /\ {"info", "page", "typed", "chunk", "status"} \subseteq Events
        BY DEF Events, Regions, TypedReads
      <4> QED
        BY <3>1, <3>2, <3>3, <4>1 DEF SendInfo, Paint, EmitTyped, Export, SendStatus, StatusFails,
                                      EmitFails, Refuse
    <3>4. CASE Main \/ Open \/ Redact \/ Layout \/ Leave \/ Killed \/ ParentLeaves
      BY <3>1, <3>4 DEF Main, ReadOptions, ReadPasswords, ReadUpload, CheckTmpfs, Stage,
            StartCore, Open, Load, Ask, RetryReturns, Repair, Classify, Unlink, Redact, Rewrite,
            Verify, Scan, Layout, Leave, Killed, ParentLeaves
    <3> QED
      BY <3>1, <3>3, <3>4 DEF Next, Emit, Exited, vars
  <2>3. next' \in 0..request'.candidates
    <3>1. CASE Ask
      BY <3>1 DEF Ask, Answer, CandidatesLeft, Requests, givens
    <3>2. CASE UNCHANGED <<givens, next>>
      BY <3>2 DEF givens
    <3> QED
      BY <3>1, <3>2 DEF Next, Main, ReadOptions, ReadPasswords, ReadUpload, CheckTmpfs, Stage,
            StartCore, Open, Load, RetryReturns, Repair, Classify, Unlink, Redact, Rewrite,
            Verify, Scan, Emit, Layout, SendInfo, Paint, EmitTyped, Export, SendStatus, Leave,
            Killed, ParentLeaves, Exited, vars, loading
  <2>4. files' \subseteq {"options", "passwords", "doc", "refusal"}
    BY DEF Next, Main, ReadOptions, ReadPasswords, ReadUpload, CheckTmpfs, Stage,
            StartCore, Open, Load, Ask, RetryReturns, Repair, Classify, Unlink, WithoutUpload,
            Redact, Rewrite, Verify, Scan, Refuse, Emit, Layout, SendInfo, Paint, EmitTyped,
            Export, SendStatus, Leave, Killed, ParentLeaves, Exited, vars
  <2>5. /\ request' \in Requests /\ document' \in Documents
        /\ received' \in BOOLEAN /\ asked' \in BOOLEAN /\ parentGone' \in BOOLEAN
        /\ opened' \in {"none", "plain", "password", "repair"}
        /\ secret' \in [Regions -> Extents] /\ warned' \in BOOLEAN
    <3> USE DEF redaction
    <3>1. CASE Main
      BY <3>1 DEF Main, ReadOptions, ReadPasswords, ReadUpload, CheckTmpfs, Stage, StartCore,
                  givens, loading
    <3>2. CASE Open
      BY <3>2 DEF Open, Load, Ask, RetryReturns, Repair, Classify, Unlink, Opens, givens, loading
    <3>3. CASE Redact
      BY <3>3 DEF Redact, Rewrite, Verify, Scan, givens, loading
    <3>4. CASE Emit
      BY <3>4 DEF Emit, Layout, SendInfo, Paint, EmitTyped, Export, SendStatus, Leave,
                  givens, loading
    <3>5. CASE Killed \/ ParentLeaves \/ UNCHANGED vars
      BY <3>5 DEF Killed, ParentLeaves, vars, givens, loading
    <3> QED
      BY <3>1, <3>2, <3>3, <3>4, <3>5 DEF Next, Exited
  <2> QED
    BY <2>1, <2>2, <2>3, <2>4, <2>5
<1> QED
  BY <1>1, <1>2, PTL DEF Spec

----------------------------------------------------------------------------
(* Redacted text *)

Read == VerifyReads \cup TypedReads
Late == {"layout", "info", "paint", "typed", "export", "status", "leave"}

\* A part of an occurrence, or text that went out, is there only after a warning,
\* and past each check none of the text it looks for is left.
Cleared ==
  /\ OnlyPartsLeak
  /\ \A r \in Regions : secret[r] = "part" => warned
  /\ step = "scan" => VerifyFindsNothing
  /\ step \in Late => VerifyFindsNothing /\ ScanFindsNothing

\* What the rewrite leaves is partial only where it failed.
LEMMA RewriteWarns ==
  ASSUME TypeOK, \A r \in Regions : secret[r] = "part" => warned, Rewrite
  PROVE  (warned => warned') /\ (\A r \in Regions : secret'[r] = "part" => warned')
<1>1. CASE UNCHANGED redaction
  BY <1>1 DEF redaction
<1>2. CASE warned'
  BY <1>2
<1>3. CASE warned' \in {warned, TRUE} /\ Rewritten(secret', warned') /\ ~warned'
  <2>1. ~warned
    BY <1>3
  <2>2. \A r \in Regions : secret[r] # "part"
    BY <2>1
  <2> QED
    BY <1>3, <2>1, <2>2 DEF Rewritten, Regions, VerifyReads
<1> QED
  BY <1>1, <1>2, <1>3 DEF Rewrite

\* An event shows only parts, once both checks have passed.
LEMMA SendsParts ==
  ASSUME TypeOK, Cleared, step \in Late, UNCHANGED warned,
         NEW event \in Events, NEW regions \in SUBSET Regions, Sends(event, regions)
  PROVE  OnlyPartsLeak'
<1>1. SUFFICES ASSUME NEW left \in leaked', left[1] \in Read
               PROVE  left[2] = "part" /\ warned
  BY DEF OnlyPartsLeak, Read, VerifyReads, TypedReads
<1>2. CASE left \in leaked
  BY <1>1, <1>2 DEF Cleared, OnlyPartsLeak, Read
<1>3. CASE left \notin leaked
  <2>1. PICK r \in regions \cap Left : left = <<r, secret[r]>>
    BY <1>3 DEF Sends
  <2>2. r \in Regions /\ r \in Read /\ secret[r] \in Extents /\ secret[r] # "none"
    BY <1>1, <2>1 DEF Left, TypeOK
  <2>3. secret[r] # "whole"
    BY <2>2 DEF Cleared, VerifyFindsNothing, ScanFindsNothing, Read
  <2>4. secret[r] = "part"
    BY <2>2, <2>3 DEF Extents
  <2> QED
    BY <2>1, <2>2, <2>4 DEF Cleared
<1> QED
  BY <1>2, <1>3

LEMMA ClearedStep == ASSUME TypeOK, Cleared, [Next]_vars PROVE Cleared'
<1> USE DEF Late
<1>a. ASSUME UNCHANGED <<redaction, leaked>>, step' \notin Late \cup {"scan"} PROVE Cleared'
  BY <1>a DEF Cleared, OnlyPartsLeak, redaction, VerifyReads, TypedReads
<1>1. CASE UNCHANGED vars
  BY <1>1 DEF Cleared, OnlyPartsLeak, VerifyFindsNothing, ScanFindsNothing, vars, redaction, output
<1>2. CASE Main
  BY <1>2, <1>a DEF Main, ReadOptions, ReadPasswords, ReadUpload, CheckTmpfs, Stage, StartCore,
                    output
<1>3. CASE Open
  BY <1>3, <1>a DEF Open, Load, Ask, Answer, RetryReturns, Repair, Classify, Unlink, Opens,
                    AfterRefusal, output
<1>4. CASE Rewrite
  <2>1. (warned => warned') /\ (\A r \in Regions : secret'[r] = "part" => warned')
    BY <1>4, RewriteWarns DEF Cleared
  <2>2. OnlyPartsLeak'
    BY <1>4, <2>1 DEF Cleared, OnlyPartsLeak, Rewrite, output, VerifyReads, TypedReads
  <2>3. step' \in Late => VerifyFindsNothing' /\ ScanFindsNothing'
    <3>1. step' \in Late => Left = {} /\ UNCHANGED secret
      BY <1>4 DEF Rewrite, Refuse, redaction
    <3>2. Left = {} => \A r \in Regions : secret[r] = "none"
      BY DEF Left
    <3> QED
      BY <3>1, <3>2 DEF VerifyFindsNothing, ScanFindsNothing, Regions, VerifyReads, TypedReads
  <2>4. step' # "scan"
    BY <1>4 DEF Rewrite, Refuse
  <2> QED
    BY <2>1, <2>2, <2>3, <2>4 DEF Cleared
<1>5. CASE Verify \/ Scan
  <2>1. UNCHANGED <<redaction, leaked>>
    BY <1>5 DEF Verify, Scan, output
  <2>2. step' = "scan" => VerifyFindsNothing
    BY <1>5 DEF Verify, Scan, Refuse
  <2>3. step' \in Late => VerifyFindsNothing /\ ScanFindsNothing
    BY <1>5 DEF Verify, Scan, Refuse, Cleared
  <2> QED
    BY <2>1, <2>2, <2>3
       DEF Cleared, OnlyPartsLeak, VerifyFindsNothing, ScanFindsNothing, redaction, VerifyReads,
           TypedReads
<1>6. CASE Emit
  <2>1. step \in Late /\ UNCHANGED redaction /\ step' # "scan"
    BY <1>6 DEF Emit, Layout, SendInfo, Paint, EmitTyped, Export, SendStatus, Leave, AfterTyped,
                StatusFails, EmitFails, Refuse
  <2>2. OnlyPartsLeak'
    <3>1. CASE UNCHANGED output
      BY <2>1, <3>1 DEF output, redaction, Cleared, OnlyPartsLeak, VerifyReads, TypedReads
    <3>2. CASE \E event \in Events, regions \in SUBSET Regions : Sends(event, regions)
      BY <2>1, <3>2, SendsParts DEF redaction
    <3>3. /\ {} \in SUBSET Regions /\ Regions \in SUBSET Regions /\ TypedReads \in SUBSET Regions
          /\ {"info", "page", "typed", "chunk", "status"} \subseteq Events
      BY DEF Events, Regions, TypedReads
    <3> QED
      BY <1>6, <3>1, <3>2, <3>3 DEF Emit, Layout, SendInfo, Paint, EmitTyped, Export, SendStatus,
                              Leave, StatusFails, EmitFails
  <2> QED
    BY <2>1, <2>2 DEF Cleared, VerifyFindsNothing, ScanFindsNothing, redaction
<1>7. CASE Killed \/ ParentLeaves
  <2>1. UNCHANGED <<redaction, leaked>> /\ (step' = "exited" \/ UNCHANGED step)
    BY <1>7 DEF Killed, ParentLeaves, output
  <2> QED
    BY <2>1 DEF Cleared, OnlyPartsLeak, VerifyFindsNothing, ScanFindsNothing, redaction,
                VerifyReads, TypedReads
<1> QED
  BY <1>1, <1>2, <1>3, <1>4, <1>5, <1>6, <1>7 DEF Next, Redact, Exited

LEMMA ClearedAlways == Spec => []Cleared
<1>1. Init => Cleared
  BY DEF Init, Cleared, OnlyPartsLeak, Late
<1> QED
  BY <1>1, ClearedStep, TypeCorrect, PTL DEF Spec

\* Where a check reads, no whole occurrence of text to redact goes out, and a part
\* only after a failed rewrite that the status reports.
THEOREM RedactedTextStays == Spec => []OnlyPartsLeak
<1>1. Cleared => OnlyPartsLeak
  BY DEF Cleared
<1> QED
  BY <1>1, ClearedAlways, PTL

----------------------------------------------------------------------------
(* Progress through the response, and the exit code *)

Unread == {"options", "passwords", "upload"}
Silent == Unread \cup {"tmpfs", "stage", "profile", "load", "prompt", "repair", "classify",
                       "unlink", "redact", "verify", "scan", "layout", "info"}
Emitting == {"paint", "typed", "export", "status"}
Complete == sent # <<>> /\ Last(sent) = "status"

\* What has been read and sent at each step, and at the end.
Answered ==
  /\ code = "none" <=> step # "exited"
  /\ step \in Unread => ~received
  /\ step \notin Unread \cup {"exited"} => received
  /\ sent # <<>> => received
  /\ step \in Silent => sent = <<>>
  /\ step \in Emitting => ~Complete
  /\ step = "leave" => Complete
  /\ step = "exited" => (Complete => code \in {"ok", "signal"})
  /\ code = "ok" => Complete
  /\ code = "redaction" => sent = <<>>

\* What an event appended does to Complete.
LEMMA Appending ==
  ASSUME sent \in Seq(Events), NEW event \in Events, sent' = Append(sent, event)
  PROVE  sent' # <<>> /\ (Complete' <=> event = "status")
BY DEF Complete, Last

LEMMA AnsweredStep == ASSUME TypeOK, Cleared, Answered, [Next]_vars PROVE Answered'
<1> USE DEF Answered, Unread, Silent, Emitting
<1>0. sent \in Seq(Events)
  BY DEF TypeOK
<1>a. UNCHANGED sent => UNCHANGED Complete
  BY DEF Complete
<1>1. CASE UNCHANGED vars
  BY <1>1, <1>a DEF vars, givens, loading, output
<1>2. CASE Main
  BY <1>2, <1>a DEF Main, ReadOptions, ReadPasswords, ReadUpload, CheckTmpfs, Stage, StartCore,
              output, Complete
<1>3. CASE Open
  BY <1>3, <1>a DEF Open, Load, Ask, Answer, RetryReturns, Repair, Classify, Unlink, Opens,
              AfterRefusal, output, Complete
<1>4. CASE Redact
  BY <1>4, <1>a DEF Redact, Rewrite, Verify, Scan, Refuse, output, Complete
<1>5. CASE Layout \/ Leave
  BY <1>5, <1>a DEF Layout, Leave, output, Complete
<1>6. CASE SendInfo
  <2>1. CASE Sends("info", {})
    BY <1>0, <1>6, <2>1, Appending DEF SendInfo, Sends, Events, EmitFails
  <2>2. CASE EmitFails
    BY <1>6, <2>2, <1>a DEF SendInfo, EmitFails, output, Complete
  <2> QED
    BY <1>6, <2>1, <2>2 DEF SendInfo
<1>7. CASE Paint
  <2>1. CASE Sends("page", Regions)
    BY <1>0, <1>7, <2>1, Appending DEF Paint, Sends, Events, output
  <2>2. CASE UNCHANGED output
    BY <1>7, <2>2, <1>a DEF Paint, output, Sends
  <2> QED
    BY <1>7, <2>1, <2>2 DEF Paint
<1>8. CASE EmitTyped
  <2>0. ScanFindsNothing /\ step = "typed" /\ UNCHANGED received
    BY <1>8 DEF EmitTyped, Cleared, Late
  <2>1. CASE Sends("typed", TypedReads) /\ UNCHANGED <<step, code, files>>
    BY <1>0, <2>0, <2>1, Appending DEF Sends, Events
  <2>2. CASE EmitFails
    BY <2>0, <2>2, <1>a DEF EmitFails, output
  <2>3. CASE Goto(AfterTyped) /\ UNCHANGED output
    BY <2>0, <2>3, <1>a DEF AfterTyped, output
  <2> QED
    BY <1>8, <2>0, <2>1, <2>2, <2>3 DEF EmitTyped
<1>9. CASE Export
  <2>1. CASE Sends("chunk", Regions)
    BY <1>0, <1>9, <2>1, Appending DEF Export, Sends, Events, output
  <2>2. CASE UNCHANGED output
    BY <1>9, <2>2, <1>a DEF Export, output, Sends
  <2> QED
    BY <1>9, <2>1, <2>2 DEF Export
<1>10. CASE SendStatus
  <2>1. CASE Sends("status", {})
    BY <1>0, <1>10, <2>1, Appending DEF SendStatus, Sends, Events, StatusFails, EmitFails
  <2>2. CASE StatusFails
    BY <1>10, <2>2, <1>a DEF SendStatus, StatusFails, EmitFails, output
  <2> QED
    BY <1>10, <2>1, <2>2 DEF SendStatus
<1>11. CASE Killed \/ ParentLeaves
  BY <1>11, <1>a DEF Killed, ParentLeaves, output, Complete
<1> QED
  BY <1>1, <1>2, <1>3, <1>4, <1>5, <1>6, <1>7, <1>8, <1>9, <1>10, <1>11
     DEF Next, Emit, Exited

LEMMA AnsweredAlways == Spec => []Answered
<1>1. Init => Answered
  BY DEF Init, Answered, Unread, Silent, Emitting, Complete
<1> QED
  BY <1>1, AnsweredStep, TypeCorrect, ClearedAlways, PTL DEF Spec

\* Exit 0 says that the terminal status went out, and nothing but a death says
\* otherwise once it did.
THEOREM ExitCodeTells == Spec => []ExitTellsStatus
<1>1. Answered /\ TypeOK => ExitTellsStatus
  BY DEF Answered, TypeOK, ExitTellsStatus, Complete, Emitting, Silent, Unread, Steps
<1> QED
  BY <1>1, AnsweredAlways, TypeCorrect, PTL

\* A refused redaction has emitted nothing.
THEOREM RefusalIsSilent == Spec => []RefusedSendsNothing
<1>1. Answered => RefusedSendsNothing
  BY DEF Answered, RefusedSendsNothing
<1> QED
  BY <1>1, AnsweredAlways, PTL

----------------------------------------------------------------------------
(* The order of the events *)

\* What the last event was at each step that emits.
Ordered ==
  /\ EventOrder
  /\ step \in Emitting => sent # <<>>
  /\ step = "paint" => Last(sent) \in {"info", "page"}
  /\ step = "typed" => Last(sent) \in {"info", "page", "typed"}
  /\ step = "export" => Last(sent) \in {"info", "chunk"} /\ request.mode = "pdf"

\* An event may follow the ones before it.
Follows(event) ==
  /\ event = "info" <=> sent = <<>>
  /\ ~Complete
  /\ sent # <<>> => Rank[Last(sent)] <= Rank[event]
  /\ event = "chunk" => request.mode = "pdf"

LEMMA OrderAppended ==
  ASSUME sent \in Seq(Events), EventOrder, NEW event \in Events, Follows(event),
         sent' = Append(sent, event), UNCHANGED request
  PROVE  EventOrder' /\ sent' # <<>> /\ Last(sent') = event
<1>1. Len(sent') = Len(sent) + 1 /\ sent'[Len(sent) + 1] = event
  OBVIOUS
<1>2. \A i \in 1..Len(sent) : sent'[i] = sent[i] /\ sent'[i] # "status"
  <2>1. \A i \in 1..Len(sent) : sent'[i] = sent[i]
    OBVIOUS
  <2>2. \A i \in 1..Len(sent) : sent[i] = "status" => i = Len(sent) /\ Complete
    BY DEF EventOrder, Complete, Last
  <2> QED
    BY <2>1, <2>2 DEF Follows
<1>3. sent # <<>> => /\ Last(sent) = sent[Len(sent)] /\ Len(sent) >= 1
  BY DEF Last
<1>4. sent' # <<>> /\ Last(sent') = event
  BY <1>1 DEF Last
<1>5. SUFFICES ASSUME NEW i \in 1..Len(sent')
               PROVE  /\ sent'[i] = "info" <=> i = 1
                      /\ sent'[i] = "status" => i = Len(sent')
                      /\ i > 1 => Rank[sent'[i - 1]] <= Rank[sent'[i]]
                      /\ sent'[i] = "chunk" => request'.mode = "pdf"
  BY <1>4 DEF EventOrder, Rank
<1>6. CASE i \in 1..Len(sent)
  <2>1. i > 1 => i - 1 \in 1..Len(sent)
    BY <1>6
  <2> QED
    BY <1>2, <1>6, <2>1 DEF EventOrder
<1>7. CASE i = Len(sent) + 1
  <2>1. i > 1 => sent # <<>> /\ sent'[i - 1] = Last(sent)
    BY <1>2, <1>3, <1>7
  <2>2. i = 1 <=> sent = <<>>
    BY <1>7
  <2> QED
    BY <1>1, <1>7, <2>1, <2>2 DEF Follows
<1> QED
  BY <1>1, <1>6, <1>7

LEMMA OrderedStep == ASSUME TypeOK, Answered, Ordered, [Next]_vars PROVE Ordered'
<1> USE DEF Ordered, Emitting
<1>0. sent \in Seq(Events)
  BY DEF TypeOK
<1>a. UNCHANGED <<sent, request>> => EventOrder' /\ UNCHANGED Last(sent)
  BY DEF EventOrder, Last, Rank
<1>b. \A event \in {"page", "typed", "chunk", "status"} :
        /\ sent # <<>> /\ ~Complete
        /\ Rank[Last(sent)] <= Rank[event]
        /\ event = "chunk" => request.mode = "pdf"
        => Follows(event)
  BY DEF Follows
<1>1. CASE Main \/ Open \/ Redact \/ Layout
  <2>1. step' \notin Emitting /\ UNCHANGED <<sent, request>>
    BY <1>1 DEF Main, ReadOptions, ReadPasswords, ReadUpload, CheckTmpfs, Stage, StartCore,
                Open, Load, Ask, Answer, RetryReturns, Repair, Classify, Unlink, Opens, AfterRefusal,
                Redact, Rewrite, Verify, Scan, Refuse, Layout, givens, output
  <2> QED
    BY <2>1, <1>a
<1>2. CASE SendInfo
  <2>1. CASE Sends("info", {})
    <3>1. Follows("info")
      BY <1>2 DEF SendInfo, Follows, Answered, Silent, Complete
    <3>2. EventOrder' /\ sent' # <<>> /\ Last(sent') = "info"
      BY <1>0, <1>2, <2>1, <3>1, OrderAppended DEF SendInfo, Sends, Events, givens
    <3> QED
      BY <1>2, <2>1, <3>2 DEF SendInfo, EmitFails, Sends, givens
  <2>2. CASE EmitFails
    BY <1>2, <2>2, <1>a DEF SendInfo, EmitFails, output, givens
  <2> QED
    BY <1>2, <2>1, <2>2 DEF SendInfo
<1>3. CASE Paint
  <2>1. CASE Sends("page", Regions) /\ UNCHANGED <<step, code>>
    <3>1. Follows("page")
      BY <1>3, <1>b DEF Paint, Answered, Rank
    <3>2. EventOrder' /\ sent' # <<>> /\ Last(sent') = "page"
      BY <1>0, <1>3, <2>1, <3>1, OrderAppended DEF Paint, Sends, Events, givens
    <3> QED
      BY <1>3, <2>1, <3>2 DEF Paint, givens
  <2>2. CASE Try("typed") /\ UNCHANGED output
    BY <1>3, <2>2, <1>a DEF Paint, output, givens
  <2> QED
    BY <1>3, <2>1, <2>2 DEF Paint
<1>4. CASE EmitTyped
  <2>1. CASE Sends("typed", TypedReads) /\ UNCHANGED <<step, code, files>>
    <3>1. Follows("typed")
      BY <1>4, <1>b DEF EmitTyped, Answered, Rank
    <3>2. EventOrder' /\ sent' # <<>> /\ Last(sent') = "typed"
      BY <1>0, <1>4, <2>1, <3>1, OrderAppended DEF EmitTyped, Sends, Events, givens
    <3> QED
      BY <1>4, <2>1, <3>2 DEF EmitTyped, givens
  <2>2. CASE step' \in {"exited", "status"} /\ UNCHANGED output
    BY <1>4, <2>2, <1>a DEF EmitTyped, output, givens
  <2> QED
    BY <1>4, <2>1, <2>2 DEF EmitTyped, Refuse, EmitFails, AfterTyped
<1>5. CASE Export
  <2>1. CASE Sends("chunk", Regions) /\ UNCHANGED <<step, code>>
    <3>1. Follows("chunk")
      BY <1>5, <1>b DEF Export, Answered, Rank
    <3>2. EventOrder' /\ sent' # <<>> /\ Last(sent') = "chunk"
      BY <1>0, <1>5, <2>1, <3>1, OrderAppended DEF Export, Sends, Events, givens
    <3> QED
      BY <1>5, <2>1, <3>2 DEF Export, givens
  <2>2. CASE step' \in {"exited", "status"} /\ UNCHANGED output
    BY <1>5, <2>2, <1>a DEF Export, output, givens
  <2> QED
    BY <1>5, <2>1, <2>2 DEF Export
<1>6. CASE SendStatus
  <2>1. CASE Sends("status", {}) /\ Goto("leave")
    <3>1. Last(sent) \in Events /\ sent # <<>>
      BY <1>0, <1>6 DEF SendStatus, Last
    <3>2. Follows("status")
      BY <1>6, <1>b, <3>1 DEF SendStatus, Answered, Rank, Events
    <3>3. EventOrder'
      BY <1>0, <1>6, <2>1, <3>2, OrderAppended DEF SendStatus, Sends, Events, givens
    <3> QED
      BY <2>1, <3>3
  <2>2. CASE StatusFails
    BY <1>6, <2>2, <1>a DEF SendStatus, StatusFails, EmitFails, output, givens
  <2> QED
    BY <1>6, <2>1, <2>2 DEF SendStatus
<1>7. CASE Leave \/ Killed \/ ParentLeaves \/ UNCHANGED vars
  BY <1>7, <1>a DEF Leave, Killed, ParentLeaves, vars, givens, output
<1> QED
  BY <1>1, <1>2, <1>3, <1>4, <1>5, <1>6, <1>7 DEF Next, Emit, Exited

\* The info comes first, pages before typed content, chunks only for a PDF, and
\* nothing after the status.
THEOREM EventsInOrder == Spec => []EventOrder
<1>1. Init => Ordered
  BY DEF Init, Ordered, EventOrder, Emitting
<1>2. Ordered => EventOrder
  BY DEF Ordered
<1> QED
  BY <1>1, <1>2, OrderedStep, TypeCorrect, AnsweredAlways, PTL DEF Spec

----------------------------------------------------------------------------
(* What stays on the tmpfs *)

Staged ==
  /\ step \notin {"options", "passwords", "exited"} => "passwords" \notin files
  /\ step \in {"redact", "verify", "scan", "layout", "info", "leave"} \cup Emitting
       => "doc" \notin files
  /\ received => "passwords" \notin files
  /\ sent # <<>> => "doc" \notin files

LEMMA StagedStep == ASSUME TypeOK, Answered, Staged, [Next]_vars PROVE Staged'
<1> USE DEF Staged, Emitting
<1>1. CASE Main
  <2>1. sent = <<>> /\ sent' = <<>>
    BY <1>1 DEF Main, ReadOptions, ReadPasswords, ReadUpload, CheckTmpfs, Stage, StartCore,
                Answered, Silent, Unread, output
  <2> QED
    BY <1>1, <2>1 DEF Main, ReadOptions, ReadPasswords, ReadUpload, CheckTmpfs, Stage, StartCore,
                      Answered, Unread
<1>2. CASE Open
  <2>1. sent = <<>> /\ sent' = <<>>
    BY <1>2 DEF Open, Load, Ask, RetryReturns, Repair, Classify, Unlink,
                Answered, Silent, output
  <2> QED
    BY <1>2, <2>1 DEF Open, Load, Ask, Answer, RetryReturns, Repair, Classify, Unlink, Opens,
                      AfterRefusal, WithoutUpload
<1>3. CASE Redact
  BY <1>3 DEF Redact, Rewrite, Verify, Scan, Refuse, output
<1>4. CASE Emit
  BY <1>4 DEF Emit, Layout, SendInfo, Paint, EmitTyped, Export, SendStatus, Leave, AfterTyped,
              StatusFails, EmitFails, Refuse, output
<1>5. CASE Killed \/ ParentLeaves \/ UNCHANGED vars
  BY <1>5 DEF Killed, ParentLeaves, vars, output
<1> QED
  BY <1>1, <1>2, <1>3, <1>4, <1>5 DEF Next, Exited

\* The passwords are gone before the upload is in, the upload before any event
\* is out.
THEOREM SecretsStagedBriefly == Spec => []StagedBriefly
<1>1. Init => Staged
  BY DEF Init, Staged, Emitting
<1>2. Staged => StagedBriefly
  BY DEF Staged, StagedBriefly
<1> QED
  BY <1>1, <1>2, StagedStep, TypeCorrect, AnsweredAlways, PTL DEF Spec

----------------------------------------------------------------------------
(* The load attempts *)

Loaded == {"unlink", "redact", "verify", "scan", "layout", "info", "leave"} \cup Emitting

\* Which attempts were made, and with what.
Attempted ==
  /\ step = "repair" => request.repair
  /\ opened = "repair" => request.repair
  /\ step \in Loaded \/ sent # <<>> => document.package = "sound" \/ opened = "repair"

LEMMA AttemptedStep == ASSUME TypeOK, Answered, Attempted, [Next]_vars PROVE Attempted'
<1> USE DEF Attempted, Loaded, Emitting
<1>1. CASE Main
  BY <1>1 DEF Main, ReadOptions, ReadPasswords, ReadUpload, CheckTmpfs, Stage, StartCore,
              givens, loading, output
<1>2. CASE Open
  <2>1. sent = <<>> /\ sent' = <<>>
    BY <1>2 DEF Open, Load, Ask, RetryReturns, Repair, Classify, Unlink,
                Answered, Silent, output
  <2> QED
    BY <1>2, <2>1 DEF Open, Load, Ask, Answer, RetryReturns, Repair, Classify, Unlink, Opens,
                      AfterRefusal, givens, loading, TypeOK, Requests
<1>3. CASE Redact
  BY <1>3 DEF Redact, Rewrite, Verify, Scan, Refuse, givens, loading, output
<1>4. CASE Emit
  BY <1>4 DEF Emit, Layout, SendInfo, Paint, EmitTyped, Export, SendStatus, Leave, AfterTyped,
              StatusFails, EmitFails, Refuse, givens, loading, output
<1>5. CASE Killed \/ ParentLeaves \/ UNCHANGED vars
  BY <1>5 DEF Killed, ParentLeaves, vars, givens, loading, output
<1> QED
  BY <1>1, <1>2, <1>3, <1>4, <1>5 DEF Next, Exited

\* No byte of a broken package goes out, and no repair runs, unless asked for.
THEOREM RepairIsAsked == Spec => []RepairAsked
<1>1. Init => Attempted
  BY DEF Init, Attempted, Loaded, Emitting
<1>2. Attempted => RepairAsked
  BY DEF Attempted, RepairAsked
<1> QED
  BY <1>1, <1>2, AttemptedStep, TypeCorrect, AnsweredAlways, PTL DEF Spec

Protected == document.package = "sound" /\ document.encrypted /\ request.candidates > 0

\* No right candidate is passed over, and a protected document takes no other
\* way than the prompt.
Prompted ==
  /\ document.key \in 0..request.candidates
  /\ step \notin {"exited"} \cup Loaded => (document.key = 0 \/ next <= document.key)
  /\ received /\ Protected /\ code \in {"load", "password", "repair"}
       => code = "password" /\ document.key = 0 /\ next = request.candidates
  /\ Protected => step \notin {"repair", "classify"}

LEMMA PromptedStep == ASSUME TypeOK, Answered, Prompted, [Next]_vars PROVE Prompted'
<1> USE DEF Prompted, Loaded, Emitting, Protected
<1>0. /\ UNCHANGED givens
      /\ document.key \in 0..request.candidates /\ request.candidates \in Nat
      /\ next \in Nat /\ next <= request.candidates
  <2>1. UNCHANGED givens
    BY DEF Next, Main, ReadOptions, ReadPasswords, ReadUpload, CheckTmpfs, Stage, StartCore, Open,
           Load, Ask, RetryReturns, Repair, Classify, Unlink, Redact, Rewrite, Verify, Scan, Emit,
           Layout, SendInfo, Paint, EmitTyped, Export, SendStatus, Leave, Killed, ParentLeaves,
           Exited, vars
  <2>2. request.candidates \in Nat
    BY DEF TypeOK, Requests
  <2>3. next \in 0..request.candidates
    BY DEF TypeOK
  <2> QED
    BY <2>1, <2>2, <2>3
<1>1. CASE Main
  BY <1>0, <1>1 DEF Main, ReadOptions, ReadPasswords, ReadUpload, CheckTmpfs, Stage, StartCore,
                    givens, loading, Answered, Unread
<1>2. CASE Load \/ Unlink
  BY <1>0, <1>2 DEF Load, Unlink, Opens, AfterRefusal, givens, loading
<1>3. CASE Ask
  <2>1. document.key = 0 \/ next < document.key
    BY <1>0, <1>3 DEF Ask, RightCandidate
  <2> QED
    BY <1>0, <1>3, <2>1 DEF Ask, Answer, CandidatesLeft, givens, Answered
<1>4. CASE RetryReturns \/ Repair \/ Classify
  BY <1>0, <1>4 DEF RetryReturns, Repair, Classify, Opens, AfterRefusal, givens, loading, Answered
<1>5. CASE Redact
  BY <1>0, <1>5 DEF Redact, Rewrite, Verify, Scan, Refuse, givens, loading, Answered
<1>6. CASE Emit
  BY <1>0, <1>6 DEF Emit, Layout, SendInfo, Paint, EmitTyped, Export, SendStatus, Leave, AfterTyped,
                    StatusFails, EmitFails, Refuse, givens, loading, Answered
<1>7. CASE Killed \/ ParentLeaves \/ UNCHANGED vars
  BY <1>0, <1>7 DEF Killed, ParentLeaves, vars, givens, loading
<1> QED
  BY <1>1, <1>2, <1>3, <1>4, <1>5, <1>6, <1>7 DEF Next, Open, Exited

\* A sound encrypted document is reported as password-protected exactly after
\* every candidate failed, and never otherwise turned away.
THEOREM PasswordVerdictHolds == Spec => []PasswordVerdict
<1>1. Init => Prompted
  BY DEF Init, Prompted, Loaded, Emitting, Protected, Requests, Documents
<1>2. Prompted => PasswordVerdict
  BY DEF Prompted, PasswordVerdict, Protected
<1> QED
  BY <1>1, <1>2, PromptedStep, TypeCorrect, AnsweredAlways, PTL DEF Spec

----------------------------------------------------------------------------
(* What the runner relies on *)

\* A step of the worker is a step of its contract, or none.
LEMMA ContractStep ==
  ASSUME TypeOK, Cleared, Answered, [Next]_vars
  PROVE  [Contract!Next]_<<received, Len(sent), Complete, code>>
<1> USE DEF Contract!Next, Contract!Receive, Contract!Send, Contract!End, Contract!Codes
<1>0. sent \in Seq(Events) /\ received \in BOOLEAN
  BY DEF TypeOK
<1>a. UNCHANGED sent => UNCHANGED <<Len(sent), Complete>>
  BY DEF Complete
<1>b. ASSUME UNCHANGED <<received, sent, code>> PROVE UNCHANGED <<received, Len(sent), Complete, code>>
  BY <1>b, <1>a
\* An event sent is a step of Send.
<1>c. ASSUME NEW event \in Events, step \in Emitting \cup {"info"},
             NEW regions \in SUBSET Regions, Sends(event, regions), UNCHANGED <<received, code>>
      PROVE  Contract!Send
  <2>1. code = "none" /\ received /\ ~Complete
    BY <1>c DEF Answered, Emitting, Silent, Unread, Complete
  <2>2. sent' = Append(sent, event)
    BY <1>c DEF Sends
  <2>3. Len(sent') = Len(sent) + 1 /\ Complete' \in BOOLEAN
    BY <1>0, <2>2 DEF Complete
  <2> QED
    BY <1>c, <2>1, <2>3 DEF Complete
\* An exit before the status went out is a step of End.
<1>d. ASSUME UNCHANGED <<received, sent>>, ~Complete, code = "none",
             code' \in {"load", "password", "repair", "tmpfs", "redaction", "render", "signal"}
      PROVE  Contract!End
  BY <1>a, <1>d DEF Complete
<1>1. CASE UNCHANGED vars
  BY <1>1, <1>b DEF vars, output
<1>2. CASE Main
  <2>1. CASE ReadUpload /\ received'
    BY <1>0, <1>2, <2>1, <1>a DEF ReadUpload, Answered, Unread, output, Complete
  <2>2. CASE ~(ReadUpload /\ received')
    <3>1. ~Complete /\ code = "none" /\ UNCHANGED <<received, sent>>
      BY <1>0, <1>2, <2>2 DEF Main, ReadOptions, ReadPasswords, ReadUpload, CheckTmpfs, Stage,
               StartCore, Answered, Silent, Unread, output, Complete
    <3> QED
      BY <1>2, <2>2, <3>1, <1>b, <1>d DEF Main, ReadOptions, ReadPasswords, ReadUpload, CheckTmpfs,
               Stage, StartCore
  <2> QED
    BY <2>1, <2>2
<1>3. CASE Open \/ Redact \/ Layout
  <2>1. ~Complete /\ code = "none" /\ UNCHANGED <<received, sent>>
    BY <1>3 DEF Open, Load, Ask, RetryReturns, Repair, Classify, Unlink, Redact, Rewrite, Verify,
                Scan, Layout, Answered, Silent, Unread, output, Complete
  <2> QED
    BY <1>3, <2>1, <1>b, <1>d DEF Open, Load, Ask, Answer, RetryReturns, Repair, Classify, Unlink,
                Opens, Redact, Rewrite, Verify, Scan, Refuse, Layout
<1>4. CASE SendInfo \/ Paint \/ EmitTyped \/ Export \/ SendStatus
  <2>1. ~Complete /\ code = "none" /\ UNCHANGED received /\ step \in Emitting \cup {"info"}
    BY <1>4 DEF SendInfo, Paint, EmitTyped, Export, SendStatus, Answered, Silent, Unread, Emitting,
                Complete
  <2>2. CASE UNCHANGED output
    BY <1>4, <2>1, <2>2, <1>b, <1>d DEF SendInfo, Paint, EmitTyped, Export, SendStatus, StatusFails,
                EmitFails, Refuse, Sends, output
  <2>3. CASE UNCHANGED code /\ \E event \in Events, regions \in SUBSET Regions : Sends(event, regions)
    BY <2>1, <2>3, <1>c
  <2>4. /\ {} \in SUBSET Regions /\ Regions \in SUBSET Regions /\ TypedReads \in SUBSET Regions
        /\ {"info", "page", "typed", "chunk", "status"} \subseteq Events
    BY DEF Events, Regions, TypedReads
  <2> QED
    BY <1>4, <2>2, <2>3, <2>4 DEF SendInfo, Paint, EmitTyped, Export, SendStatus, StatusFails,
                EmitFails, Refuse
<1>5. CASE Leave
  BY <1>5, <1>a DEF Leave, Answered, output, Complete
<1>6. CASE Killed
  <2>1. code = "none" /\ code' = "signal" /\ UNCHANGED <<received, sent>>
    BY <1>6 DEF Killed, Answered, output
  <2> QED
    BY <2>1, <1>a DEF Complete
<1>7. CASE ParentLeaves
  BY <1>7, <1>b DEF ParentLeaves, output
<1> QED
  BY <1>1, <1>2, <1>3, <1>4, <1>5, <1>6, <1>7 DEF Next, Emit, Exited

\* The worker keeps its contract.
THEOREM ContractKept == Spec => KeepsContract
<1>1. Init => Contract!Init
  BY DEF Init, Contract!Init
<1>2. TypeOK /\ Cleared /\ Answered /\ [Next]_vars => [Contract!Next]_Contract!vars
  BY ContractStep DEF Contract!vars, Complete
<1> QED
  BY <1>1, <1>2, TypeCorrect, ClearedAlways, AnsweredAlways, PTL
     DEF Spec, KeepsContract, Contract!Spec
=============================================================================
