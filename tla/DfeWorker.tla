----------------------------- MODULE DfeWorker -----------------------------
(***************************************************************************)
(* The life of a committed document after the API: the outbox publisher,   *)
(* the worker Lambda with its processing lease, SEFAZ, the DLQ processor,  *)
(* the settlement of results, and the cancel/close/correction requests     *)
(* that send events through the same worker.                               *)
(*                                                                         *)
(* A row is a document or an event.  Every delivery of a row's message is  *)
(* an asynchronous Lambda job of its own (SNS and the outbox deliver at    *)
(* least once), and Lambda runs a job at most MaxAttempts times before the *)
(* DLQ processor gets it.  A worker attempt stops between any two of its   *)
(* steps: a timeout, a crash or a failed write.                            *)
(***************************************************************************)
EXTENDS Integers, FiniteSets

CONSTANTS
    Docs,            \* documents
    Events,          \* SEFAZ events users request on documents
    DocOf,           \* [Events -> Docs]
    EventKinds,      \* the kinds of event a user may request
    DocDeliveries,   \* bound: deliveries of an issuance message
    EventDeliveries, \* bound: deliveries of an event message
    MaxAttempts,     \* Lambda's tries of one job
    SkewedClocks     \* TRUE: a lease may look expired while its owner runs

Kinds == {"cancel", "close", "correction"}

ASSUME RowsAssumption == Docs \cap Events = {}
ASSUME EventsAssumption == DocOf \in [Events -> Docs] /\ EventKinds \subseteq Kinds
ASSUME BoundsAssumption ==
    DocDeliveries \in Nat \ {0} /\ EventDeliveries \in Nat \ {0} /\ MaxAttempts \in Nat \ {0}
ASSUME ClocksAssumption == SkewedClocks \in BOOLEAN

Rows == Docs \union Events
DeliveryBound(r) == IF r \in Docs THEN DocDeliveries ELSE EventDeliveries
Jobs == {j \in Rows \X (1..(DocDeliveries + EventDeliveries)) : j[2] <= DeliveryBound(j[1])}
RowOf(j) == j[1]

VARIABLES
    status,     \* the row's status attribute; "absent" before an event row exists
    owner,      \* processing_owner: the attempt that claimed the row last
    lease,      \* processing_lease_until, against the claimers' clocks
    outbox,     \* the document's worker_outbox row
    delivered,  \* deliveries of the row's message so far
    job,        \* each job: where its current attempt is, and what it learnt
    calls,      \* SEFAZ calls in flight, by the attempt that made them
    accepted,   \* rows SEFAZ has authorized or registered
    xml,        \* rows whose processed XML is stored in S3
    results,    \* result messages published so far: <<row, status>>
    reported,   \* documents whose usage was reported to billing
    refunded,   \* documents whose quota unit was given back
    api,        \* each event request: its kind, and how far the API is with it
    deadLettered, \* history: rows whose status the DLQ processor wrote
    finalized     \* history: rows a worker has finalized

rowVars == <<status, owner, lease>>
billingVars == <<reported, refunded>>
history == <<deadLettered, finalized>>
vars == <<rowVars, outbox, delivered, job, calls, accepted, xml, results,
          billingVars, api, history>>

NoOwner == <<>>
Attempts == Jobs \X (1..MaxAttempts)

DocTerminal == {"authorized", "rejected", "failed", "cancelled", "closed"}
EventTerminal == {"success", "error", "rejected"}
Terminal(r) == IF r \in Docs THEN DocTerminal ELSE EventTerminal
Open == {"pending", "retryable_failed", "cancel_pending", "close_pending"}
Statuses == DocTerminal \union EventTerminal \union Open \union {"absent", "processing"}

\* What an attempt learnt from SEFAZ or the engine.
Answers == {"none", "ok", "rejected", "duplicate", "alreadyCancelled", "alreadyClosed",
            "invalid", "transport"}
\* An attempt between its claim and the end of its work on the row.
Working == {"claimed", "waiting", "answered", "consulting", "docwrite", "final", "releasing"}
Running == Working \union {"readback", "publish"}
Places == Running \union {"none", "queued", "done", "dlq", "dlqpublish", "parked"}

Init ==
    \* Issuance has just committed every document with its outbox row.
    /\ status = [r \in Rows |-> IF r \in Docs THEN "pending" ELSE "absent"]
    /\ owner = [r \in Rows |-> NoOwner]
    /\ lease = [r \in Rows |-> "none"]
    /\ outbox = [d \in Docs |-> "pending"]
    /\ delivered = [r \in Rows |-> 0]
    /\ job = [j \in Jobs |-> [pc |-> "none", attempt |-> 0, ans |-> "none", pub |-> "absent"]]
    /\ calls = {}
    /\ accepted = {}
    /\ xml = {}
    /\ results = {}
    /\ reported = {}
    /\ refunded = {}
    /\ api \in [Events -> [pc : {"idle"}, kind : EventKinds]]
    /\ deadLettered = {}
    /\ finalized = {}

Me(j) == <<j, job[j].attempt>>
\* An attempt that ended keeps nothing of what it learnt.
Goto(j, place) ==
    job' = [job EXCEPT ![j] =
               [@ EXCEPT !.pc = place,
                         !.ans = IF place \in Running THEN job[j].ans ELSE "none",
                         !.pub = IF place \in Running THEN job[j].pub ELSE "absent"]]
\* Faulty variants of the next definition.
MutantAfterFailureOnceMore(j) == IF job[j].attempt <= MaxAttempts THEN "queued" ELSE "dlq"
MutantAfterFailureDropped(j) == IF job[j].attempt < MaxAttempts THEN "queued" ELSE "done"
\* Lambda retries a failed attempt, then hands the job to the DLQ processor.
AfterFailure(j) == IF job[j].attempt < MaxAttempts THEN "queued" ELSE "dlq"

-----------------------------------------------------------------------------
(* Publication of the command *)

\* One delivery of the row's message starts a job.
Deliver(r) ==
    /\ delivered[r] < DeliveryBound(r)
    /\ delivered' = [delivered EXCEPT ![r] = @ + 1]
    /\ job' = [job EXCEPT ![<<r, delivered[r] + 1>>].pc = "queued"]

\* processRecord publishes first; the record stays pending until acknowledged.
PublishOutbox(d) ==
    /\ outbox[d] = "pending"
    /\ Deliver(d)
    /\ UNCHANGED <<rowVars, outbox, calls, accepted, xml, results, billingVars, api, history>>

AckOutbox(d) ==
    /\ outbox[d] = "pending"
    /\ delivered[d] > 0
    /\ outbox' = [outbox EXCEPT ![d] = "published"]
    /\ UNCHANGED <<rowVars, delivered, job, calls, accepted, xml, results, billingVars, api, history>>

\* SNS or Lambda delivers a published message once more.
Redeliver(r) ==
    /\ delivered[r] > 0
    /\ Deliver(r)
    /\ UNCHANGED <<rowVars, outbox, calls, accepted, xml, results, billingVars, api, history>>

-----------------------------------------------------------------------------
(* The worker: claim *)

\* Faulty variants of the next definition.
MutantClaimableHeld(r) == status[r] \in Open \/ status[r] = "processing"
MutantClaimableAuthorized(r) ==
    status[r] \in Open \union {"authorized"} \/ (status[r] = "processing" /\ lease[r] = "expired")
\* claimProcessing's condition, the same for documents and events.
Claimable(r) == status[r] \in Open \/ (status[r] = "processing" /\ lease[r] = "expired")

StartAttempt(j, place) ==
    job' = [job EXCEPT ![j] = [@ EXCEPT !.pc = place, !.attempt = job[j].attempt + 1,
                                        !.ans = "none"]]

Claim(j) ==
    LET r == RowOf(j) IN
    /\ job[j].pc = "queued"
    /\ Claimable(r)
    /\ StartAttempt(j, "claimed")
    /\ status' = [status EXCEPT ![r] = "processing"]
    /\ owner' = [owner EXCEPT ![r] = <<j, job[j].attempt + 1>>]
    /\ lease' = [lease EXCEPT ![r] = "held"]
    /\ UNCHANGED <<outbox, delivered, calls, accepted, xml, results, billingVars, api, history>>

\* The conditional write failed: a consistent read decides why, later.  What
\* refuses it may be the lease of this job's own earlier attempt: Lambda tries
\* again 60 s and then 120 s after, and an attempt that died leaves a lease
\* that ends just past its deadline.
ClaimRefused(j) ==
    /\ job[j].pc = "queued"
    /\ ~Claimable(RowOf(j))
    /\ StartAttempt(j, "readback")
    /\ UNCHANGED <<rowVars, outbox, delivered, calls, accepted, xml, results, billingVars, api, history>>

\* A terminal row republishes its stored result; any other is another
\* worker's, and the attempt fails.
ReadBack(j) ==
    LET s == status[RowOf(j)] IN
    /\ job[j].pc = "readback"
    /\ job' = IF s \in Terminal(RowOf(j))
              THEN [job EXCEPT ![j] = [@ EXCEPT !.pc = "publish", !.pub = s]]
              ELSE [job EXCEPT ![j].pc = AfterFailure(j)]
    /\ UNCHANGED <<rowVars, outbox, delivered, calls, accepted, xml, results, billingVars, api, history>>

\* Time passes the end of a lease.  Leases outlive the attempt that took them
\* and its call (leaseFor), unless clocks are skewed.
LeaseExpires(r) ==
    LET o == owner[r] IN
    /\ lease[r] = "held"
    /\ \/ SkewedClocks
       \/ /\ o \notin calls
          /\ ~(job[o[1]].attempt = o[2] /\ job[o[1]].pc \in Working)
    /\ lease' = [lease EXCEPT ![r] = "expired"]
    /\ UNCHANGED <<status, owner, outbox, delivered, job, calls, accepted, xml, results,
                   billingVars, api, history>>

\* maxEventAge: Lambda gives up on a job it could not run, or rerun, in time.
AgeOut(j) ==
    /\ job[j].pc = "queued"
    /\ Goto(j, "dlq")
    /\ UNCHANGED <<rowVars, outbox, delivered, calls, accepted, xml, results, billingVars, api, history>>

-----------------------------------------------------------------------------
(* SEFAZ and the egress Lambda (external) *)

\* The attempt sends the row's request; the egress Lambda works on its own
\* even when the attempt that called it is gone.
Invoke(j) ==
    /\ job[j].pc = "claimed"
    /\ calls' = calls \union {Me(j)}
    /\ Goto(j, "waiting")
    /\ UNCHANGED <<rowVars, outbox, delivered, accepted, xml, results, billingVars, api, history>>

Registered(d, kind) == \E e \in Events : DocOf[e] = d /\ api[e].kind = kind /\ e \in accepted

\* What SEFAZ may answer to a request for row r: "ok" authorizes or registers it.
Verdicts(r) ==
    IF r \in Docs THEN IF r \in accepted THEN {"duplicate"} ELSE {"ok", "rejected"}
    ELSE LET d == DocOf[r] IN
         CASE d \notin accepted -> {"rejected"}
           [] Registered(d, "cancel") ->
                {IF api[r].kind = "correction" THEN "rejected" ELSE "alreadyCancelled"}
           [] Registered(d, "close") ->
                {IF api[r].kind = "correction" THEN "rejected" ELSE "alreadyClosed"}
           [] r \in accepted -> {"rejected"}   \* a correction sent again: 573
           [] OTHER -> {"ok", "rejected"}

IsWaiting(c) == Me(c[1]) = c /\ job[c[1]].pc = "waiting"

\* The call ends with answer "ans", heard only by an attempt still waiting.
Answered(c, ans) ==
    /\ calls' = calls \ {c}
    /\ job' = IF IsWaiting(c) THEN [job EXCEPT ![c[1]] = [@ EXCEPT !.pc = "answered",
                                                                   !.ans = ans]] ELSE job

\* SEFAZ decides.  Its answer may be lost: on the way to the engine, which
\* reports any failed exchange as a 400 ("invalid"), or on the way back to the
\* worker, as an Invoke error ("transport").
SefazDecides(c) ==
    /\ c \in calls
    /\ \E verdict \in Verdicts(RowOf(c[1])) :
          /\ accepted' = IF verdict = "ok" THEN accepted \union {RowOf(c[1])} ELSE accepted
          /\ \/ \E ans \in {verdict, "invalid", "transport"} : Answered(c, ans)
             \/ UNCHANGED <<calls, job>>   \* the engine posts the request again
    /\ UNCHANGED <<rowVars, outbox, delivered, xml, results, billingVars, api, history>>

\* The request never reached SEFAZ.
EngineFails(c) ==
    /\ c \in calls
    /\ \E ans \in {"invalid", "transport"} : Answered(c, ans)
    /\ UNCHANGED <<rowVars, outbox, delivered, accepted, xml, results, billingVars, api, history>>

-----------------------------------------------------------------------------
(* The worker: the answer *)

IsEnding(r) == r \in Events /\ api[r].kind \in {"cancel", "close"}

\* handleSefazResponse up to its first write: a transport failure is released
\* for retry, a 204 is reconciled, a success stores its XML first.
HandleAnswer(j) ==
    LET r == RowOf(j)
        ans == job[j].ans IN
    /\ job[j].pc = "answered"
    /\ Goto(j, CASE ans = "transport" -> "releasing"
                 [] ans = "duplicate" -> "consulting"
                 [] OTHER -> IF IsEnding(r) THEN "docwrite" ELSE "final")
    /\ xml' = IF ans = "ok" THEN xml \union {r} ELSE xml
    /\ UNCHANGED <<rowVars, outbox, delivered, calls, accepted, results, billingVars, api, history>>

\* reconcileDuplicateAuthorization: when the consulta says authorized the 204
\* goes on as an "ok" with its XML rebuilt; anything else, the engine's 400 for
\* a failed exchange included, leaves a rejection.  A cancelled or closed
\* document consults as such.
ConsultaSays(d) ==
    IF Registered(d, "cancel") \/ Registered(d, "close") THEN {"rejected"} ELSE {"ok", "rejected"}

Consult(j) ==
    /\ job[j].pc = "consulting"
    /\ \E ans \in ConsultaSays(RowOf(j)) :
          job' = [job EXCEPT ![j] = [@ EXCEPT !.pc = "answered", !.ans = ans]]
    /\ UNCHANGED <<rowVars, outbox, delivered, calls, accepted, xml, results, billingVars, api, history>>

\* Faulty variants of the next definition.
MutantEventDocRequested(e, ans) == IF api[e].kind = "cancel" THEN "cancelled" ELSE "closed"
\* The document status a cancel or close event ends in: rejectedEventDocStatus
\* for a rejection, authorized for an invalid request.
EventDocStatus(e, ans) ==
    CASE ans = "ok" -> IF api[e].kind = "cancel" THEN "cancelled" ELSE "closed"
      [] ans = "alreadyCancelled" -> "cancelled"
      [] ans = "alreadyClosed" -> "closed"
      [] OTHER -> "authorized"

\* A faulty variant of the next definition: a failed write is ignored.
MutantWriteDocIgnored(j) ==
    /\ job[j].pc = "docwrite"
    /\ Goto(j, "final")
    /\ UNCHANGED <<rowVars, outbox, delivered, calls, accepted, xml, results, billingVars, api, history>>
\* updateStatus: the document's status alone, unconditionally; its owner and
\* lease stay.
WriteDoc(j) ==
    LET e == RowOf(j) IN
    /\ job[j].pc = "docwrite"
    /\ status' = [status EXCEPT ![DocOf[e]] = EventDocStatus(e, job[j].ans)]
    /\ Goto(j, "final")
    /\ UNCHANGED <<owner, lease, outbox, delivered, calls, accepted, xml, results,
                   billingVars, api, history>>

\* The row's own last status.
FinalStatus(r, ans) ==
    CASE ans = "ok" -> IF r \in Docs THEN "authorized" ELSE "success"
      [] ans = "invalid" -> IF r \in Docs THEN "failed" ELSE "error"
      [] OTHER -> "rejected"

\* The condition of updateDocumentStatus and updateClaimedEvent.
Owns(j) == owner[RowOf(j)] = Me(j)

Finalize(j) ==
    LET r == RowOf(j)
        s == FinalStatus(r, job[j].ans) IN
    /\ job[j].pc = "final"
    /\ Owns(j)
    /\ status' = [status EXCEPT ![r] = s]
    /\ owner' = [owner EXCEPT ![r] = NoOwner]
    /\ lease' = [lease EXCEPT ![r] = "none"]
    /\ job' = [job EXCEPT ![j] = [@ EXCEPT !.pc = "publish", !.pub = s]]
    /\ finalized' = finalized \union {r}
    /\ UNCHANGED <<outbox, delivered, calls, accepted, xml, results, billingVars, api, deadLettered>>

\* Another attempt took the row: neither the status nor markRetryable is written.
LostOwnership(j) ==
    /\ job[j].pc \in {"final", "releasing"}
    /\ ~Owns(j)
    /\ Goto(j, AfterFailure(j))
    /\ UNCHANGED <<rowVars, outbox, delivered, calls, accepted, xml, results, billingVars, api, history>>

\* The certificate, the consulta, the XML or a status write failed.  After an
\* engine 4xx the failure is returned as it is, and the attempt just ends.
StepFails(j) ==
    /\ \/ job[j].pc \in {"claimed", "consulting"}
       \/ job[j].pc \in {"answered", "docwrite", "final"} /\ job[j].ans # "invalid"
    /\ Goto(j, "releasing")
    /\ UNCHANGED <<rowVars, outbox, delivered, calls, accepted, xml, results, billingVars, api, history>>

\* markRetryable, with the same condition, before the error is returned.
MarkRetryable(j) ==
    LET r == RowOf(j) IN
    /\ job[j].pc = "releasing"
    /\ Owns(j)
    /\ status' = [status EXCEPT ![r] = "retryable_failed"]
    /\ owner' = [owner EXCEPT ![r] = NoOwner]
    /\ lease' = [lease EXCEPT ![r] = "none"]
    /\ Goto(j, AfterFailure(j))
    /\ UNCHANGED <<outbox, delivered, calls, accepted, xml, results, billingVars, api, history>>

\* Publish the result; the attempt may die before Lambda sees it succeed.
Publish(j) ==
    /\ job[j].pc = "publish"
    /\ results' = results \union {<<RowOf(j), job[j].pub>>}
    /\ \E place \in {"done", AfterFailure(j)} : Goto(j, place)
    /\ UNCHANGED <<rowVars, outbox, delivered, calls, accepted, xml, billingVars, api, history>>

\* A timeout or crash anywhere, or a failed publication: nothing is written.
Crash(j) ==
    /\ job[j].pc \in Running
    /\ Goto(j, AfterFailure(j))
    /\ UNCHANGED <<rowVars, outbox, delivered, calls, accepted, xml, results, billingVars, api, history>>

-----------------------------------------------------------------------------
(* The DLQ processor *)

DlqStatus(r) == IF r \in Docs THEN "failed" ELSE "error"

\* writeTerminalStatus: whatever the row's status, and without its owner.
DlqWrite(j) ==
    LET r == RowOf(j) IN
    /\ job[j].pc = "dlq"
    /\ status' = [status EXCEPT ![r] = DlqStatus(r)]
    /\ deadLettered' = deadLettered \union {r}
    /\ Goto(j, "dlqpublish")
    /\ UNCHANGED <<owner, lease, outbox, delivered, calls, accepted, xml, results,
                   billingVars, api, finalized>>

DlqPublish(j) ==
    /\ job[j].pc = "dlqpublish"
    /\ results' = results \union {<<RowOf(j), DlqStatus(RowOf(j))>>}
    /\ Goto(j, "done")
    /\ UNCHANGED <<rowVars, outbox, delivered, calls, accepted, xml, billingVars, api, history>>

\* A failure of the processor starts it over, and in the end parks the job.
DlqFails(j) ==
    /\ job[j].pc \in {"dlq", "dlqpublish"}
    /\ \E place \in {"dlq", "parked"} : Goto(j, place)
    /\ UNCHANGED <<rowVars, outbox, delivered, calls, accepted, xml, results, billingVars, api, history>>

-----------------------------------------------------------------------------
(* Settlement, and the API's event requests *)

\* settleBilling: usage of an authorized document, the unit of any other back.
Settle(d, s) ==
    /\ <<d, s>> \in results
    /\ \/ s = "authorized" /\ reported' = reported \union {d} /\ UNCHANGED refunded
       \/ s \in {"rejected", "failed"} /\ refunded' = refunded \union {d} /\ UNCHANGED reported
    /\ UNCHANGED <<rowVars, outbox, delivered, job, calls, accepted, xml, results, api, history>>

ApiGoto(e, place) == api' = [api EXCEPT ![e].pc = place]

\* Cancel, Close and CorrectionLetter read an authorized document ...
ApiRead(e) ==
    /\ api[e].pc = "idle"
    /\ status[DocOf[e]] = "authorized"
    /\ ApiGoto(e, "read")
    /\ UNCHANGED <<rowVars, outbox, delivered, job, calls, accepted, xml, results, billingVars, history>>

\* ... create the event row ...
ApiCreateEvent(e) ==
    /\ api[e].pc = "read"
    /\ status' = [status EXCEPT ![e] = "pending"]
    /\ ApiGoto(e, IF IsEnding(e) THEN "created" ELSE "marked")
    /\ UNCHANGED <<owner, lease, outbox, delivered, job, calls, accepted, xml, results,
                   billingVars, history>>

\* ... mark the document, whatever it is by now ...
ApiMark(e) ==
    /\ api[e].pc = "created"
    /\ status' = [status EXCEPT ![DocOf[e]] =
                    IF api[e].kind = "cancel" THEN "cancel_pending" ELSE "close_pending"]
    /\ ApiGoto(e, "marked")
    /\ UNCHANGED <<owner, lease, outbox, delivered, job, calls, accepted, xml, results,
                   billingVars, history>>

\* ... and publish the event's command straight to SNS, with no outbox.
ApiPublish(e) ==
    /\ api[e].pc = "marked"
    /\ Deliver(e)
    /\ ApiGoto(e, "sent")
    /\ UNCHANGED <<rowVars, outbox, calls, accepted, xml, results, billingVars, history>>

\* A write or the publication fails, or the API task stops: the request ends.
ApiFails(e) ==
    /\ api[e].pc \in {"read", "created", "marked"}
    /\ ApiGoto(e, "failed")
    /\ UNCHANGED <<rowVars, outbox, delivered, job, calls, accepted, xml, results, billingVars, history>>

-----------------------------------------------------------------------------
DlqStep(j) == DlqWrite(j) \/ DlqPublish(j) \/ DlqFails(j)
WorkerStep(j) ==
    \/ Claim(j) \/ ClaimRefused(j) \/ ReadBack(j) \/ AgeOut(j)
    \/ Invoke(j) \/ HandleAnswer(j) \/ Consult(j) \/ WriteDoc(j)
    \/ Finalize(j) \/ LostOwnership(j) \/ StepFails(j) \/ MarkRetryable(j)
    \/ Publish(j) \/ Crash(j)
ApiStep(e) == ApiRead(e) \/ ApiCreateEvent(e) \/ ApiMark(e) \/ ApiPublish(e) \/ ApiFails(e)
SefazStep(c) == SefazDecides(c) \/ EngineFails(c)

Next ==
    \/ \E d \in Docs : PublishOutbox(d) \/ AckOutbox(d)
    \/ \E r \in Rows : Redeliver(r) \/ LeaseExpires(r)
    \/ \E j \in Jobs : WorkerStep(j) \/ DlqStep(j)
    \/ \E c \in Attempts : SefazStep(c)
    \/ \E d \in Docs, s \in {"authorized", "rejected", "failed"} : Settle(d, s)
    \/ \E e \in Events : ApiStep(e)

Spec == Init /\ [][Next]_vars

\* The DynamoDB stream retries a record until it is published, Lambda runs
\* every job it accepted and kills an attempt at its deadline, an egress call
\* ends by its own timeout, time passes, the results consumer keeps polling, an
\* API request that started ends.
\* A DLQ job is tried a few times and then parked: it cannot loop.
Fairness ==
    /\ \A d \in Docs : WF_vars(PublishOutbox(d))
    /\ \A r \in Rows : WF_vars(LeaseExpires(r))
    /\ \A j \in Jobs : WF_vars(WorkerStep(j)) /\ WF_vars(DlqStep(j))
    /\ \A j \in Jobs : SF_vars(DlqPublish(j) \/ (DlqFails(j) /\ job'[j].pc = "parked"))
    /\ \A c \in Attempts : WF_vars(SefazStep(c))
    /\ \A d \in Docs, s \in {"authorized", "rejected", "failed"} : WF_vars(Settle(d, s))
    /\ \A e \in Events : WF_vars(api[e].pc # "idle" /\ ApiStep(e))

FairSpec == Spec /\ Fairness

-----------------------------------------------------------------------------
(* Properties *)

\* Every variable has its type: the one type invariant of the module.
TypeOK ==
    /\ status \in [Rows -> Statuses]
    /\ owner \in [Rows -> Attempts \union {NoOwner}]
    /\ lease \in [Rows -> {"none", "held", "expired"}]
    /\ outbox \in [Docs -> {"pending", "published"}]
    /\ delivered \in [Rows -> Nat] /\ \A r \in Rows : delivered[r] <= DeliveryBound(r)
    /\ job \in [Jobs -> [pc : Places, attempt : 0..MaxAttempts, ans : Answers,
                         pub : Statuses]]
    /\ calls \subseteq Attempts
    /\ accepted \subseteq Rows
    /\ xml \subseteq Rows
    /\ results \subseteq Rows \X Statuses
    /\ reported \subseteq Docs
    /\ refunded \subseteq Docs
    /\ api \in [Events -> [pc : {"idle", "read", "created", "marked", "sent", "failed"},
                         kind : EventKinds]]
    /\ deadLettered \subseteq Rows
    /\ finalized \subseteq Rows

\* The attempts at work on a row, their calls included.
Engaged(r) ==
    {a \in Attempts : RowOf(a[1]) = r
        /\ (a \in calls \/ (Me(a[1]) = a /\ job[a[1]].pc \in Working))}

\* Rows no user has requested an event on.
Quiet(r) == r \in Events \/ \A e \in Events : DocOf[e] = r => api[e].pc = "idle"

\* The claim and its lease keep two attempts from working on one row, a call
\* left behind by a dead attempt counted: SEFAZ never has two requests for the
\* same row at once.  (An event's writes put its document back
\* into a claimable status: a late delivery of the document may claim it then.)
OneWorkerPerRow == \A r \in Rows : Quiet(r) => Cardinality(Engaged(r)) <= 1

\* A document the row calls authorized, or anything that comes after it, was
\* authorized by SEFAZ and its XML is stored; the same for a successful event;
\* and "cancelled" or "closed" is only ever said of a document SEFAZ cancelled
\* or closed, whichever of the two events learnt it.
StatusIsReal ==
    /\ \A d \in Docs :
          /\ status[d] \in {"authorized", "cancel_pending", "close_pending", "cancelled", "closed"}
                => d \in accepted \intersect xml
          /\ status[d] = "cancelled" => Registered(d, "cancel")
          /\ status[d] = "closed" => Registered(d, "close")
    /\ \A e \in Events : status[e] = "success" => e \in accepted \intersect xml

\* A job that may still end its row, or leave it to the DLQ processor or the
\* parking queue.
UnderWay(r) ==
    \E j \in Jobs : RowOf(j) = r /\ job[j].pc \notin {"none", "publish", "done", "dlqpublish"}

\* A document waits for a cancellation or a close only while a request for that
\* very event is about to publish its command, has a job under way, failed in
\* the API or was given up by the DLQ processor: a worker never ends the event
\* and leaves the document behind.
PendingHasRequest ==
    \A d \in Docs, kind \in {"cancel", "close"} :
        status[d] = (IF kind = "cancel" THEN "cancel_pending" ELSE "close_pending") =>
            \E e \in Events :
                /\ DocOf[e] = d /\ api[e].kind = kind
                /\ api[e].pc \in {"marked", "failed"} \/ UnderWay(e) \/ e \in deadLettered

\* A row a worker has finalized is not sent to SEFAZ again, whatever is
\* delivered late or twice.
NoCallAfterFinal ==
    [][\A c \in calls' \ calls : Quiet(RowOf(c[1])) => RowOf(c[1]) \notin finalized]_vars

\* Only the DLQ processor changes a terminal status.
TerminalIsFinal ==
    [][\A r \in Rows : status[r] \in Terminal(r) /\ Quiet(r)' /\ r \notin deadLettered'
          => status'[r] = status[r]]_vars

\* A document's usage is reported and its unit given back only if the DLQ
\* processor overwrote what a worker had already decided.
SettledOnce == (\A e \in Events : api[e].pc = "idle") => reported \intersect refunded \subseteq deadLettered

\* What SEFAZ holds of a document, what its row says, and who asked for more.
SefazHolds(d) ==
    {fact \in {"authorized", "cancelled", "closed"} :
        \/ fact = "authorized" /\ d \in accepted
        \/ fact = "cancelled" /\ Registered(d, "cancel")
        \/ fact = "closed" /\ Registered(d, "close")}
RowSays(d) == IF status[d] \in DocTerminal THEN status[d] ELSE "open"
DocSefaz == [d \in Docs |-> SefazHolds(d)]
DocRow == [d \in Docs |-> RowSays(d)]
DocAsked == {d \in Docs : ~Quiet(d)}

\* Every document lives the life FiscalDocument allows: SEFAZ authorizes it
\* once, its row is decided once and never lies, and billing learns the
\* decision, however often its message is delivered and wherever an attempt
\* stops.
Document == INSTANCE FiscalDocument WITH
    sefaz <- DocSefaz,
    stored <- xml \intersect Docs,
    row <- DocRow,
    overruled <- deadLettered \intersect Docs,
    asked <- DocAsked,
    returned <- refunded

DocumentSpec == Document!Spec

Parked(r) == \E j \in Jobs : RowOf(j) = r /\ job[j].pc = "parked"

\* Every committed document ends with a status that stays, or in the parking
\* queue: no crash, lost answer or held lease leaves it in processing.
EveryDocumentEnds == \A d \in Docs : <>[](status[d] \in DocTerminal \/ Parked(d))

\* What a worker decided reaches billing, even when publishing it fails.
SettlementArrives ==
    \A d \in Docs : d \in finalized ~> (d \in reported \union refunded \/ Parked(d))

-----------------------------------------------------------------------------
(* What the repository's documents say, and the code does not do *)

\* A delivery of a terminal row never rewrites its status.
TerminalStatusKept ==
    [][\A d \in Docs : status[d] \in DocTerminal => status'[d] = status[d]]_vars

\* A failure between the engine and SEFAZ is retried: a document SEFAZ
\* authorized is not finalized as failed.
TransportIsRetried ==
    \A d \in Docs : status[d] = "failed" /\ d \in accepted => d \in deadLettered

=============================================================================
