---------------------- MODULE DfeWorkerOwnershipProofs ----------------------
(***************************************************************************)
(* More theorems about DfeWorker: who may write a row, and what is final.  *)
(* A decided status stays and is settled once even when clocks are skewed; *)
(* one attempt works on a row, and none after its end, when they are not.  *)
(* From these: DfeWorker implements FiscalDocument, clocks skewed or not,  *)
(* and three documented claims hold under the conditions they name.        *)
(* Last, nothing is lost on the way: a delivered row is decided or has a   *)
(* job under way, a decision is published, a waiting document is asked of. *)
(***************************************************************************)
EXTENDS DfeWorkerProofs, FiniteSetTheorems

USE DEF rowVars, billingVars, history

-----------------------------------------------------------------------------
(* What the steps do to a job, and to a row *)

\* An attempt starts.
LEMMA JobStarts ==
    ASSUME TypeOK, NEW j \in Jobs, NEW place \in Places, StartAttempt(j, place)
    PROVE  /\ job'[j].pc = place /\ job'[j].attempt = job[j].attempt + 1
           /\ \A k \in Jobs : k # j => job'[k] = job[k]
<1> DEFINE rec == [job[j] EXCEPT !.pc = place, !.attempt = job[j].attempt + 1, !.ans = "none"]
<1>1. job \in [Jobs -> JobType] /\ job[j] \in JobType
  BY DEF TypeOK, JobType
<1>2. job' = [job EXCEPT ![j] = rec]
  BY <1>1 DEF StartAttempt
<1>3. rec.pc = place /\ rec.attempt = job[j].attempt + 1
  BY <1>1 DEF JobType
<1> HIDE DEF rec
<1> QED BY <1>1, <1>2, <1>3

\* A delivery queues a job that has not run.
LEMMA JobDelivered ==
    ASSUME TypeOK, JobsSound, NEW r \in Rows, Deliver(r)
    PROVE  \E j \in Jobs :
              /\ RowOf(j) = r /\ job[j].pc = "none" /\ job[j].attempt = 0
              /\ job'[j].pc = "queued" /\ job'[j].attempt = 0 /\ job'[j].pub = job[j].pub
              /\ \A k \in Jobs : k # j => job'[k] = job[k]
              /\ delivered' = [delivered EXCEPT ![r] = delivered[r] + 1]
<1> DEFINE new == <<r, delivered[r] + 1>>
<1>1. delivered[r] \in Nat /\ delivered[r] < DeliveryBound(r)
  BY DEF Deliver, TypeOK
<1>2. DeliveryBound(r) \in Nat /\ DeliveryBound(r) <= DocDeliveries + EventDeliveries
  BY BoundsAssumption DEF DeliveryBound
<1>3. new \in Jobs /\ RowOf(new) = r /\ new[2] > delivered[r]
  BY <1>1, <1>2, BoundsAssumption DEF Jobs, RowOf
<1>4. job[new].pc = "none" /\ job[new].attempt = 0
  BY <1>3 DEF JobsSound
<1>5. /\ job' = [job EXCEPT ![new].pc = "queued"]
      /\ delivered' = [delivered EXCEPT ![r] = delivered[r] + 1]
  BY DEF Deliver
<1> HIDE DEF new
<1>6. /\ job'[new].pc = "queued" /\ job'[new].attempt = job[new].attempt
      /\ job'[new].pub = job[new].pub
      /\ \A k \in Jobs : k # new => job'[k] = job[k]
  BY <1>3, <1>5 DEF TypeOK
<1> QED BY <1>3, <1>4, <1>5, <1>6

\* A job that has started is of a row whose message was delivered.
LEMMA StartedIsDelivered ==
    ASSUME TypeOK, JobsSound, NEW j \in Jobs, job[j].pc # "none"
    PROVE  delivered[RowOf(j)] > 0
<1>1. RowOf(j) \in Rows /\ j[2] \in Nat /\ j[2] > 0 /\ delivered[RowOf(j)] \in Nat
  BY JobShape DEF TypeOK
<1>2. ~(j[2] > delivered[RowOf(j)])
  BY DEF JobsSound
<1> QED BY <1>1, <1>2

\* Only these steps write a status, an owner or the processor's history.
WritesRow ==
    \/ \E j \in Jobs : Claim(j) \/ WriteDoc(j) \/ Finalize(j) \/ MarkRetryable(j) \/ DlqWrite(j)
    \/ \E e \in Events : ApiCreateEvent(e) \/ ApiMark(e)

LEMMA RowsStay ==
    ASSUME [Next]_vars, ~WritesRow
    PROVE  UNCHANGED <<status, owner, deadLettered>>
<1>1. ASSUME NEW j \in Jobs, WorkerStep(j) \/ DlqStep(j)
      PROVE  UNCHANGED <<status, owner, deadLettered>>
  <2>1. CASE ClaimRefused(j) \/ ReadBack(j) \/ AgeOut(j) \/ Invoke(j) \/ HandleAnswer(j) \/ Consult(j)
    BY <2>1 DEF ClaimRefused, ReadBack, AgeOut, Invoke, HandleAnswer, Consult
  <2>2. CASE LostOwnership(j) \/ StepFails(j) \/ Publish(j) \/ Crash(j)
    BY <2>2 DEF LostOwnership, StepFails, Publish, Crash
  <2>3. CASE DlqPublish(j) \/ DlqFails(j)
    BY <2>3 DEF DlqPublish, DlqFails
  <2> QED BY <1>1, <2>1, <2>2, <2>3 DEF WorkerStep, DlqStep, WritesRow
<1>2. ASSUME NEW d \in Docs, PublishOutbox(d) \/ AckOutbox(d)
      PROVE  UNCHANGED <<status, owner, deadLettered>>
  BY <1>2 DEF PublishOutbox, AckOutbox
<1>3. ASSUME NEW r \in Rows, Redeliver(r) \/ LeaseExpires(r)
      PROVE  UNCHANGED <<status, owner, deadLettered>>
  BY <1>3 DEF Redeliver, LeaseExpires
<1>4. ASSUME NEW c \in Attempts, SefazStep(c)
      PROVE  UNCHANGED <<status, owner, deadLettered>>
  BY <1>4 DEF SefazStep, SefazDecides, EngineFails
<1>5. ASSUME NEW d \in Docs, NEW s \in {"authorized", "rejected", "failed"}, Settle(d, s)
      PROVE  UNCHANGED <<status, owner, deadLettered>>
  BY <1>5 DEF Settle
<1>6. ASSUME NEW e \in Events, ApiStep(e)
      PROVE  UNCHANGED <<status, owner, deadLettered>>
  BY <1>6 DEF ApiStep, ApiRead, ApiPublish, ApiFails, WritesRow
<1>7. CASE UNCHANGED vars
  BY <1>7 DEF vars
<1> QED BY <1>1, <1>2, <1>3, <1>4, <1>5, <1>6, <1>7 DEF Next

-----------------------------------------------------------------------------
(* Who owns a row *)

\* An owner is at work on its row: only the processor and, for a document, its
\* events write beside it.  An event row is created once, before its message.
OwnerInv ==
    /\ \A e \in Events : /\ api[e].pc \in {"idle", "read"} => status[e] = "absent"
                         /\ api[e].pc # "sent" => delivered[e] = 0
    /\ \A r \in Rows : delivered[r] = 0 => owner[r] = NoOwner
    /\ \A r \in Rows :
          owner[r] # NoOwner /\ Quiet(r) /\ r \notin deadLettered => status[r] = "processing"

\* How a step moves a row.
RowMoves(r) ==
    \/ status'[r] = status[r] /\ owner'[r] = owner[r]
    \/ owner'[r] = owner[r] /\ (~Quiet(r)' \/ r \in deadLettered')
    \/ status[r] \notin Terminal(r) /\ status'[r] = "processing" /\ delivered[r] > 0
    \/ owner[r] # NoOwner /\ owner'[r] = NoOwner
    \/ status[r] = "absent" /\ owner[r] = NoOwner /\ owner'[r] = NoOwner

LEMMA OpenIsNotTerminal ==
    ASSUME NEW r
    PROVE  /\ \A s \in Open \cup {"processing", "absent"} : s \notin Terminal(r)
           /\ "processing" \notin Open
BY DEF Open, Terminal, DocTerminal, EventTerminal

\* The events of a row with a started event job are not quiet.
LEMMA EventIsSent ==
    ASSUME TypeOK, JobsSound, OwnerInv, NEW j \in Jobs, job[j].pc # "none", RowOf(j) \in Events
    PROVE  api[RowOf(j)].pc = "sent" /\ ~Quiet(DocOf[RowOf(j)])
<1>1. delivered[RowOf(j)] > 0
  BY StartedIsDelivered
<1>2. api[RowOf(j)].pc = "sent"
  BY <1>1 DEF OwnerInv
<1>3. DocOf[RowOf(j)] \notin Events
  BY EventsAssumption, RowsAssumption
<1> QED BY <1>2, <1>3 DEF Quiet

LEMMA RowsMove ==
    ASSUME TypeOK, JobsSound, AnswersAreReal, OwnerInv, [Next]_vars, NEW r \in Rows
    PROVE  RowMoves(r)
<1>1. ASSUME NEW j \in Jobs, Claim(j) PROVE RowMoves(r)
  <2>1. RowOf(j) \in Rows /\ job[j].pc # "none" /\ status[RowOf(j)] \in Open \cup {"processing"}
    BY <1>1, JobShape DEF Claim, Claimable
  <2>2. delivered[RowOf(j)] > 0
    BY <2>1, StartedIsDelivered
  <2>3. CASE r = RowOf(j)
    BY <1>1, <2>1, <2>2, <2>3, OpenIsNotTerminal DEF Claim, RowMoves, TypeOK
  <2>4. CASE r # RowOf(j)
    BY <1>1, <2>4 DEF Claim, RowMoves, TypeOK
  <2> QED BY <2>3, <2>4
<1>2. ASSUME NEW j \in Jobs, WriteDoc(j) PROVE RowMoves(r)
  <2>1. /\ job[j].pc = "docwrite" /\ owner' = owner /\ api' = api
        /\ status' = [status EXCEPT ![DocOf[RowOf(j)]] = EventDocStatus(RowOf(j), job[j].ans)]
    BY <1>2 DEF WriteDoc
  <2>2. CASE r # DocOf[RowOf(j)]
    BY <2>1, <2>2 DEF RowMoves, TypeOK
  <2>3. CASE r = DocOf[RowOf(j)]
    <3>3. RowOf(j) \in Events
      BY <2>1 DEF AnswersAreReal, AnswerReal
    <3>1. ~Quiet(r)
      BY <2>1, <2>3, <3>3, EventIsSent
    <3>2. ~Quiet(r)'
      BY <2>1, <3>1 DEF Quiet
    <3> QED BY <2>1, <3>2 DEF RowMoves
  <2> QED BY <2>2, <2>3
<1>3. ASSUME NEW j \in Jobs, Finalize(j) \/ MarkRetryable(j) PROVE RowMoves(r)
  <2>1. owner[RowOf(j)] = Me(j) /\ owner' = [owner EXCEPT ![RowOf(j)] = NoOwner]
    BY <1>3 DEF Finalize, MarkRetryable, Owns
  <2>2. Me(j) # NoOwner
    BY DEF Me, NoOwner
  <2>3. \A x \in Rows : x # RowOf(j) => status'[x] = status[x] /\ owner'[x] = owner[x]
    BY <1>3 DEF Finalize, MarkRetryable, TypeOK
  <2>4. CASE r = RowOf(j)
    BY <2>1, <2>2, <2>4 DEF RowMoves, TypeOK
  <2> QED BY <2>3, <2>4 DEF RowMoves
<1>4. ASSUME NEW j \in Jobs, DlqWrite(j) PROVE RowMoves(r)
  BY <1>4 DEF DlqWrite, RowMoves, TypeOK
<1>5. ASSUME NEW e \in Events, ApiCreateEvent(e) PROVE RowMoves(r)
  <2>1. /\ api[e].pc = "read" /\ status' = [status EXCEPT ![e] = "pending"] /\ owner' = owner
    BY <1>5 DEF ApiCreateEvent
  <2>2. e \in Rows /\ status[e] = "absent" /\ owner[e] = NoOwner
    BY <2>1 DEF OwnerInv, Rows
  <2> QED BY <2>1, <2>2 DEF RowMoves, TypeOK
<1>6. ASSUME NEW e \in Events, ApiMark(e) PROVE RowMoves(r)
  <2>1. /\ owner' = owner /\ api' = [api EXCEPT ![e].pc = "marked"]
        /\ \A x \in Rows : x # DocOf[e] => status'[x] = status[x]
    BY <1>6 DEF ApiMark, ApiGoto, TypeOK
  <2>2. api'[e].pc = "marked" /\ DocOf[e] \notin Events
    BY <2>1, EventsAssumption, RowsAssumption DEF TypeOK
  <2>3. ~Quiet(DocOf[e])'
    BY <2>2 DEF Quiet
  <2> QED BY <2>1, <2>3 DEF RowMoves
<1>7. CASE ~WritesRow
  BY <1>7, RowsStay DEF RowMoves
<1> QED BY <1>1, <1>2, <1>3, <1>4, <1>5, <1>6, <1>7 DEF WritesRow

\* Requests move forward, and only a sent event's message is delivered.
LEMMA RequestsMove ==
    ASSUME TypeOK, JobsSound, OwnerInv, [Next]_vars
    PROVE  /\ \A e \in Events :
                 /\ api'[e].pc \in {"idle", "read"} => api[e].pc \in {"idle", "read"}
                 /\ api[e].pc = "sent" => api'[e].pc = "sent"
                 /\ delivered'[e] # delivered[e] => api'[e].pc = "sent"
           /\ \A r \in Rows : delivered'[r] >= delivered[r]
<1> DEFINE Moved ==
        /\ \A e \in Events :
              /\ api'[e].pc \in {"idle", "read"} => api[e].pc \in {"idle", "read"}
              /\ api[e].pc = "sent" => api'[e].pc = "sent"
              /\ delivered'[e] # delivered[e] => api'[e].pc = "sent"
        /\ \A r \in Rows : delivered'[r] >= delivered[r]
<1>1. \A r \in Rows : delivered[r] \in Nat
  BY DEF TypeOK
<1>2. CASE UNCHANGED <<api, delivered>>
  BY <1>1, <1>2
<1>3. ASSUME NEW r \in Rows, Deliver(r)
      PROVE  /\ \A q \in Rows : q # r => delivered'[q] = delivered[q]
             /\ \A q \in Rows : delivered'[q] >= delivered[q]
  <2>1. delivered' = [delivered EXCEPT ![r] = delivered[r] + 1]
    BY <1>3 DEF Deliver
  <2> QED BY <1>1, <2>1 DEF TypeOK
<1>4. ASSUME NEW d \in Docs, PublishOutbox(d) PROVE Moved
  <2>1. d \in Rows /\ d \notin Events /\ api' = api /\ Deliver(d)
    BY <1>4, RowsAssumption DEF PublishOutbox, Rows
  <2> QED BY <1>3, <2>1 DEF Rows
<1>5. ASSUME NEW r \in Rows, Redeliver(r) PROVE Moved
  <2>1. api' = api /\ Deliver(r) /\ delivered[r] > 0
    BY <1>5 DEF Redeliver
  <2>2. r \in Events => api[r].pc = "sent"
    BY <2>1 DEF OwnerInv
  <2> QED BY <1>3, <2>1, <2>2 DEF Rows
<1>6. ASSUME NEW e \in Events, ApiPublish(e) PROVE Moved
  <2>1. e \in Rows /\ Deliver(e) /\ api' = [api EXCEPT ![e].pc = "sent"]
    BY <1>6 DEF ApiPublish, ApiGoto, Rows
  <2>2. api'[e].pc = "sent" /\ \A f \in Events : f # e => api'[f] = api[f]
    BY <2>1 DEF TypeOK
  <2> QED BY <1>3, <2>1, <2>2 DEF Rows
<1>7. ASSUME NEW e \in Events, ApiRead(e) \/ ApiCreateEvent(e) \/ ApiMark(e) \/ ApiFails(e)
      PROVE  Moved
  <2>1. PICK place \in {"read", "created", "marked", "failed"} : ApiGoto(e, place)
    BY <1>7 DEF ApiRead, ApiCreateEvent, ApiMark, ApiFails
  <2>2. /\ api[e].pc \in {"idle", "read", "created", "marked"} /\ delivered' = delivered
        /\ place = "read" => api[e].pc = "idle" \/ api[e].pc = "read"
    BY <1>7, <2>1 DEF ApiRead, ApiCreateEvent, ApiMark, ApiFails, ApiGoto, TypeOK
  <2>3. api'[e].pc = place /\ \A f \in Events : f # e => api'[f] = api[f]
    BY <2>1 DEF ApiGoto, TypeOK
  <2> QED BY <1>1, <2>1, <2>2, <2>3
<1>8. ASSUME NEW j \in Jobs, WorkerStep(j) \/ DlqStep(j) PROVE UNCHANGED <<api, delivered>>
  <2>1. CASE Claim(j) \/ ClaimRefused(j) \/ ReadBack(j) \/ AgeOut(j) \/ Invoke(j) \/ HandleAnswer(j)
    BY <2>1 DEF Claim, ClaimRefused, ReadBack, AgeOut, Invoke, HandleAnswer
  <2>2. CASE Consult(j) \/ WriteDoc(j) \/ Finalize(j) \/ LostOwnership(j) \/ StepFails(j)
    BY <2>2 DEF Consult, WriteDoc, Finalize, LostOwnership, StepFails
  <2>3. CASE MarkRetryable(j) \/ Publish(j) \/ Crash(j)
    BY <2>3 DEF MarkRetryable, Publish, Crash
  <2>4. CASE DlqStep(j)
    BY <2>4 DEF DlqStep, DlqWrite, DlqPublish, DlqFails
  <2> QED BY <1>8, <2>1, <2>2, <2>3, <2>4 DEF WorkerStep
<1>9. ASSUME NEW d \in Docs, AckOutbox(d) PROVE UNCHANGED <<api, delivered>>
  BY <1>9 DEF AckOutbox
<1>10. ASSUME NEW r \in Rows, LeaseExpires(r) PROVE UNCHANGED <<api, delivered>>
  BY <1>10 DEF LeaseExpires
<1>11. ASSUME NEW c \in Attempts, SefazStep(c) PROVE UNCHANGED <<api, delivered>>
  BY <1>11 DEF SefazStep, SefazDecides, EngineFails
<1>12. ASSUME NEW d \in Docs, NEW s \in {"authorized", "rejected", "failed"}, Settle(d, s)
       PROVE  UNCHANGED <<api, delivered>>
  BY <1>12 DEF Settle
<1>13. CASE UNCHANGED vars
  BY <1>2, <1>13 DEF vars
<1> HIDE DEF Moved
<1>14. Moved
  BY <1>2, <1>4, <1>5, <1>6, <1>7, <1>8, <1>9, <1>10, <1>11, <1>12, <1>13 DEF Next, ApiStep, Moved
<1> QED BY <1>14 DEF Moved

\* An event row has no status before its request created it.
LEMMA AbsentStays ==
    ASSUME TypeOK, JobsSound, AnswersAreReal, OwnerInv, [Next]_vars, NEW e \in Events,
           api'[e].pc \in {"idle", "read"}
    PROVE  status'[e] = "absent"
<1>1. api[e].pc \in {"idle", "read"} /\ status[e] = "absent" /\ e \in Rows
  BY RequestsMove DEF OwnerInv, Rows
<1>2. ASSUME NEW j \in Jobs, Claim(j) \/ Finalize(j) \/ MarkRetryable(j) \/ DlqWrite(j)
      PROVE  status'[e] = status[e]
  <2>1. job[j].pc # "none"
    BY <1>2 DEF Claim, Finalize, MarkRetryable, DlqWrite
  <2>2. RowOf(j) # e
    BY <1>1, <2>1, EventIsSent
  <2>3. PICK s : status' = [status EXCEPT ![RowOf(j)] = s]
    BY <1>2 DEF Claim, Finalize, MarkRetryable, DlqWrite
  <2> QED BY <1>1, <2>2, <2>3 DEF TypeOK
<1>3. ASSUME NEW j \in Jobs, WriteDoc(j) PROVE status'[e] = status[e]
  <2>1. RowOf(j) \in Events
    BY <1>3 DEF WriteDoc, AnswersAreReal, AnswerReal
  <2>2. DocOf[RowOf(j)] # e
    BY <2>1, EventsAssumption, RowsAssumption
  <2> QED BY <1>3, <2>2 DEF WriteDoc, TypeOK
<1>4. ASSUME NEW f \in Events, ApiCreateEvent(f) PROVE status'[e] = status[e]
  <2>1. api'[f].pc \in {"created", "marked"}
    BY <1>4 DEF ApiCreateEvent, ApiGoto, TypeOK
  <2>2. f # e
    BY <2>1
  <2> QED BY <1>4, <2>2 DEF ApiCreateEvent, TypeOK
<1>5. ASSUME NEW f \in Events, ApiMark(f) PROVE status'[e] = status[e]
  <2>1. DocOf[f] # e
    BY EventsAssumption, RowsAssumption
  <2> QED BY <1>5, <2>1 DEF ApiMark, TypeOK
<1>6. CASE ~WritesRow
  BY <1>1, <1>6, RowsStay
<1> QED BY <1>1, <1>2, <1>3, <1>4, <1>5, <1>6 DEF WritesRow

\* What may not be known of a row any more was not known before.
LEMMA QuietStays ==
    ASSUME TypeOK, [Next]_vars, NEW r
    PROVE  Quiet(r)' => Quiet(r)
<1>1. \A e \in Events : api'[e].pc = "idle" => api[e].pc = "idle"
  BY GrewStep DEF Grew
<1> QED BY <1>1 DEF Quiet

LEMMA ProcessorRemembers ==
    ASSUME [Next]_vars
    PROVE  deadLettered \subseteq deadLettered'
<1>1. CASE ~WritesRow
  BY <1>1, RowsStay
<1>2. ASSUME NEW j \in Jobs, Claim(j) \/ WriteDoc(j) \/ Finalize(j) \/ MarkRetryable(j) \/ DlqWrite(j)
      PROVE  deadLettered \subseteq deadLettered'
  BY <1>2 DEF Claim, WriteDoc, Finalize, MarkRetryable, DlqWrite
<1>3. ASSUME NEW e \in Events, ApiCreateEvent(e) \/ ApiMark(e)
      PROVE  deadLettered \subseteq deadLettered'
  BY <1>3 DEF ApiCreateEvent, ApiMark
<1> QED BY <1>1, <1>2, <1>3 DEF WritesRow

LEMMA OwnerKept ==
    ASSUME TypeOK, JobsSound, AnswersAreReal, OwnerInv, [Next]_vars
    PROVE  OwnerInv'
<1>1. ASSUME NEW e \in Events
      PROVE  /\ api'[e].pc \in {"idle", "read"} => status'[e] = "absent"
             /\ api'[e].pc # "sent" => delivered'[e] = 0
  BY AbsentStays, RequestsMove DEF OwnerInv
<1>2. ASSUME NEW r \in Rows, delivered'[r] = 0 PROVE owner'[r] = NoOwner
  <2>1. delivered[r] \in Nat /\ delivered'[r] >= delivered[r]
    BY RequestsMove DEF TypeOK
  <2>2. delivered[r] = 0 /\ owner[r] = NoOwner
    BY <1>2, <2>1 DEF OwnerInv
  <2> QED BY <2>2, RowsMove DEF RowMoves
<1>3. ASSUME NEW r \in Rows, owner'[r] # NoOwner, Quiet(r)', r \notin deadLettered'
      PROVE  status'[r] = "processing"
  <2>1. Quiet(r) /\ r \notin deadLettered
    BY <1>3, QuietStays, ProcessorRemembers
  <2>2. RowMoves(r)
    BY RowsMove
  <2> QED BY <1>3, <2>1, <2>2 DEF RowMoves, OwnerInv
<1> QED BY <1>1, <1>2, <1>3 DEF OwnerInv

LEMMA AlwaysOwned ==
    Spec => [](TypeOK /\ JobsSound /\ StatusIsReal /\ AnswersAreReal /\ EventsHaveDocuments /\ OwnerInv)
<1>1. Init => OwnerInv
  <2> SUFFICES ASSUME Init PROVE OwnerInv
    OBVIOUS
  <2>1. \A e \in Events : e \in Rows /\ e \notin Docs
    BY RowsAssumption DEF Rows
  <2> QED BY <2>1 DEF Init, OwnerInv
<1>2. TypeOK /\ JobsSound /\ AnswersAreReal /\ OwnerInv /\ [Next]_vars => OwnerInv'
  BY OwnerKept
<1> QED BY <1>1, <1>2, TypesAndJobs, AlwaysReal, PTL DEF Spec

\* A terminal status of a row that is nobody else's stays.
LEMMA FinalStays ==
    ASSUME TypeOK, JobsSound, AnswersAreReal, OwnerInv, [Next]_vars, NEW r \in Rows,
           status[r] \in Terminal(r), Quiet(r)', r \notin deadLettered'
    PROVE  status'[r] = status[r] /\ owner[r] = NoOwner
<1>1. Quiet(r) /\ r \notin deadLettered
  BY QuietStays, ProcessorRemembers
<1>2. RowMoves(r) /\ owner[r] = NoOwner /\ status[r] # "absent"
  BY <1>1, RowsMove, OpenIsNotTerminal DEF OwnerInv
<1> QED BY <1>2 DEF RowMoves

\* Only the processor changes a terminal status of a row no user has asked an
\* event on, whatever is delivered twice, late or by skewed clocks.
THEOREM TerminalIsFinalHolds == Spec => TerminalIsFinal
<1>1. TypeOK /\ JobsSound /\ AnswersAreReal /\ OwnerInv /\ [Next]_vars
      => [\A r \in Rows : status[r] \in Terminal(r) /\ Quiet(r)' /\ r \notin deadLettered'
             => status'[r] = status[r]]_vars
  BY FinalStays
<1> QED BY <1>1, AlwaysOwned, PTL DEF Spec, TerminalIsFinal

-----------------------------------------------------------------------------
(* What is published and settled *)

\* What is said of a row is what its status says, unless the processor or an
\* event may have changed it.
Decided(r, s) == Quiet(r) /\ r \notin deadLettered => s \in Terminal(r) /\ status[r] = s

ResultsInv ==
    /\ \A j \in Jobs : /\ job[j].pc = "dlqpublish" => RowOf(j) \in deadLettered
                       /\ job[j].pc = "publish" => Decided(RowOf(j), job[j].pub)
    /\ \A r \in Rows, s \in Statuses : <<r, s>> \in results => Decided(r, s)
    /\ \A d \in reported : <<d, "authorized">> \in results
    /\ \A d \in refunded : <<d, "rejected">> \in results \/ <<d, "failed">> \in results

LEMMA DecidedStays ==
    ASSUME TypeOK, JobsSound, AnswersAreReal, OwnerInv, [Next]_vars, NEW r \in Rows, NEW s,
           Decided(r, s)
    PROVE  Decided(r, s)'
<1>1. ASSUME Quiet(r)', r \notin deadLettered' PROVE s \in Terminal(r) /\ status'[r] = s
  <2>1. Quiet(r) /\ r \notin deadLettered
    BY <1>1, QuietStays, ProcessorRemembers
  <2>2. s \in Terminal(r) /\ status[r] = s
    BY <2>1 DEF Decided
  <2> QED BY <1>1, <2>2, FinalStays
<1>2. Terminal(r)' = Terminal(r)
  BY DEF Terminal
<1> QED BY <1>1, <1>2 DEF Decided

LEMMA AfterFailureIs == \A j : AfterFailure(j) \in {"queued", "dlq"}
BY DEF AfterFailure

\* Where a moved job comes from.
LEMMA JobsMove ==
    ASSUME TypeOK, JobsSound, [Next]_vars, NEW k \in Jobs, job'[k] # job[k]
    PROVE  /\ job'[k].pc # "none"
           /\ job'[k].pc = "done" => Publish(k) \/ DlqPublish(k)
           /\ job'[k].pc = "publish" => ReadBack(k) \/ Finalize(k)
           /\ job'[k].pc = "dlqpublish" => DlqWrite(k)
           /\ job'[k].pc = "final" => WriteDoc(k) \/ HandleAnswer(k)
<1> DEFINE Moved ==
        /\ job'[k].pc # "none"
        /\ job'[k].pc = "done" => Publish(k) \/ DlqPublish(k)
        /\ job'[k].pc = "publish" => ReadBack(k) \/ Finalize(k)
        /\ job'[k].pc = "dlqpublish" => DlqWrite(k)
        /\ job'[k].pc = "final" => WriteDoc(k) \/ HandleAnswer(k)
        Special == {"none", "done", "publish", "dlqpublish", "final"}
<1>1. ASSUME NEW j \in Jobs, NEW place \in Places \ Special, Goto(j, place) PROVE Moved
  <2>1. j = k /\ job'[k].pc = place
    BY <1>1, JobGoes
  <2> QED BY <2>1
<1>2. ASSUME NEW j \in Jobs, NEW place \in Places, Goto(j, place) PROVE j = k /\ job'[k].pc = place
  BY <1>2, JobGoes
<1>3. ASSUME NEW j \in Jobs, Claim(j) \/ ClaimRefused(j) PROVE Moved
  <2>1. PICK place \in {"claimed", "readback"} : StartAttempt(j, place)
    BY <1>3 DEF Claim, ClaimRefused
  <2>2. j = k /\ job'[k].pc = place
    BY <2>1, JobStarts DEF Places, Running, Working
  <2> QED BY <2>1, <2>2
<1>4. ASSUME NEW j \in Jobs, AgeOut(j) \/ Invoke(j) \/ StepFails(j) PROVE Moved
  BY <1>1, <1>4 DEF AgeOut, Invoke, StepFails, Places, Running, Working
<1>5. ASSUME NEW j \in Jobs, HandleAnswer(j) \/ WriteDoc(j) PROVE Moved
  <2>1. PICK place \in {"releasing", "consulting", "docwrite", "final"} : Goto(j, place)
    BY <1>5 DEF HandleAnswer, WriteDoc
  <2>2. j = k /\ job'[k].pc = place
    BY <1>2, <2>1 DEF Places, Running, Working
  <2> QED BY <1>5, <2>1, <2>2
<1>6. ASSUME NEW j \in Jobs, Consult(j) PROVE Moved
  <2>1. PICK ans : job' = [job EXCEPT ![j] = [@ EXCEPT !.pc = "answered", !.ans = ans]]
    BY <1>6 DEF Consult
  <2>2. job'[k].pc = "answered"
    BY <2>1 DEF TypeOK
  <2> QED BY <2>2
<1>7. ASSUME NEW j \in Jobs, LostOwnership(j) \/ MarkRetryable(j) \/ Crash(j) PROVE Moved
  BY <1>1, <1>7, AfterFailureIs DEF LostOwnership, MarkRetryable, Crash, Places
<1>8. ASSUME NEW j \in Jobs, Publish(j) \/ DlqPublish(j) PROVE Moved
  <2>1. PICK place \in {"done", "queued", "dlq"} : Goto(j, place)
    BY <1>8, AfterFailureIs DEF Publish, DlqPublish
  <2>2. j = k /\ job'[k].pc = place
    BY <1>2, <2>1 DEF Places
  <2> QED BY <1>8, <2>1, <2>2
<1>9. ASSUME NEW j \in Jobs, DlqFails(j) PROVE Moved
  <2>1. PICK place \in {"dlq", "parked"} : Goto(j, place)
    BY <1>9 DEF DlqFails
  <2> QED BY <1>1, <2>1 DEF Places
<1>10. ASSUME NEW j \in Jobs, DlqWrite(j) PROVE Moved
  <2>1. Goto(j, "dlqpublish")
    BY <1>10 DEF DlqWrite
  <2>2. j = k /\ job'[k].pc = "dlqpublish"
    BY <1>2, <2>1 DEF Places
  <2> QED BY <1>10, <2>2
<1>11. ASSUME NEW j \in Jobs, ReadBack(j) PROVE Moved
  <2>1. j = k
    BY <1>11 DEF ReadBack, TypeOK
  <2>2. job'[k].pc \in {"publish", AfterFailure(k)}
    BY <1>11, <2>1 DEF ReadBack, TypeOK
  <2> QED BY <1>11, <2>1, <2>2, AfterFailureIs
<1>12. ASSUME NEW j \in Jobs, Finalize(j) PROVE Moved
  <2>1. PICK s : job' = [job EXCEPT ![j] = [@ EXCEPT !.pc = "publish", !.pub = s]]
    BY <1>12 DEF Finalize
  <2>2. j = k
    BY <2>1 DEF TypeOK
  <2>3. job'[k].pc = "publish"
    BY <2>1, <2>2 DEF TypeOK
  <2> QED BY <1>12, <2>2, <2>3
<1>13. ASSUME NEW r \in Rows, Deliver(r) PROVE Moved
  <2>1. job'[k].pc = "queued"
    BY <1>13, JobDelivered
  <2> QED BY <2>1
<1>14. ASSUME NEW c \in Attempts, SefazStep(c) PROVE Moved
  <2>1. PICK ans : Answered(c, ans) \/ job' = job
    BY <1>14 DEF SefazStep, SefazDecides, EngineFails
  <2>2. job' = [job EXCEPT ![c[1]] = [@ EXCEPT !.pc = "answered", !.ans = ans]]
    BY <2>1 DEF Answered
  <2>3. job'[k].pc = "answered"
    BY <2>2 DEF TypeOK
  <2> QED BY <2>3
<1>15. job' # job
  OBVIOUS
<1>16. ASSUME NEW d \in Docs, PublishOutbox(d) \/ AckOutbox(d) PROVE Moved
  BY <1>13, <1>15, <1>16 DEF PublishOutbox, AckOutbox, Rows
<1>17. ASSUME NEW r \in Rows, Redeliver(r) \/ LeaseExpires(r) PROVE Moved
  BY <1>13, <1>15, <1>17 DEF Redeliver, LeaseExpires
<1>18. ASSUME NEW d \in Docs, NEW s \in {"authorized", "rejected", "failed"}, Settle(d, s) PROVE Moved
  BY <1>15, <1>18 DEF Settle
<1>19. ASSUME NEW e \in Events, ApiStep(e) PROVE Moved
  BY <1>13, <1>15, <1>19 DEF ApiStep, ApiRead, ApiCreateEvent, ApiMark, ApiPublish, ApiFails, Rows
<1>20. CASE UNCHANGED vars
  BY <1>15, <1>20 DEF vars
<1> HIDE DEF Moved
<1>21. ASSUME NEW j \in Jobs, WorkerStep(j) \/ DlqStep(j) PROVE Moved
  BY <1>3, <1>4, <1>5, <1>6, <1>7, <1>8, <1>9, <1>10, <1>11, <1>12, <1>21 DEF WorkerStep, DlqStep
<1>22. Moved
  BY <1>14, <1>16, <1>17, <1>18, <1>19, <1>20, <1>21 DEF Next, Moved
<1> QED BY <1>22 DEF Moved

\* No job gets to a publication but from a terminal row or by ending one.
LEMMA PlainJobs ==
    ASSUME TypeOK, JobsSound, [Next]_vars,
           ~(\E j \in Jobs : ReadBack(j) \/ Finalize(j) \/ DlqWrite(j)), NEW k \in Jobs
    PROVE  job'[k] = job[k] \/ job'[k].pc \notin {"publish", "dlqpublish"}
BY JobsMove

LEMMA FinalIsTerminal == \A r \in Rows : \A ans : FinalStatus(r, ans) \in Terminal(r)
BY DEF FinalStatus, Terminal, DocTerminal, EventTerminal

\* A job that has a result to publish found it in the row.
LEMMA PublicationsReal ==
    ASSUME TypeOK, JobsSound, AnswersAreReal, OwnerInv, ResultsInv, [Next]_vars, NEW k \in Jobs
    PROVE  /\ job'[k].pc = "dlqpublish" => RowOf(k) \in deadLettered'
           /\ (job[k].pc = "publish" => Decided(RowOf(k), job[k].pub))'
<1> DEFINE Real == /\ job'[k].pc = "dlqpublish" => RowOf(k) \in deadLettered'
                   /\ (job[k].pc = "publish" => Decided(RowOf(k), job[k].pub))'
<1>1. RowOf(k) \in Rows
  BY JobShape
<1>2. CASE job'[k] = job[k]
  <2>1. job[k].pc = "dlqpublish" => RowOf(k) \in deadLettered'
    BY ProcessorRemembers DEF ResultsInv
  <2>2. ASSUME job[k].pc = "publish" PROVE Decided(RowOf(k), job[k].pub)'
    <3>1. PICK s : s = job[k].pub
      OBVIOUS
    <3>2. Decided(RowOf(k), s)
      BY <2>2, <3>1 DEF ResultsInv
    <3>3. Decided(RowOf(k), s)'
      BY <1>1, <3>2, DecidedStays
    <3> QED BY <1>2, <3>1, <3>3 DEF Decided
  <2>3. job'[k].pc = "publish" => Decided(RowOf(k), job[k].pub)'
    BY <1>2, <2>2
  <2> QED BY <1>2, <2>1, <2>3
<1>3. CASE job'[k].pc \notin {"publish", "dlqpublish"}
  BY <1>3
<1>4. ASSUME NEW j \in Jobs, ReadBack(j) PROVE Real
  <2>1. CASE k # j
    BY <1>2, <1>4, <2>1 DEF ReadBack, TypeOK
  <2>2. CASE k = j /\ status[RowOf(k)] \in Terminal(RowOf(k))
    <3>1. /\ job' = [job EXCEPT ![k] = [@ EXCEPT !.pc = "publish", !.pub = status[RowOf(k)]]]
          /\ status' = status
      BY <1>4, <2>2 DEF ReadBack
    <3>2. job'[k].pc = "publish" /\ job'[k].pub = status[RowOf(k)]
      BY <3>1 DEF TypeOK
    <3> QED BY <2>2, <3>1, <3>2 DEF Decided, Terminal
  <2>3. CASE k = j /\ status[RowOf(k)] \notin Terminal(RowOf(k))
    <3>1. job' = [job EXCEPT ![k].pc = AfterFailure(k)]
      BY <1>4, <2>3 DEF ReadBack
    <3>2. job'[k].pc = AfterFailure(k)
      BY <3>1 DEF TypeOK
    <3> QED BY <1>3, <3>2, AfterFailureIs
  <2> QED BY <2>1, <2>2, <2>3
<1>5. ASSUME NEW j \in Jobs, Finalize(j) PROVE Real
  <2> DEFINE s == FinalStatus(RowOf(j), job[j].ans)
  <2>1. /\ job' = [job EXCEPT ![j] = [@ EXCEPT !.pc = "publish", !.pub = s]]
        /\ status' = [status EXCEPT ![RowOf(j)] = s]
    BY <1>5 DEF Finalize
  <2>2. RowOf(j) \in Rows /\ s \in Terminal(RowOf(j))
    BY JobShape, FinalIsTerminal
  <2> HIDE DEF s
  <2>3. CASE k # j
    BY <1>2, <2>1, <2>3 DEF TypeOK
  <2>4. CASE k = j
    <3>1. job'[k].pc = "publish" /\ job'[k].pub = s /\ status'[RowOf(k)] = s
      BY <2>1, <2>2, <2>4 DEF TypeOK
    <3> QED BY <2>2, <2>4, <3>1 DEF Decided, Terminal
  <2> QED BY <2>3, <2>4
<1>6. ASSUME NEW j \in Jobs, DlqWrite(j) PROVE Real
  <2>1. /\ Goto(j, "dlqpublish") /\ deadLettered' = deadLettered \cup {RowOf(j)}
    BY <1>6 DEF DlqWrite
  <2>2. /\ job'[j].pc = "dlqpublish" /\ \A i \in Jobs : i # j => job'[i] = job[i]
    BY <2>1, JobGoes DEF Places
  <2> QED BY <1>2, <2>1, <2>2
<1>7. CASE ~(\E j \in Jobs : ReadBack(j) \/ Finalize(j) \/ DlqWrite(j))
  BY <1>2, <1>3, <1>7, PlainJobs
<1>8. Real
  BY <1>4, <1>5, <1>6, <1>7
<1> QED BY <1>8

\* A result is published by a worker that ended the row or read its end, or by
\* the processor; and billing settles nothing else.
LEMMA ResultsMove ==
    ASSUME TypeOK, JobsSound, ResultsInv, [Next]_vars
    PROVE  /\ results \subseteq results'
           /\ \A r \in Rows, s \in Statuses : <<r, s>> \in results' \ results =>
                 Decided(r, s)
           /\ \A d \in reported' \ reported : <<d, "authorized">> \in results
           /\ \A d \in refunded' \ refunded :
                 <<d, "rejected">> \in results \/ <<d, "failed">> \in results
<1> DEFINE Moved ==
        /\ results \subseteq results'
        /\ \A r \in Rows, s \in Statuses : <<r, s>> \in results' \ results => Decided(r, s)
        /\ \A d \in reported' \ reported : <<d, "authorized">> \in results
        /\ \A d \in refunded' \ refunded :
              <<d, "rejected">> \in results \/ <<d, "failed">> \in results
<1>1. CASE UNCHANGED <<results, reported, refunded>>
  BY <1>1
<1>2. ASSUME NEW j \in Jobs, Publish(j) PROVE Moved
  BY <1>2 DEF Publish, ResultsInv
<1>3. ASSUME NEW j \in Jobs, DlqPublish(j) PROVE Moved
  <2>1. Decided(RowOf(j), DlqStatus(RowOf(j)))
    BY <1>3 DEF DlqPublish, ResultsInv, Decided
  <2> QED BY <1>3, <2>1 DEF DlqPublish
<1>4. ASSUME NEW d \in Docs, NEW s \in {"authorized", "rejected", "failed"}, Settle(d, s)
      PROVE  Moved
  BY <1>4 DEF Settle
<1>5. ASSUME NEW j \in Jobs, WorkerStep(j) \/ DlqStep(j), ~Publish(j), ~DlqPublish(j)
      PROVE  UNCHANGED <<results, reported, refunded>>
  <2>1. CASE Claim(j) \/ ClaimRefused(j) \/ ReadBack(j) \/ AgeOut(j) \/ Invoke(j) \/ HandleAnswer(j)
    BY <2>1 DEF Claim, ClaimRefused, ReadBack, AgeOut, Invoke, HandleAnswer
  <2>2. CASE Consult(j) \/ WriteDoc(j) \/ Finalize(j) \/ LostOwnership(j) \/ StepFails(j)
    BY <2>2 DEF Consult, WriteDoc, Finalize, LostOwnership, StepFails
  <2>3. CASE MarkRetryable(j) \/ Crash(j)
    BY <2>3 DEF MarkRetryable, Crash
  <2>4. CASE DlqStep(j)
    BY <1>5, <2>4 DEF DlqStep, DlqWrite, DlqFails
  <2> QED BY <1>5, <2>1, <2>2, <2>3, <2>4 DEF WorkerStep
<1>6. ASSUME NEW d \in Docs, PublishOutbox(d) \/ AckOutbox(d)
      PROVE  UNCHANGED <<results, reported, refunded>>
  BY <1>6 DEF PublishOutbox, AckOutbox
<1>7. ASSUME NEW r \in Rows, Redeliver(r) \/ LeaseExpires(r)
      PROVE  UNCHANGED <<results, reported, refunded>>
  BY <1>7 DEF Redeliver, LeaseExpires
<1>8. ASSUME NEW c \in Attempts, SefazStep(c) PROVE UNCHANGED <<results, reported, refunded>>
  BY <1>8 DEF SefazStep, SefazDecides, EngineFails
<1>9. ASSUME NEW e \in Events, ApiStep(e) PROVE UNCHANGED <<results, reported, refunded>>
  BY <1>9 DEF ApiStep, ApiRead, ApiCreateEvent, ApiMark, ApiPublish, ApiFails
<1>10. CASE UNCHANGED vars
  BY <1>1, <1>10 DEF vars
<1>11. ASSUME NEW j \in Jobs, WorkerStep(j) \/ DlqStep(j) PROVE Moved
  BY <1>1, <1>2, <1>3, <1>5, <1>11
<1> HIDE DEF Moved
<1>12. Moved
  BY <1>1, <1>4, <1>6, <1>7, <1>8, <1>9, <1>10, <1>11 DEF Next, Moved
<1> QED BY <1>12 DEF Moved

LEMMA ResultsKept ==
    ASSUME TypeOK, JobsSound, AnswersAreReal, OwnerInv, ResultsInv, [Next]_vars
    PROVE  ResultsInv'
<1>1. ASSUME NEW r \in Rows, NEW s \in Statuses, <<r, s>> \in results' PROVE Decided(r, s)'
  <2>1. Decided(r, s)
    BY <1>1, ResultsMove DEF ResultsInv
  <2> QED BY <2>1, DecidedStays
<1>2. \A d \in reported' : <<d, "authorized">> \in results'
  BY ResultsMove DEF ResultsInv
<1>3. \A d \in refunded' : <<d, "rejected">> \in results' \/ <<d, "failed">> \in results'
  BY ResultsMove DEF ResultsInv
<1> QED BY <1>1, <1>2, <1>3, PublicationsReal DEF ResultsInv

LEMMA ResultsSettle ==
    ASSUME TypeOK, ResultsInv
    PROVE  SettledOnce
<1> SUFFICES ASSUME \A e \in Events : api[e].pc = "idle",
                    NEW d \in reported \cap refunded, d \notin deadLettered
             PROVE  FALSE
  BY DEF SettledOnce
<1>1. d \in Rows /\ Quiet(d) /\ {"authorized", "rejected", "failed"} \subseteq Statuses
  BY DEF TypeOK, Rows, Quiet, Statuses, DocTerminal
<1>2. <<d, "authorized">> \in results /\ (<<d, "rejected">> \in results \/ <<d, "failed">> \in results)
  BY DEF ResultsInv
<1>3. \A s \in Statuses : <<d, s>> \in results => status[d] = s
  BY <1>1 DEF ResultsInv, Decided
<1> QED BY <1>1, <1>2, <1>3

\* No document is both reported to billing and refunded unless the processor
\* wrote its row: two published results of one document would both be its
\* status.
THEOREM SettledOnceHolds == Spec => []SettledOnce
<1>1. Init => ResultsInv
  <2> SUFFICES ASSUME Init PROVE ResultsInv
    OBVIOUS
  <2>1. \A j \in Jobs : job[j].pc = "none"
    BY DEF Init
  <2> QED BY <2>1 DEF Init, ResultsInv
<1>2. TypeOK /\ JobsSound /\ AnswersAreReal /\ OwnerInv /\ ResultsInv /\ [Next]_vars => ResultsInv'
  BY ResultsKept
<1>3. TypeOK /\ ResultsInv => SettledOnce
  BY ResultsSettle
<1> QED BY <1>1, <1>2, <1>3, AlwaysOwned, PTL DEF Spec

-----------------------------------------------------------------------------
(* One worker per row, when clocks are not skewed *)

\* A call is of an attempt that has started, and of no attempt that has heard
\* its answer or has not asked yet.
CallsInv ==
    /\ \A c \in calls : c[2] <= job[c[1]].attempt
    /\ \A j \in Jobs : job[j].pc \in Working \ {"waiting"} => Me(j) \notin calls

\* Whoever is at work on a quiet row, its call included, is the owner, holds
\* the lease, and the row is not claimable; nobody works on a finalized one.
WorkedInv ==
    /\ \A r \in Rows : Quiet(r) =>
          \A a \in Engaged(r) : owner[r] = a /\ lease[r] = "held" /\ status[r] \notin Open
    /\ \A r \in finalized : Quiet(r) => status[r] \in Terminal(r) /\ Engaged(r) = {}

\* One job moves within its attempt, and makes no call.
LEMMA AttemptMoves ==
    ASSUME TypeOK, CallsInv, NEW j \in Jobs, \A k \in Jobs : k # j => job'[k] = job[k],
           job'[j].attempt = job[j].attempt, calls' = calls,
           job'[j].pc \in Working => job[j].pc \in Working \ {"waiting"}
    PROVE  CallsInv' /\ \A r : Engaged(r)' \subseteq Engaged(r)
<1>1. \A k \in Jobs : job'[k].attempt = job[k].attempt
  OBVIOUS
<1>2. \A k \in Jobs : job'[k].pc \in Working =>
         job[k].pc \in Working /\ (job'[k].pc # "waiting" => job[k].pc # "waiting")
  OBVIOUS
<1>3. \A c \in calls : c[1] \in Jobs
  BY DEF TypeOK, Attempts
<1>4. CallsInv'
  BY <1>1, <1>2, <1>3 DEF CallsInv, Me
<1>5. ASSUME NEW r, NEW a \in Engaged(r)' PROVE a \in Engaged(r)
  <2>1. a \in Attempts /\ a[1] \in Jobs /\ RowOf(a[1]) = r
    BY <1>5 DEF Engaged, Attempts
  <2> QED BY <1>1, <1>2, <1>5, <2>1 DEF Engaged, Me
<1> QED BY <1>4, <1>5

\* An attempt starts on a row.
LEMMA AttemptStarts ==
    ASSUME TypeOK, JobsSound, CallsInv, NEW j \in Jobs, job[j].pc = "queued",
           NEW place \in {"claimed", "readback"}, StartAttempt(j, place), calls' = calls
    PROVE  /\ CallsInv'
           /\ \A r : Engaged(r)' \subseteq Engaged(r) \cup
                        (IF place = "claimed" /\ r = RowOf(j) THEN {<<j, job[j].attempt + 1>>} ELSE {})
<1>1. /\ job'[j].pc = place /\ job'[j].attempt = job[j].attempt + 1
      /\ \A k \in Jobs : k # j => job'[k] = job[k]
  BY JobStarts DEF Places, Running, Working
<1>2. \A k \in Jobs : job[k].attempt \in Nat /\ job'[k].attempt \in Nat
                      /\ job'[k].attempt >= job[k].attempt
  BY <1>1 DEF TypeOK
<1>3. \A c \in calls : c[1] \in Jobs /\ c[2] \in Nat
  BY DEF TypeOK, Attempts
<1>4. \A c \in calls : c[2] <= job'[c[1]].attempt
  BY <1>2, <1>3 DEF CallsInv
<1>5. <<j, job[j].attempt + 1>> \notin calls
  BY <1>2 DEF CallsInv
<1>6. ASSUME NEW k \in Jobs, job'[k].pc \in Working \ {"waiting"} PROVE Me(k)' \notin calls
  BY <1>1, <1>5, <1>6 DEF CallsInv, Me
<1>7. CallsInv'
  BY <1>4, <1>6 DEF CallsInv
<1>8. ASSUME NEW r, NEW a \in Engaged(r)', a \notin Engaged(r)
      PROVE  place = "claimed" /\ r = RowOf(j) /\ a = <<j, job[j].attempt + 1>>
  <2>1. a \in Attempts /\ a[1] \in Jobs /\ RowOf(a[1]) = r /\ a \notin calls
    BY <1>8 DEF Engaged, Attempts
  <2>2. a = Me(a[1])' /\ job'[a[1]].pc \in Working
    BY <1>8, <2>1 DEF Engaged
  <2>3. a[1] = j
    BY <1>1, <1>8, <2>1, <2>2 DEF Engaged, Me
  <2>4. "readback" \notin Working
    BY DEF Working
  <2> QED BY <1>1, <2>1, <2>2, <2>3, <2>4 DEF Me
<1> QED BY <1>7, <1>8

\* An attempt makes its call.
LEMMA AttemptCalls ==
    ASSUME TypeOK, JobsSound, CallsInv, NEW j \in Jobs, Invoke(j)
    PROVE  /\ CallsInv' /\ \A r : Engaged(r)' \subseteq Engaged(r)
           /\ Me(j) \in Engaged(RowOf(j)) /\ calls' = calls \cup {Me(j)}
<1>1. /\ job[j].pc = "claimed" /\ Goto(j, "waiting") /\ calls' = calls \cup {Me(j)}
  BY DEF Invoke
<1>2. /\ job'[j].pc = "waiting" /\ job'[j].attempt = job[j].attempt
      /\ \A k \in Jobs : k # j => job'[k] = job[k]
  BY <1>1, JobGoes DEF Places, Running, Working
<1>3. Me(j) \in Attempts
  BY <1>1 DEF JobsSound, Running, Working, Me, Attempts, TypeOK
<1>4. Me(j) \in Engaged(RowOf(j))
  BY <1>1, <1>3 DEF Engaged, Me, Working
<1>5. \A k \in Jobs : job'[k].attempt = job[k].attempt /\ Me(k)' = Me(k) /\ job[k].attempt \in Nat
  BY <1>2 DEF Me, TypeOK
<1>6. \A c \in calls' : c[2] <= job'[c[1]].attempt
  <2>1. \A c \in calls : c[1] \in Jobs
    BY DEF TypeOK, Attempts
  <2> QED BY <1>1, <1>5, <2>1 DEF CallsInv, Me
<1>7. \A k \in Jobs : job'[k].pc \in Working \ {"waiting"} => Me(k)' \notin calls'
  BY <1>1, <1>2, <1>5 DEF CallsInv, Me
<1>8. CallsInv'
  BY <1>6, <1>7 DEF CallsInv
<1>9. ASSUME NEW r, NEW a \in Engaged(r)' PROVE a \in Engaged(r)
  <2>1. a \in Attempts /\ a[1] \in Jobs /\ RowOf(a[1]) = r
    BY <1>9 DEF Engaged, Attempts
  <2>2. CASE a = Me(j)
    BY <1>4, <2>1, <2>2 DEF Me
  <2>3. CASE a # Me(j)
    <3>1. a \in calls' => a \in calls
      BY <1>1, <2>3
    <3>2. Me(a[1])' = a => job'[a[1]] = job[a[1]] /\ Me(a[1]) = a
      BY <1>2, <1>5, <2>1, <2>3
    <3> QED BY <1>9, <2>1, <3>1, <3>2 DEF Engaged
  <2> QED BY <2>2, <2>3
<1> QED BY <1>1, <1>4, <1>8, <1>9

\* A call ends.
LEMMA CallEnds ==
    ASSUME TypeOK, JobsSound, CallsInv, NEW c \in Attempts, NEW ans, Answered(c, ans)
    PROVE  CallsInv' /\ \A r : Engaged(r)' \subseteq Engaged(r)
<1>1. c[1] \in Jobs /\ calls' = calls \ {c}
  BY DEF Attempts, Answered
<1>2. CASE ~IsWaiting(c)
  <2>1. job' = job
    BY <1>2 DEF Answered
  <2>2. CallsInv'
    BY <1>1, <2>1 DEF CallsInv, Me
  <2>3. \A r : Engaged(r)' \subseteq Engaged(r)
    BY <1>1, <2>1 DEF Engaged, Me
  <2> QED BY <2>2, <2>3
<1>3. CASE IsWaiting(c)
  <2>1. job' = [job EXCEPT ![c[1]] = [@ EXCEPT !.pc = "answered", !.ans = ans]]
    BY <1>3 DEF Answered
  <2>2. /\ job'[c[1]].pc = "answered" /\ job'[c[1]].attempt = job[c[1]].attempt
        /\ \A k \in Jobs : k # c[1] => job'[k] = job[k]
    BY <1>1, <2>1 DEF TypeOK
  <2>3. Me(c[1]) = c /\ job[c[1]].pc = "waiting"
    BY <1>3 DEF IsWaiting
  <2>4. \A k \in Jobs : Me(k)' = Me(k) /\ job'[k].attempt = job[k].attempt
    BY <2>2 DEF Me
  <2>5. CallsInv'
    <3>1. \A x \in calls' : x \in calls /\ x[1] \in Jobs
      BY <1>1 DEF TypeOK, Attempts
    <3>2. \A x \in calls' : x[2] <= job'[x[1]].attempt
      BY <2>4, <3>1 DEF CallsInv
    <3>3. \A k \in Jobs : job'[k].pc \in Working \ {"waiting"} => Me(k)' \notin calls'
      BY <1>1, <2>2, <2>3, <2>4 DEF CallsInv
    <3> QED BY <3>2, <3>3 DEF CallsInv
  <2>6. ASSUME NEW r, NEW a \in Engaged(r)' PROVE a \in Engaged(r)
    <3>1. a \in Attempts /\ a[1] \in Jobs /\ RowOf(a[1]) = r
      BY <2>6 DEF Engaged, Attempts
    <3>2. a \in calls' => a \in calls
      BY <1>1
    <3>3. job'[a[1]].pc \in Working => job[a[1]].pc \in Working
      BY <2>2, <2>3, <3>1 DEF Working
    <3> QED BY <2>4, <2>6, <3>1, <3>2, <3>3 DEF Engaged
  <2> QED BY <2>5, <2>6
<1> QED BY <1>2, <1>3

\* Every step but a claim leaves at most the attempts that were at work.
LEMMA EngagedShrinks ==
    ASSUME TypeOK, JobsSound, CallsInv, [Next]_vars
    PROVE  /\ CallsInv'
           /\ ~(\E j \in Jobs : Claim(j)) => \A r : Engaged(r)' \subseteq Engaged(r)
<1> DEFINE Kept == CallsInv' /\ \A r : Engaged(r)' \subseteq Engaged(r)
<1>1. ASSUME UNCHANGED <<job, calls>> PROVE Kept
  BY <1>1 DEF CallsInv, Engaged, Me
<1>2. ASSUME NEW j \in Jobs, NEW place \in Places, Goto(j, place), calls' = calls,
             place \in Working => job[j].pc \in Working \ {"waiting"}
      PROVE  Kept
  <2>1. /\ job'[j].pc = place /\ job'[j].attempt = job[j].attempt
        /\ \A k \in Jobs : k # j => job'[k] = job[k]
    BY <1>2, JobGoes
  <2> QED BY <1>2, <2>1, AttemptMoves
<1>3. ASSUME NEW j \in Jobs, Claim(j) PROVE CallsInv'
  <2>1. job[j].pc = "queued" /\ StartAttempt(j, "claimed") /\ calls' = calls
    BY <1>3 DEF Claim
  <2> QED BY <2>1, AttemptStarts
<1>4. ASSUME NEW j \in Jobs, ClaimRefused(j) PROVE Kept
  <2>1. job[j].pc = "queued" /\ StartAttempt(j, "readback") /\ calls' = calls
    BY <1>4 DEF ClaimRefused
  <2> QED BY <2>1, AttemptStarts
<1>5. ASSUME NEW j \in Jobs, ReadBack(j) PROVE Kept
  <2>1. calls' = calls
    BY <1>5 DEF ReadBack
  <2>2. /\ job'[j].attempt = job[j].attempt /\ job'[j].pc \in {"publish", "queued", "dlq"}
        /\ \A k \in Jobs : k # j => job'[k] = job[k]
    BY <1>5, AfterFailureIs DEF ReadBack, TypeOK
  <2> QED BY <2>1, <2>2, AttemptMoves DEF Working
<1>6. ASSUME NEW j \in Jobs, Finalize(j) PROVE Kept
  <2>1. PICK s : job' = [job EXCEPT ![j] = [@ EXCEPT !.pc = "publish", !.pub = s]]
    BY <1>6 DEF Finalize
  <2>2. /\ job'[j].attempt = job[j].attempt /\ job'[j].pc = "publish"
        /\ \A k \in Jobs : k # j => job'[k] = job[k]
    BY <2>1 DEF TypeOK
  <2>3. calls' = calls
    BY <1>6 DEF Finalize
  <2> QED BY <2>2, <2>3, AttemptMoves DEF Working
<1>7. ASSUME NEW j \in Jobs, Consult(j) PROVE Kept
  <2>1. PICK ans : job' = [job EXCEPT ![j] = [@ EXCEPT !.pc = "answered", !.ans = ans]]
    BY <1>7 DEF Consult
  <2>2. /\ job'[j].attempt = job[j].attempt /\ job'[j].pc = "answered"
        /\ \A k \in Jobs : k # j => job'[k] = job[k]
    BY <2>1 DEF TypeOK
  <2>3. calls' = calls /\ job[j].pc = "consulting"
    BY <1>7 DEF Consult
  <2> QED BY <2>2, <2>3, AttemptMoves DEF Working
<1>8. ASSUME NEW j \in Jobs, HandleAnswer(j) PROVE Kept
  <2>1. PICK place \in {"releasing", "consulting", "docwrite", "final"} : Goto(j, place)
    BY <1>8 DEF HandleAnswer
  <2>2. calls' = calls /\ job[j].pc = "answered"
    BY <1>8 DEF HandleAnswer
  <2> QED BY <1>2, <2>1, <2>2 DEF Places, Running, Working
<1>9. ASSUME NEW j \in Jobs, WriteDoc(j) \/ StepFails(j) PROVE Kept
  <2>1. PICK place \in {"final", "releasing"} : Goto(j, place)
    BY <1>9 DEF WriteDoc, StepFails
  <2>2. calls' = calls /\ job[j].pc \in {"claimed", "answered", "consulting", "docwrite", "final"}
    BY <1>9 DEF WriteDoc, StepFails
  <2> QED BY <1>2, <2>1, <2>2 DEF Places, Running, Working
<1>10. ASSUME NEW j \in Jobs,
              AgeOut(j) \/ LostOwnership(j) \/ MarkRetryable(j) \/ Publish(j) \/ Crash(j)
                \/ DlqStep(j)
       PROVE  Kept
  <2>1. PICK place \in {"queued", "dlq", "done", "dlqpublish", "parked"} : Goto(j, place)
    BY <1>10, AfterFailureIs
       DEF AgeOut, LostOwnership, MarkRetryable, Publish, Crash, DlqStep, DlqWrite, DlqPublish, DlqFails
  <2>2. calls' = calls
    BY <1>10
       DEF AgeOut, LostOwnership, MarkRetryable, Publish, Crash, DlqStep, DlqWrite, DlqPublish, DlqFails
  <2> QED BY <1>2, <2>1, <2>2 DEF Places, Running, Working
<1>11. ASSUME NEW j \in Jobs, Invoke(j) PROVE Kept
  BY <1>11, AttemptCalls
<1>12. ASSUME NEW r \in Rows, Deliver(r), calls' = calls PROVE Kept
  <2>1. PICK j \in Jobs : /\ job[j].attempt = 0 /\ job'[j].pc = "queued" /\ job'[j].attempt = 0
                          /\ \A k \in Jobs : k # j => job'[k] = job[k]
    BY <1>12, JobDelivered
  <2> QED BY <1>12, <2>1, AttemptMoves DEF Working
<1>13. ASSUME NEW c \in Attempts, SefazStep(c) PROVE Kept
  <2>1. UNCHANGED <<calls, job>> \/ \E ans : Answered(c, ans)
    BY <1>13 DEF SefazStep, SefazDecides, EngineFails
  <2>2. ASSUME NEW ans, Answered(c, ans) PROVE Kept
    BY <2>2, CallEnds
  <2> QED BY <1>1, <2>1, <2>2
<1>14. ASSUME NEW d \in Docs, PublishOutbox(d) \/ AckOutbox(d) PROVE Kept
  BY <1>1, <1>12, <1>14 DEF PublishOutbox, AckOutbox, Rows
<1>15. ASSUME NEW r \in Rows, Redeliver(r) \/ LeaseExpires(r) PROVE Kept
  BY <1>1, <1>12, <1>15 DEF Redeliver, LeaseExpires
<1>16. ASSUME NEW d \in Docs, NEW s \in {"authorized", "rejected", "failed"}, Settle(d, s) PROVE Kept
  BY <1>1, <1>16 DEF Settle
<1>17. ASSUME NEW e \in Events, ApiStep(e) PROVE Kept
  <2>1. CASE ApiPublish(e)
    BY <1>12, <2>1 DEF ApiPublish, Rows
  <2>2. CASE ~ApiPublish(e)
    BY <1>1, <1>17, <2>2 DEF ApiStep, ApiRead, ApiCreateEvent, ApiMark, ApiFails
  <2> QED BY <2>1, <2>2
<1>18. ASSUME UNCHANGED vars PROVE Kept
  BY <1>1, <1>18 DEF vars
<1>19. ASSUME NEW j \in Jobs, WorkerStep(j) \/ DlqStep(j), ~Claim(j) PROVE Kept
  BY <1>4, <1>5, <1>6, <1>7, <1>8, <1>9, <1>10, <1>11, <1>19 DEF WorkerStep
<1> HIDE DEF Kept
<1>20. (\E j \in Jobs : Claim(j)) \/ Kept
  BY <1>13, <1>14, <1>15, <1>16, <1>17, <1>18, <1>19 DEF Next
<1> QED BY <1>3, <1>20 DEF Kept

\* A row that stays as it is, or is no longer quiet, needs nothing else.
WorkedRow(r) ==
    Quiet(r) =>
        /\ \A a \in Engaged(r) : owner[r] = a /\ lease[r] = "held" /\ status[r] \notin Open
        /\ r \in finalized => status[r] \in Terminal(r) /\ Engaged(r) = {}

LEMMA WorkedRows == TypeOK => (WorkedInv <=> \A r \in Rows : WorkedRow(r))
BY DEF TypeOK, WorkedInv, WorkedRow

LEMMA WorkedStays ==
    ASSUME TypeOK, [Next]_vars, NEW r \in Rows, WorkedRow(r), Engaged(r)' \subseteq Engaged(r),
           status'[r] = status[r], owner'[r] = owner[r], lease'[r] = lease[r],
           r \in finalized' => r \in finalized
    PROVE  WorkedRow(r)'
BY QuietStays DEF WorkedRow, Terminal

\* The owner's last write finds nobody else at work on its row.
LEMMA OnlyOwnerWorks ==
    ASSUME TypeOK, JobsSound, CallsInv, NEW j \in Jobs, WorkedRow(RowOf(j)), Quiet(RowOf(j)),
           job[j].pc \in {"final", "releasing"}, calls' = calls, Engaged(RowOf(j))' \subseteq Engaged(RowOf(j)),
           job'[j].pc \notin Working, job'[j].attempt = job[j].attempt
    PROVE  Engaged(RowOf(j))' = {} /\ RowOf(j) \notin finalized
<1>1. Me(j) \in Engaged(RowOf(j))
  BY DEF JobsSound, Running, Working, Me, Attempts, TypeOK, Engaged
<1>2. Me(j) \notin calls /\ Me(j)' = Me(j)
  BY DEF CallsInv, Working, Me
<1>3. Me(j) \notin Engaged(RowOf(j))'
  BY <1>2 DEF Engaged, Me
<1>4. \A a \in Engaged(RowOf(j)) : a = Me(j)
  BY <1>1 DEF WorkedRow
<1> QED BY <1>1, <1>3, <1>4 DEF WorkedRow

\* A new call is an attempt's.
LEMMA CallsOnlyByInvoke ==
    ASSUME [Next]_vars, ~(\E j \in Jobs : Invoke(j))
    PROVE  calls' \subseteq calls
<1>1. ASSUME NEW j \in Jobs, WorkerStep(j) \/ DlqStep(j) PROVE calls' = calls
  <2>1. CASE Claim(j) \/ ClaimRefused(j) \/ ReadBack(j) \/ AgeOut(j) \/ HandleAnswer(j) \/ Consult(j)
    BY <2>1 DEF Claim, ClaimRefused, ReadBack, AgeOut, HandleAnswer, Consult
  <2>2. CASE WriteDoc(j) \/ Finalize(j) \/ LostOwnership(j) \/ StepFails(j)
    BY <2>2 DEF WriteDoc, Finalize, LostOwnership, StepFails
  <2>3. CASE MarkRetryable(j) \/ Publish(j) \/ Crash(j)
    BY <2>3 DEF MarkRetryable, Publish, Crash
  <2>4. CASE DlqStep(j)
    BY <2>4 DEF DlqStep, DlqWrite, DlqPublish, DlqFails
  <2> QED BY <1>1, <2>1, <2>2, <2>3, <2>4 DEF WorkerStep
<1>2. ASSUME NEW d \in Docs, PublishOutbox(d) \/ AckOutbox(d) PROVE calls' = calls
  BY <1>2 DEF PublishOutbox, AckOutbox
<1>3. ASSUME NEW r \in Rows, Redeliver(r) \/ LeaseExpires(r) PROVE calls' = calls
  BY <1>3 DEF Redeliver, LeaseExpires
<1>4. ASSUME NEW c \in Attempts, SefazStep(c) PROVE calls' \subseteq calls
  BY <1>4 DEF SefazStep, SefazDecides, EngineFails, Answered
<1>5. ASSUME NEW d \in Docs, NEW s \in {"authorized", "rejected", "failed"}, Settle(d, s)
      PROVE  calls' = calls
  BY <1>5 DEF Settle
<1>6. ASSUME NEW e \in Events, ApiStep(e) PROVE calls' = calls
  BY <1>6 DEF ApiStep, ApiRead, ApiCreateEvent, ApiMark, ApiPublish, ApiFails
<1>7. CASE UNCHANGED vars
  BY <1>7 DEF vars
<1> QED BY <1>1, <1>2, <1>3, <1>4, <1>5, <1>6, <1>7 DEF Next

LEMMA LeasesStay ==
    ASSUME [Next]_vars, ~WritesRow, ~(\E r \in Rows : LeaseExpires(r))
    PROVE  UNCHANGED <<lease, finalized>>
<1>1. ASSUME NEW j \in Jobs, WorkerStep(j) \/ DlqStep(j)
      PROVE  UNCHANGED <<lease, finalized>>
  <2>1. CASE ClaimRefused(j) \/ ReadBack(j) \/ AgeOut(j) \/ Invoke(j) \/ HandleAnswer(j) \/ Consult(j)
    BY <2>1 DEF ClaimRefused, ReadBack, AgeOut, Invoke, HandleAnswer, Consult
  <2>2. CASE LostOwnership(j) \/ StepFails(j) \/ Publish(j) \/ Crash(j)
    BY <2>2 DEF LostOwnership, StepFails, Publish, Crash
  <2>3. CASE DlqPublish(j) \/ DlqFails(j)
    BY <2>3 DEF DlqPublish, DlqFails
  <2> QED BY <1>1, <2>1, <2>2, <2>3 DEF WorkerStep, DlqStep, WritesRow
<1>2. ASSUME NEW d \in Docs, PublishOutbox(d) \/ AckOutbox(d)
      PROVE  UNCHANGED <<lease, finalized>>
  BY <1>2 DEF PublishOutbox, AckOutbox
<1>3. ASSUME NEW r \in Rows, Redeliver(r)
      PROVE  UNCHANGED <<lease, finalized>>
  BY <1>3 DEF Redeliver
<1>4. ASSUME NEW c \in Attempts, SefazStep(c)
      PROVE  UNCHANGED <<lease, finalized>>
  BY <1>4 DEF SefazStep, SefazDecides, EngineFails
<1>5. ASSUME NEW d \in Docs, NEW s \in {"authorized", "rejected", "failed"}, Settle(d, s)
      PROVE  UNCHANGED <<lease, finalized>>
  BY <1>5 DEF Settle
<1>6. ASSUME NEW e \in Events, ApiStep(e)
      PROVE  UNCHANGED <<lease, finalized>>
  BY <1>6 DEF ApiStep, ApiRead, ApiPublish, ApiFails, WritesRow
<1>7. CASE UNCHANGED vars
  BY <1>7 DEF vars
<1> QED BY <1>1, <1>2, <1>3, <1>4, <1>5, <1>6, <1>7 DEF Next

\* A row nobody may claim has nobody new at work on it.
LEMMA ClaimFindsNobody ==
    ASSUME NEW j \in Jobs, Claimable(RowOf(j)), WorkedRow(RowOf(j)), Quiet(RowOf(j))
    PROVE  Engaged(RowOf(j)) = {} /\ RowOf(j) \notin finalized
<1>1. status[RowOf(j)] \notin Terminal(RowOf(j))
  BY DEF Claimable, Open, Terminal, DocTerminal, EventTerminal
<1>2. \A a \in Engaged(RowOf(j)) : lease[RowOf(j)] = "held" /\ status[RowOf(j)] \notin Open
  BY DEF WorkedRow
<1>3. Engaged(RowOf(j)) = {}
  BY <1>2 DEF Claimable
<1> QED BY <1>1, <1>3 DEF WorkedRow

LEMMA WorkedKept ==
    ASSUME TypeOK, JobsSound, AnswersAreReal, OwnerInv, CallsInv, ~SkewedClocks, [Next]_vars,
           NEW r \in Rows, WorkedRow(r)
    PROVE  WorkedRow(r)'
<1>1. ASSUME ~(\E j \in Jobs : Claim(j)) PROVE Engaged(r)' \subseteq Engaged(r)
  BY <1>1, EngagedShrinks
<1>2. ASSUME NEW j \in Jobs, Claim(j) PROVE WorkedRow(r)'
  <2>1. /\ job[j].pc = "queued" /\ StartAttempt(j, "claimed") /\ calls' = calls
        /\ Claimable(RowOf(j)) /\ finalized' = finalized
    BY <1>2 DEF Claim
  <2>2. Engaged(r)' \subseteq Engaged(r) \cup
           (IF r = RowOf(j) THEN {<<j, job[j].attempt + 1>>} ELSE {})
    BY <2>1, AttemptStarts
  <2>3. CASE r # RowOf(j)
    <3>1. Engaged(r)' \subseteq Engaged(r)
      BY <2>2, <2>3
    <3>2. status'[r] = status[r] /\ owner'[r] = owner[r] /\ lease'[r] = lease[r]
      BY <1>2, <2>3 DEF Claim, TypeOK
    <3> QED BY <2>1, <3>1, <3>2, WorkedStays
  <2>4. CASE r = RowOf(j)
    <3>1. /\ status'[r] = "processing" /\ owner'[r] = <<j, job[j].attempt + 1>>
          /\ lease'[r] = "held"
      BY <1>2, <2>4 DEF Claim, TypeOK
    <3>2. ASSUME Quiet(r)' PROVE Engaged(r) = {} /\ r \notin finalized
      BY <2>1, <2>4, <3>2, QuietStays, ClaimFindsNobody
    <3>3. \A a \in Engaged(r)' : Quiet(r)' => a = <<j, job[j].attempt + 1>>
      BY <2>2, <2>4, <3>2
    <3>4. "processing" \notin Open
      BY DEF Open
    <3> QED BY <2>1, <3>1, <3>2, <3>3, <3>4 DEF WorkedRow
  <2> QED BY <2>3, <2>4
<1>3. ASSUME NEW j \in Jobs, Finalize(j) \/ MarkRetryable(j) PROVE WorkedRow(r)'
  <2>1. /\ job[j].pc \in {"final", "releasing"} /\ calls' = calls
        /\ job'[j].pc \notin Working /\ job'[j].attempt = job[j].attempt
        /\ ~(\E k \in Jobs : Claim(k))
    <3>1. /\ job[j].pc \in {"final", "releasing"} /\ calls' = calls
          /\ job'[j].pc \in {"publish", "queued", "dlq"} /\ job'[j].attempt = job[j].attempt
      <4>1. CASE Finalize(j)
        <5> DEFINE s == FinalStatus(RowOf(j), job[j].ans)
                   rec == [job[j] EXCEPT !.pc = "publish", !.pub = s]
        <5>1. job \in [Jobs -> JobType] /\ job[j] \in JobType
          BY DEF TypeOK, JobType
        <5>2. /\ job' = [job EXCEPT ![j] = rec]
              /\ job[j].pc = "final" /\ calls' = calls
          BY <4>1, <5>1 DEF Finalize
        <5> HIDE DEF s
        <5>3. rec.pc = "publish" /\ rec.attempt = job[j].attempt
          BY <5>1 DEF JobType
        <5> HIDE DEF rec
        <5> QED BY <5>1, <5>2, <5>3
      <4>2. CASE MarkRetryable(j)
        BY <4>2, AfterFailureIs, JobGoes DEF MarkRetryable, Places
      <4> QED BY <1>3, <4>1, <4>2
    <3>2. ASSUME NEW k \in Jobs, Claim(k) PROVE FALSE
      <4>1. k = j \/ (job'[j] = job[j] /\ job'[k].pc = "claimed")
        BY <3>2, JobStarts DEF Claim, Places, Running, Working
      <4>2. k # j
        BY <3>1, <3>2 DEF Claim
      <4> QED BY <3>1, <4>1, <4>2
    <3> QED BY <3>1, <3>2 DEF Working
  <2>2. CASE r # RowOf(j)
    <3>1. /\ status'[r] = status[r] /\ owner'[r] = owner[r] /\ lease'[r] = lease[r]
          /\ r \in finalized' => r \in finalized
      BY <1>3, <2>2 DEF Finalize, MarkRetryable, TypeOK
    <3> QED BY <1>1, <2>1, <3>1, WorkedStays
  <2>3. CASE r = RowOf(j)
    <3>1. ASSUME Quiet(r)' PROVE Engaged(r)' = {} /\ r \notin finalized
      BY <1>1, <2>1, <2>3, <3>1, QuietStays, OnlyOwnerWorks
    <3>2. r \in finalized' => r \in finalized \/ status'[r] \in Terminal(r)
      BY <1>3, <2>3, FinalIsTerminal DEF Finalize, MarkRetryable, TypeOK
    <3> QED BY <3>1, <3>2 DEF WorkedRow, Terminal
  <2> QED BY <2>2, <2>3
<1>4. ASSUME NEW j \in Jobs, WriteDoc(j) \/ DlqWrite(j) PROVE ~(\E k \in Jobs : Claim(k))
  <2>1. Goto(j, "final") \/ Goto(j, "dlqpublish")
    BY <1>4 DEF WriteDoc, DlqWrite
  <2>2. job[j].pc # "queued" /\ job'[j] # job[j]
    BY <1>4, <2>1, JobGoes DEF WriteDoc, DlqWrite, Places, Running, Working
  <2>3. ASSUME NEW k \in Jobs, Claim(k) PROVE FALSE
    BY <2>2, <2>3, JobStarts DEF Claim, Places, Running, Working
  <2> QED BY <2>3
<1>5. ASSUME NEW j \in Jobs, WriteDoc(j) PROVE WorkedRow(r)'
  <2>1. /\ job[j].pc = "docwrite" /\ owner' = owner /\ lease' = lease /\ finalized' = finalized
        /\ status' = [status EXCEPT ![DocOf[RowOf(j)]] = EventDocStatus(RowOf(j), job[j].ans)]
    BY <1>5 DEF WriteDoc
  <2>2. CASE r # DocOf[RowOf(j)]
    <3>1. status'[r] = status[r]
      BY <2>1, <2>2 DEF TypeOK
    <3> QED BY <1>1, <1>4, <1>5, <2>1, <3>1, WorkedStays
  <2>3. CASE r = DocOf[RowOf(j)]
    <3>1. RowOf(j) \in Events
      BY <2>1 DEF AnswersAreReal, AnswerReal
    <3>2. ~Quiet(r)
      BY <2>1, <2>3, <3>1, EventIsSent
    <3>3. ~Quiet(r)'
      BY <3>2, QuietStays
    <3> QED BY <3>3 DEF WorkedRow
  <2> QED BY <2>2, <2>3
<1>6. ASSUME NEW j \in Jobs, DlqWrite(j) PROVE WorkedRow(r)'
  <2>1. /\ owner' = owner /\ lease' = lease /\ finalized' = finalized
        /\ status' = [status EXCEPT ![RowOf(j)] = DlqStatus(RowOf(j))]
    BY <1>6 DEF DlqWrite
  <2>2. CASE r # RowOf(j)
    <3>1. status'[r] = status[r]
      BY <2>1, <2>2 DEF TypeOK
    <3> QED BY <1>1, <1>4, <1>6, <2>1, <3>1, WorkedStays
  <2>3. CASE r = RowOf(j)
    <3>1. status'[r] \in Terminal(r) /\ status'[r] \notin Open
      BY <2>1, <2>3 DEF TypeOK, DlqStatus, Terminal, DocTerminal, EventTerminal, Open
    <3>2. Engaged(r)' \subseteq Engaged(r)
      BY <1>1, <1>4, <1>6
    <3> QED BY <2>1, <3>1, <3>2, QuietStays DEF WorkedRow, Terminal
  <2> QED BY <2>2, <2>3
<1>7. ASSUME job' = job PROVE Engaged(r)' \subseteq Engaged(r)
  <2>1. ASSUME NEW k \in Jobs, Claim(k) PROVE FALSE
    BY <1>7, <2>1, JobStarts DEF Claim, Places, Running, Working
  <2> QED BY <1>1, <2>1
<1>8. ASSUME NEW q \in Rows, LeaseExpires(q) PROVE WorkedRow(r)'
  <2>1. /\ job' = job /\ status' = status /\ owner' = owner /\ finalized' = finalized
        /\ lease' = [lease EXCEPT ![q] = "expired"] /\ owner[q] \notin calls
        /\ ~(job[owner[q][1]].attempt = owner[q][2] /\ job[owner[q][1]].pc \in Working)
    BY <1>8 DEF LeaseExpires
  <2>2. CASE r # q
    <3>1. lease'[r] = lease[r]
      BY <2>1, <2>2 DEF TypeOK
    <3> QED BY <1>7, <2>1, <3>1, WorkedStays
  <2>3. CASE r = q
    <3>1. ASSUME Quiet(r), NEW a \in Engaged(r) PROVE FALSE
      <4>1. owner[q] = a
        BY <2>3, <3>1 DEF WorkedRow
      <4> QED BY <2>1, <3>1, <4>1 DEF Engaged, Me
    <3>2. Quiet(r)' => Engaged(r)' = {}
      BY <1>7, <2>1, <3>1, QuietStays
    <3> QED BY <2>1, <3>2, QuietStays DEF WorkedRow, Terminal
  <2> QED BY <2>2, <2>3
<1>9. ASSUME NEW e \in Events, ApiCreateEvent(e) PROVE WorkedRow(r)'
  <2>1. /\ api[e].pc = "read" /\ status' = [status EXCEPT ![e] = "pending"]
        /\ UNCHANGED <<owner, lease, job, finalized>>
    BY <1>9 DEF ApiCreateEvent
  <2>2. CASE r # e
    <3>1. status'[r] = status[r]
      BY <2>1, <2>2 DEF TypeOK
    <3> QED BY <1>7, <2>1, <3>1, WorkedStays
  <2>3. CASE r = e
    <3>1. status[r] = "absent" /\ owner[r] = NoOwner
      BY <2>1, <2>3 DEF OwnerInv
    <3>2. \A a \in Engaged(r) : a # NoOwner
      <4>1. \A a \in Attempts : a = <<a[1], a[2]>>
        BY DEF Attempts
      <4>2. \A x, y : <<x, y>> # NoOwner
        BY DEF NoOwner
      <4>3. \A a \in Engaged(r) : a \in Attempts
        BY DEF Engaged
      <4> QED BY <4>1, <4>2, <4>3
    <3>3. Quiet(r) => Engaged(r) = {} /\ r \notin finalized
      BY <3>1, <3>2, OpenIsNotTerminal DEF WorkedRow
    <3> QED BY <1>7, <2>1, <3>3, QuietStays DEF WorkedRow
  <2> QED BY <2>2, <2>3
<1>10. ASSUME NEW e \in Events, ApiMark(e) PROVE WorkedRow(r)'
  <2>1. /\ UNCHANGED <<owner, lease, job, finalized>> /\ api' = [api EXCEPT ![e].pc = "marked"]
        /\ \A x \in Rows : x # DocOf[e] => status'[x] = status[x]
    BY <1>10 DEF ApiMark, ApiGoto, TypeOK
  <2>2. CASE r # DocOf[e]
    BY <1>7, <2>1, <2>2, WorkedStays
  <2>3. CASE r = DocOf[e]
    <3>1. api'[e].pc = "marked" /\ DocOf[e] \notin Events
      BY <2>1, EventsAssumption, RowsAssumption DEF TypeOK
    <3>2. ~Quiet(r)'
      BY <2>3, <3>1 DEF Quiet
    <3> QED BY <3>2 DEF WorkedRow
  <2> QED BY <2>2, <2>3
<1>11. CASE ~WritesRow /\ ~(\E q \in Rows : LeaseExpires(q))
  <2>1. ~(\E j \in Jobs : Claim(j))
    BY <1>11 DEF WritesRow
  <2> QED BY <1>1, <1>11, <2>1, RowsStay, LeasesStay, WorkedStays
<1> QED BY <1>2, <1>3, <1>5, <1>6, <1>8, <1>9, <1>10, <1>11 DEF WritesRow

LEMMA AlwaysWorked ==
    ASSUME ~SkewedClocks
    PROVE  Spec => [](TypeOK /\ JobsSound /\ AnswersAreReal /\ OwnerInv /\ CallsInv /\ WorkedInv)
<1>1. Init => CallsInv /\ WorkedInv
  <2> SUFFICES ASSUME Init PROVE CallsInv /\ WorkedInv
    OBVIOUS
  <2>1. calls = {} /\ finalized = {} /\ \A j \in Jobs : job[j].pc = "none"
    BY DEF Init
  <2>2. \A r : Engaged(r) = {}
    BY <2>1 DEF Engaged, Working, Attempts
  <2> QED BY <2>1, <2>2 DEF CallsInv, WorkedInv, Working
<1>2. TypeOK /\ JobsSound /\ AnswersAreReal /\ OwnerInv /\ CallsInv /\ WorkedInv /\ [Next]_vars
      /\ TypeOK' => CallsInv' /\ WorkedInv'
  <2> SUFFICES ASSUME TypeOK, JobsSound, AnswersAreReal, OwnerInv, CallsInv, WorkedInv,
                      [Next]_vars, TypeOK'
               PROVE  CallsInv' /\ WorkedInv'
    OBVIOUS
  <2>1. \A r \in Rows : WorkedRow(r)'
    BY WorkedKept, WorkedRows
  <2>2. WorkedInv'
    BY <2>1 DEF TypeOK, WorkedInv, WorkedRow
  <2> QED BY <2>2, EngagedShrinks
<1> QED BY <1>1, <1>2, AlwaysOwned, PTL DEF Spec

\* With unskewed clocks no two attempts are ever at work on one quiet row, for
\* any number of documents, events, deliveries and tries.
THEOREM OneWorkerPerRowHolds ==
    ASSUME ~SkewedClocks
    PROVE  Spec => []OneWorkerPerRow
<1>1. WorkedInv => OneWorkerPerRow
  <2> SUFFICES ASSUME WorkedInv, NEW r \in Rows, Quiet(r)
               PROVE  Cardinality(Engaged(r)) <= 1
    BY DEF OneWorkerPerRow
  <2>1. Engaged(r) \subseteq {owner[r]}
    BY DEF WorkedInv
  <2>2. Engaged(r) = {} \/ Engaged(r) = {owner[r]}
    BY <2>1
  <2>3. Engaged(r) = {} => Cardinality(Engaged(r)) = 0
    BY FS_EmptySet
  <2>4. Cardinality({owner[r]}) = 1
    BY FS_Singleton
  <2> QED BY <2>2, <2>3, <2>4
<1> QED BY <1>1, AlwaysWorked, PTL

\* With unskewed clocks no call is made for a quiet row a worker has finalized.
THEOREM NoCallAfterFinalHolds ==
    ASSUME ~SkewedClocks
    PROVE  Spec => NoCallAfterFinal
<1>1. TypeOK /\ JobsSound /\ CallsInv /\ WorkedInv /\ [Next]_vars
      => [\A c \in calls' \ calls : Quiet(RowOf(c[1])) => RowOf(c[1]) \notin finalized]_vars
  <2>1. ASSUME TypeOK, JobsSound, CallsInv, WorkedInv, [Next]_vars,
               NEW c \in calls' \ calls, Quiet(RowOf(c[1])), RowOf(c[1]) \in finalized
        PROVE  FALSE
    <3>1. PICK j \in Jobs : Invoke(j)
      BY <2>1, CallsOnlyByInvoke
    <3>2. c = Me(j) /\ Me(j) \in Engaged(RowOf(j))
      BY <2>1, <3>1, AttemptCalls
    <3> QED BY <2>1, <3>2 DEF WorkedInv, Me
  <2> QED BY <2>1
<1> QED BY <1>1, AlwaysWorked, PTL DEF Spec, NoCallAfterFinal

-----------------------------------------------------------------------------
(* Documents live the life FiscalDocument describes *)

\* What is about to be said, or was said, to billing of an authorization is
\* true, and SEFAZ registers an event only when a user has asked for it.
ChargesReal ==
    /\ \A j \in Jobs : job[j].pc = "publish" /\ job[j].pub = "authorized" /\ RowOf(j) \in Docs
                         => RowOf(j) \in accepted
    /\ \A d \in Docs : <<d, "authorized">> \in results => d \in accepted
    /\ \A e \in Events : e \in accepted => api[e].pc # "idle"

\* SEFAZ alone accepts, and what it accepts of an event was asked for.
LEMMA AcceptedBySefaz ==
    ASSUME [Next]_vars, ~(\E c \in Attempts : SefazDecides(c))
    PROVE  accepted' = accepted
<1>1. ASSUME NEW j \in Jobs, WorkerStep(j) \/ DlqStep(j) PROVE accepted' = accepted
  <2>1. CASE Claim(j) \/ ClaimRefused(j) \/ ReadBack(j) \/ AgeOut(j) \/ HandleAnswer(j) \/ Consult(j)
    BY <2>1 DEF Claim, ClaimRefused, ReadBack, AgeOut, HandleAnswer, Consult
  <2>2. CASE Invoke(j) \/ WriteDoc(j) \/ Finalize(j) \/ LostOwnership(j) \/ StepFails(j)
    BY <2>2 DEF Invoke, WriteDoc, Finalize, LostOwnership, StepFails
  <2>3. CASE MarkRetryable(j) \/ Publish(j) \/ Crash(j) \/ DlqStep(j)
    BY <2>3 DEF MarkRetryable, Publish, Crash, DlqStep, DlqWrite, DlqPublish, DlqFails
  <2> QED BY <1>1, <2>1, <2>2, <2>3 DEF WorkerStep
<1>2. ASSUME NEW d \in Docs, PublishOutbox(d) \/ AckOutbox(d) PROVE accepted' = accepted
  BY <1>2 DEF PublishOutbox, AckOutbox
<1>3. ASSUME NEW r \in Rows, Redeliver(r) \/ LeaseExpires(r) PROVE accepted' = accepted
  BY <1>3 DEF Redeliver, LeaseExpires
<1>4. ASSUME NEW c \in Attempts, EngineFails(c) PROVE accepted' = accepted
  BY <1>4 DEF EngineFails
<1>5. ASSUME NEW d \in Docs, NEW s \in {"authorized", "rejected", "failed"}, Settle(d, s)
      PROVE  accepted' = accepted
  BY <1>5 DEF Settle
<1>6. ASSUME NEW e \in Events, ApiStep(e) PROVE accepted' = accepted
  BY <1>6 DEF ApiStep, ApiRead, ApiCreateEvent, ApiMark, ApiPublish, ApiFails
<1>7. CASE UNCHANGED vars
  BY <1>7 DEF vars
<1> QED BY <1>1, <1>2, <1>3, <1>4, <1>5, <1>6, <1>7 DEF Next, SefazStep

\* Results come from these two steps alone.
LEMMA ResultsOnlyPublished ==
    ASSUME [Next]_vars, ~(\E j \in Jobs : Publish(j) \/ DlqPublish(j))
    PROVE  results' = results
<1>1. ASSUME NEW j \in Jobs, WorkerStep(j) \/ DlqStep(j), ~Publish(j), ~DlqPublish(j) PROVE results' = results
  <2>1. CASE Claim(j) \/ ClaimRefused(j) \/ ReadBack(j) \/ AgeOut(j) \/ HandleAnswer(j) \/ Consult(j)
    BY <2>1 DEF Claim, ClaimRefused, ReadBack, AgeOut, HandleAnswer, Consult
  <2>2. CASE Invoke(j) \/ WriteDoc(j) \/ Finalize(j) \/ LostOwnership(j) \/ StepFails(j)
    BY <2>2 DEF Invoke, WriteDoc, Finalize, LostOwnership, StepFails
  <2>3. CASE MarkRetryable(j) \/ Crash(j) \/ DlqWrite(j) \/ DlqFails(j)
    BY <2>3 DEF MarkRetryable, Crash, DlqWrite, DlqFails
  <2> QED BY <1>1, <2>1, <2>2, <2>3 DEF WorkerStep, DlqStep
<1>2. ASSUME NEW d \in Docs, PublishOutbox(d) \/ AckOutbox(d) PROVE results' = results
  BY <1>2 DEF PublishOutbox, AckOutbox
<1>3. ASSUME NEW r \in Rows, Redeliver(r) \/ LeaseExpires(r) PROVE results' = results
  BY <1>3 DEF Redeliver, LeaseExpires
<1>4. ASSUME NEW c \in Attempts, SefazStep(c) PROVE results' = results
  BY <1>4 DEF SefazStep, SefazDecides, EngineFails
<1>5. ASSUME NEW d \in Docs, NEW s \in {"authorized", "rejected", "failed"}, Settle(d, s)
      PROVE  results' = results
  BY <1>5 DEF Settle
<1>6. ASSUME NEW e \in Events, ApiStep(e) PROVE results' = results
  BY <1>6 DEF ApiStep, ApiRead, ApiCreateEvent, ApiMark, ApiPublish, ApiFails
<1>7. CASE UNCHANGED vars
  BY <1>7 DEF vars
<1> QED BY <1>1, <1>2, <1>3, <1>4, <1>5, <1>6, <1>7 DEF Next

LEMMA CallsWereAsked ==
    ASSUME TypeOK, JobsSound, CallsInv, EventsHaveDocuments, NEW c \in calls
    PROVE  /\ RowOf(c[1]) \in Rows
           /\ RowOf(c[1]) \in Events => api[RowOf(c[1])].pc # "idle"
<1>1. c[1] \in Jobs /\ c[2] \in 1..MaxAttempts
  BY DEF TypeOK, Attempts
<1>2. c[2] <= job[c[1]].attempt /\ job[c[1]].attempt \in 0..MaxAttempts
  BY <1>1 DEF CallsInv, TypeOK
<1>3. job[c[1]].attempt # 0
  BY <1>1, <1>2
<1>4. RowOf(c[1]) \in Rows /\ c[1][2] \in Nat /\ c[1][2] > 0 /\ delivered[RowOf(c[1])] \in Nat
  BY <1>1, JobShape DEF TypeOK
<1>5. delivered[RowOf(c[1])] > 0
  BY <1>1, <1>3, <1>4 DEF JobsSound
<1> QED BY <1>4, <1>5 DEF EventsHaveDocuments

LEMMA ChargesKept ==
    ASSUME TypeOK, JobsSound, StatusIsReal, AnswersAreReal, EventsHaveDocuments, CallsInv,
           ResultsInv, ChargesReal, [Next]_vars
    PROVE  ChargesReal'
<1>0. Grew
  BY GrewStep
<1>1. ASSUME NEW e \in Events, e \in accepted' PROVE api'[e].pc # "idle"
  <2>1. CASE e \in accepted
    BY <1>0, <2>1 DEF ChargesReal, Grew
  <2>2. CASE e \notin accepted
    <3>1. PICK c \in Attempts : SefazDecides(c)
      BY <1>1, <2>2, AcceptedBySefaz
    <3>2. c \in calls /\ RowOf(c[1]) = e
      BY <1>1, <2>2, <3>1 DEF SefazDecides
    <3>3. api[e].pc # "idle"
      BY <3>2, CallsWereAsked
    <3> QED BY <1>0, <3>3 DEF Grew
  <2> QED BY <2>1, <2>2
<1>2. ASSUME NEW k \in Jobs, job'[k].pc = "publish", job'[k].pub = "authorized", RowOf(k) \in Docs
      PROVE  RowOf(k) \in accepted
  <2>1. CASE job'[k] = job[k]
    BY <1>2, <2>1 DEF ChargesReal
  <2>2. ASSUME NEW j \in Jobs, ReadBack(j), job'[k] # job[k] PROVE RowOf(k) \in accepted
    <3>1. k = j
      BY <2>2 DEF ReadBack, TypeOK
    <3>2. CASE status[RowOf(k)] \in Terminal(RowOf(k))
      <4>1. job' = [job EXCEPT ![k] = [@ EXCEPT !.pc = "publish", !.pub = status[RowOf(k)]]]
        BY <2>2, <3>1, <3>2 DEF ReadBack
      <4>2. status[RowOf(k)] = "authorized"
        BY <1>2, <4>1 DEF TypeOK
      <4> QED BY <1>2, <4>2 DEF StatusIsReal
    <3>3. CASE status[RowOf(k)] \notin Terminal(RowOf(k))
      <4>1. job' = [job EXCEPT ![k].pc = AfterFailure(k)]
        BY <2>2, <3>1, <3>3 DEF ReadBack
      <4>2. job'[k].pc = AfterFailure(k)
        BY <4>1 DEF TypeOK
      <4> QED BY <1>2, <4>2, AfterFailureIs
    <3> QED BY <3>2, <3>3
  <2>3. ASSUME NEW j \in Jobs, Finalize(j), job'[k] # job[k] PROVE RowOf(k) \in accepted
    <3>1. PICK s : s = FinalStatus(RowOf(j), job[j].ans)
      OBVIOUS
    <3>2. job' = [job EXCEPT ![j] = [@ EXCEPT !.pc = "publish", !.pub = s]]
      BY <2>3, <3>1 DEF Finalize
    <3>3. k = j /\ s = "authorized"
      BY <1>2, <2>3, <3>2 DEF TypeOK
    <3>4. job[j].ans = "ok"
      BY <3>1, <3>3 DEF FinalStatus
    <3> QED BY <3>3, <3>4 DEF AnswersAreReal, AnswerReal
  <2>4. ASSUME NEW j \in Jobs, DlqWrite(j), job'[k] # job[k] PROVE FALSE
    <3>1. Goto(j, "dlqpublish")
      BY <2>4 DEF DlqWrite
    <3> QED BY <1>2, <2>4, <3>1, JobGoes DEF Places
  <2>5. CASE ~(\E j \in Jobs : ReadBack(j) \/ Finalize(j) \/ DlqWrite(j))
    BY <1>2, <2>1, <2>5, PlainJobs
  <2> QED BY <2>1, <2>2, <2>3, <2>4, <2>5
<1>3. ASSUME NEW d \in Docs, <<d, "authorized">> \in results' PROVE d \in accepted
  <2>1. CASE <<d, "authorized">> \in results
    BY <2>1 DEF ChargesReal
  <2>2. ASSUME NEW j \in Jobs, Publish(j), <<d, "authorized">> \notin results PROVE d \in accepted
    <3>1. RowOf(j) = d /\ job[j].pub = "authorized" /\ job[j].pc = "publish"
      BY <1>3, <2>2 DEF Publish
    <3> QED BY <3>1 DEF ChargesReal
  <2>3. ASSUME NEW j \in Jobs, DlqPublish(j), <<d, "authorized">> \notin results PROVE FALSE
    BY <1>3, <2>3 DEF DlqPublish, DlqStatus
  <2>4. CASE ~(\E j \in Jobs : Publish(j) \/ DlqPublish(j))
    BY <1>3, <2>1, <2>4, ResultsOnlyPublished
  <2> QED BY <2>1, <2>2, <2>3, <2>4
<1> QED BY <1>0, <1>1, <1>2, <1>3 DEF ChargesReal, Grew


\* What FiscalDocument sees of a state without its rows.
Seen == <<DocSefaz, xml \cap Docs, deadLettered \cap Docs, DocAsked, reported, refunded>>

LEMMA SeenStays ==
    ASSUME TypeOK, TypeOK', Grew, UNCHANGED <<accepted, deadLettered, reported, refunded>>,
           xml' \cap Docs = xml \cap Docs,
           \A e \in Events : api'[e].pc = "idle" <=> api[e].pc = "idle"
    PROVE  UNCHANGED Seen
<1>1. \A d, kind : Registered(d, kind)' <=> Registered(d, kind)
  BY DEF Registered, Grew
<1>2. DocSefaz' = DocSefaz
  BY <1>1 DEF DocSefaz, SefazHolds
<1>3. DocAsked' = DocAsked
  BY DEF DocAsked, Quiet
<1> QED BY <1>2, <1>3 DEF Seen

\* A step that says nothing new of a document.
LEMMA DocumentStutters ==
    ASSUME UNCHANGED Seen, \A d \in Docs : RowSays(d)' = RowSays(d)
    PROVE  UNCHANGED Document!vars
<1>1. DocRow' = DocRow
  BY DEF DocRow
<1> QED BY <1>1 DEF Document!vars, Seen

LEMMA RowsUntouched ==
    ASSUME status' = status
    PROVE  \A d \in Docs : RowSays(d)' = RowSays(d)
BY DEF RowSays

\* What is written over an open or a disturbed row is a decision or a revision.
LEMMA DocumentWrites ==
    ASSUME TypeOK, TypeOK', StatusIsReal', UNCHANGED Seen, UNCHANGED <<accepted, xml>>, Grew,
           NEW d \in Docs, \A e \in Docs : e # d => status'[e] = status[e],
           \/ ~Quiet(d) \/ d \in deadLettered
           \/ /\ status[d] \notin DocTerminal
              /\ status'[d] \in DocTerminal => status'[d] \in {"authorized", "rejected", "failed"}
    PROVE  [Document!Next]_(Document!vars)
<1> DEFINE s == RowSays(d)'
<1>1. DocRow' = [DocRow EXCEPT ![d] = s]
  BY DEF DocRow, RowSays
<1>2. s \in {"authorized", "rejected", "failed", "cancelled", "closed", "open"}
  BY DEF RowSays, DocTerminal
<1>3. s \in {"open", "rejected", "failed"} \/ (s \in DocSefaz[d] /\ d \in xml \cap Docs)
  <2>1. \A kind : Registered(d, kind)' <=> Registered(d, kind)
    BY DEF Registered, Grew
  <2>2. CASE s = "authorized"
    <3>1. d \in accepted /\ d \in xml
      BY <2>2 DEF StatusIsReal, RowSays
    <3> QED BY <2>2, <3>1 DEF DocSefaz, SefazHolds
  <2>3. CASE s = "cancelled"
    <3>1. d \in xml /\ Registered(d, "cancel")
      BY <2>1, <2>3 DEF StatusIsReal, RowSays
    <3> QED BY <2>3, <3>1 DEF DocSefaz, SefazHolds
  <2>4. CASE s = "closed"
    <3>1. d \in xml /\ Registered(d, "close")
      BY <2>1, <2>4 DEF StatusIsReal, RowSays
    <3> QED BY <2>4, <3>1 DEF DocSefaz, SefazHolds
  <2> QED BY <1>2, <2>2, <2>3, <2>4
<1>4. CASE ~Quiet(d) \/ d \in deadLettered
  <2>1. d \in (deadLettered \cap Docs) \cup DocAsked
    BY <1>4 DEF DocAsked
  <2> HIDE DEF s
  <2>2. Document!Revise(d, s)
    BY <1>1, <1>3, <2>1
       DEF Document!Revise, Document!Undisturbed, Document!Truthful, Document!Says, Seen
  <2> QED BY <1>2, <2>2 DEF Document!Next, Document!Decisions, Document!Endings
<1>5. CASE status[d] \notin DocTerminal /\ status'[d] \notin DocTerminal
  <2>1. \A e \in Docs : RowSays(e)' = RowSays(e)
    BY <1>5 DEF RowSays
  <2> QED BY <2>1, DocumentStutters
<1>6. CASE status[d] \notin DocTerminal /\ status'[d] \in {"authorized", "rejected", "failed"}
  <2>1. DocRow[d] = "open" /\ s \in {"authorized", "rejected", "failed"}
    BY <1>6 DEF DocRow, RowSays, DocTerminal
  <2> HIDE DEF s
  <2>2. Document!Decide(d, s)
    BY <1>1, <1>3, <2>1 DEF Document!Decide, Document!Truthful, Document!Says, Seen
  <2> QED BY <2>1, <2>2 DEF Document!Next, Document!Decisions
<1> QED BY <1>4, <1>5, <1>6


\* The worker's, the processor's and the requests' writes.
LEMMA WorkerLives ==
    ASSUME TypeOK, TypeOK', JobsSound, StatusIsReal', AnswersAreReal, OwnerInv, [Next]_vars,
           NEW j \in Jobs, Claim(j) \/ WriteDoc(j) \/ Finalize(j) \/ MarkRetryable(j)
    PROVE  [Document!Next]_(Document!vars)
<1>0. Grew
  BY GrewStep
<1>1. /\ UNCHANGED <<accepted, xml, deadLettered, reported, refunded, api>>
      /\ UNCHANGED Seen
  <2>1. UNCHANGED <<accepted, xml, deadLettered, reported, refunded, api>>
    BY DEF Claim, WriteDoc, Finalize, MarkRetryable
  <2> QED BY <1>0, <2>1, SeenStays
<1>2. RowOf(j) \in Rows
  BY JobShape
<1>3. CASE WriteDoc(j)
  <2>1. RowOf(j) \in Events /\ job[j].pc # "none"
    BY <1>3 DEF WriteDoc, AnswersAreReal, AnswerReal
  <2>2. DocOf[RowOf(j)] \in Docs /\ ~Quiet(DocOf[RowOf(j)])
    BY <2>1, EventIsSent, EventsAssumption
  <2>3. \A e \in Docs : e # DocOf[RowOf(j)] => status'[e] = status[e]
    BY <1>3 DEF WriteDoc, TypeOK, Rows
  <2> QED BY <1>0, <1>1, <2>2, <2>3, DocumentWrites
<1>4. CASE Claim(j) \/ Finalize(j) \/ MarkRetryable(j)
  <2>1. \A r \in Rows : r # RowOf(j) => status'[r] = status[r]
    BY <1>4 DEF Claim, Finalize, MarkRetryable, TypeOK
  <2>2. CASE RowOf(j) \notin Docs
    <3>1. \A d \in Docs : RowSays(d)' = RowSays(d)
      BY <2>1, <2>2 DEF RowSays, Rows
    <3> QED BY <1>1, <3>1, DocumentStutters
  <2>3. CASE RowOf(j) \in Docs
    <3>1. \/ ~Quiet(RowOf(j)) \/ RowOf(j) \in deadLettered
          \/ status[RowOf(j)] \notin DocTerminal
      <4>1. CASE Claim(j)
        <5>1. status[RowOf(j)] \in Open \cup {"processing"}
          BY <4>1 DEF Claim, Claimable
        <5> QED BY <5>1 DEF Open, DocTerminal
      <4>2. CASE Finalize(j) \/ MarkRetryable(j)
        <5>1. owner[RowOf(j)] # NoOwner
          BY <4>2 DEF Finalize, MarkRetryable, Owns, Me, NoOwner
        <5> QED BY <1>2, <5>1 DEF OwnerInv, DocTerminal
      <4> QED BY <1>4, <4>1, <4>2
    <3>2. status'[RowOf(j)] \in DocTerminal
             => status'[RowOf(j)] \in {"authorized", "rejected", "failed"}
      <4>1. PICK s : /\ status' = [status EXCEPT ![RowOf(j)] = s]
                     /\ s \in {"processing", "retryable_failed", "authorized", "rejected", "failed"}
        <5>1. CASE Claim(j)
          BY <5>1 DEF Claim
        <5>2. CASE MarkRetryable(j)
          BY <5>2 DEF MarkRetryable
        <5>3. CASE Finalize(j)
          BY <2>3, <5>3 DEF Finalize, FinalStatus
        <5> QED BY <1>4, <5>1, <5>2, <5>3
      <4>2. status'[RowOf(j)] = s
        BY <1>2, <4>1 DEF TypeOK
      <4> QED BY <4>1, <4>2 DEF DocTerminal
    <3> QED BY <1>0, <1>1, <2>1, <2>3, <3>1, <3>2, DocumentWrites DEF Rows
  <2> QED BY <2>2, <2>3
<1> QED BY <1>3, <1>4

LEMMA ProcessorOverrules ==
    ASSUME TypeOK, TypeOK', [Next]_vars, NEW j \in Jobs, DlqWrite(j)
    PROVE  [Document!Next]_(Document!vars)
<1>0. Grew /\ RowOf(j) \in Rows
  BY GrewStep, JobShape
<1>1. /\ UNCHANGED <<accepted, xml, reported, refunded, api>>
      /\ deadLettered' = deadLettered \cup {RowOf(j)}
      /\ status' = [status EXCEPT ![RowOf(j)] = DlqStatus(RowOf(j))]
  BY DEF DlqWrite
<1>2. DocSefaz' = DocSefaz /\ DocAsked' = DocAsked
  BY <1>1 DEF DocSefaz, SefazHolds, Registered, DocAsked, Quiet
<1>3. CASE RowOf(j) \in Docs
  <2>1. status' = [status EXCEPT ![RowOf(j)] = "failed"]
    BY <1>1, <1>3 DEF DlqStatus
  <2>2. \A d \in Docs : RowSays(d)' = IF d = RowOf(j) THEN "failed" ELSE RowSays(d)
    BY <2>1 DEF RowSays, DocTerminal, TypeOK, Rows
  <2>3. DocRow' = [DocRow EXCEPT ![RowOf(j)] = "failed"]
    BY <2>2 DEF DocRow
  <2>4. (deadLettered \cap Docs)' = (deadLettered \cap Docs) \cup {RowOf(j)}
    BY <1>1, <1>3
  <2>5. Document!Overrule(RowOf(j))
    BY <1>1, <1>2, <2>3, <2>4 DEF Document!Overrule, Document!Says
  <2> QED BY <1>3, <2>5 DEF Document!Next
<1>4. CASE RowOf(j) \notin Docs
  <2>1. \A d \in Docs : RowSays(d)' = RowSays(d)
    BY <1>0, <1>1, <1>4 DEF RowSays, TypeOK, Rows
  <2>2. UNCHANGED Seen
    BY <1>1, <1>2, <1>4 DEF Seen
  <2> QED BY <2>1, <2>2, DocumentStutters
<1> QED BY <1>3, <1>4

\* A success stores the XML of what SEFAZ holds.
LEMMA AnswerStores ==
    ASSUME TypeOK, TypeOK', AnswersAreReal, [Next]_vars, NEW j \in Jobs, HandleAnswer(j)
    PROVE  [Document!Next]_(Document!vars)
<1>0. Grew
  BY GrewStep
<1>1. /\ UNCHANGED <<accepted, deadLettered, reported, refunded, api, status>>
      /\ xml' = IF job[j].ans = "ok" THEN xml \cup {RowOf(j)} ELSE xml
  BY DEF HandleAnswer
<1>2. CASE job[j].ans = "ok" /\ RowOf(j) \in Docs
  <2>1. RowOf(j) \in accepted
    BY <1>2 DEF AnswersAreReal, AnswerReal
  <2>2. "authorized" \in DocSefaz[RowOf(j)]
    BY <1>2, <2>1 DEF DocSefaz, SefazHolds
  <2>3. (xml \cap Docs)' = (xml \cap Docs) \cup {RowOf(j)}
    BY <1>1, <1>2
  <2>4. DocSefaz' = DocSefaz /\ DocAsked' = DocAsked /\ DocRow' = DocRow
    BY <1>1 DEF DocSefaz, SefazHolds, Registered, DocAsked, Quiet, DocRow, RowSays
  <2>5. Document!Store(RowOf(j))
    BY <1>1, <2>2, <2>3, <2>4 DEF Document!Store
  <2> QED BY <1>2, <2>5 DEF Document!Next
<1>3. CASE ~(job[j].ans = "ok" /\ RowOf(j) \in Docs)
  <2>1. xml' \cap Docs = xml \cap Docs
    BY <1>1, <1>3
  <2>2. UNCHANGED Seen
    BY <1>0, <1>1, <2>1, SeenStays
  <2> QED BY <1>1, <2>2, RowsUntouched, DocumentStutters
<1> QED BY <1>2, <1>3

\* What SEFAZ accepts becomes a fact about one document.
LEMMA SefazHoldsMore ==
    ASSUME TypeOK, TypeOK', JobsSound, EventsHaveDocuments, CallsInv, ChargesReal, [Next]_vars,
           NEW c \in Attempts, SefazDecides(c)
    PROVE  [Document!Next]_(Document!vars)
<1>0. Grew
  BY GrewStep
<1>1. UNCHANGED <<status, xml, deadLettered, reported, refunded, api>>
  BY DEF SefazDecides
<1>2. PICK r : r = RowOf(c[1])
  OBVIOUS
<1>3. r \in Rows /\ (r \in Events => api[r].pc # "idle")
  BY <1>2, CallsWereAsked DEF SefazDecides
<1>4. PICK verdict \in Verdicts(r) :
         accepted' = IF verdict = "ok" THEN accepted \cup {r} ELSE accepted
  BY <1>2 DEF SefazDecides
<1>5. DocRow' = DocRow /\ DocAsked' = DocAsked
  BY <1>1 DEF DocRow, RowSays, DocAsked, Quiet
<1>6. CASE accepted' = accepted
  <2>1. UNCHANGED Seen
    BY <1>0, <1>1, <1>6, SeenStays
  <2> QED BY <1>1, <2>1, RowsUntouched, DocumentStutters
<1>7. CASE verdict = "ok" /\ r \in Docs /\ r \notin accepted
  <2>1. r \notin Events
    BY <1>7, RowsAssumption
  <2>2. \A d, kind : Registered(d, kind)' <=> Registered(d, kind)
    BY <1>1, <1>4, <1>7, <2>1 DEF Registered
  <2>3. \A kind : ~Registered(r, kind)
    BY <1>7 DEF Registered, ChargesReal, EventsHaveDocuments
  <2>4. DocSefaz[r] = {}
    BY <1>7, <2>3 DEF DocSefaz, SefazHolds
  <2>5. \A d \in Docs : SefazHolds(d)' = IF d = r THEN SefazHolds(d) \cup {"authorized"} ELSE SefazHolds(d)
    BY <1>4, <1>7, <2>2 DEF SefazHolds
  <2>6. DocSefaz' = [DocSefaz EXCEPT ![r] = DocSefaz[r] \cup {"authorized"}]
    BY <1>7, <2>5 DEF DocSefaz
  <2>7. Document!Authorize(r)
    BY <1>1, <1>5, <2>4, <2>6 DEF Document!Authorize, Document!Holds
  <2> QED BY <1>7, <2>7 DEF Document!Next
<1>8. CASE verdict = "ok" /\ r \in Events
  <2> DEFINE d == DocOf[r]
  <2>1. r \notin Docs /\ d \in Docs
    BY <1>8, RowsAssumption, EventsAssumption
  <2>2. d \in accepted /\ ~Registered(d, "cancel") /\ ~Registered(d, "close")
    BY <1>4, <1>8, <2>1 DEF Verdicts
  <2>3. \A x \in Docs : \A kind :
           Registered(x, kind)' <=> Registered(x, kind) \/ (x = d /\ kind = api[r].kind)
    BY <1>1, <1>4, <1>8 DEF Registered
  <2>4. \A x \in Docs : x \in accepted' <=> x \in accepted
    BY <1>4, <1>8, <2>1
  <2>5. DocSefaz[d] = {"authorized"} /\ d \in DocAsked
    <3>1. ~Quiet(d)
      BY <1>3, <1>8, <2>1, RowsAssumption DEF Quiet
    <3>2. SefazHolds(d) = {"authorized"}
      BY <2>2 DEF SefazHolds
    <3> QED BY <2>1, <3>1, <3>2 DEF DocSefaz, DocAsked
  <2>6. api[r].kind \in Kinds
    BY <1>8, EventsAssumption DEF TypeOK
  <2> HIDE DEF d
  <2>7. ASSUME NEW fact \in {"cancelled", "closed"},
               api[r].kind = IF fact = "cancelled" THEN "cancel" ELSE "close"
        PROVE  Document!Register(d, fact) /\ fact \in Document!Endings
    <3>1. \A x \in Docs : SefazHolds(x)' = IF x = d THEN SefazHolds(x) \cup {fact} ELSE SefazHolds(x)
      BY <2>1, <2>3, <2>4, <2>7 DEF SefazHolds
    <3>2. DocSefaz' = [DocSefaz EXCEPT ![d] = DocSefaz[d] \cup {fact}]
      BY <2>1, <3>1 DEF DocSefaz
    <3> QED BY <1>1, <1>5, <2>5, <3>2 DEF Document!Register, Document!Holds, Document!Endings
  <2>8. CASE api[r].kind \in {"cancel", "close"}
    <3>1. PICK fact \in {"cancelled", "closed"} :
             api[r].kind = IF fact = "cancelled" THEN "cancel" ELSE "close"
      <4>1. "cancelled" \in {"cancelled", "closed"} /\ "closed" \in {"cancelled", "closed"}
        OBVIOUS
      <4> QED BY <2>8, <4>1
    <3> QED BY <2>1, <2>7, <3>1 DEF Document!Next
  <2>9. CASE api[r].kind \notin {"cancel", "close"}
    <3>1. DocSefaz' = DocSefaz
      BY <2>3, <2>4, <2>9 DEF DocSefaz, SefazHolds
    <3> QED BY <1>1, <1>5, <3>1 DEF Document!vars
  <2> QED BY <2>8, <2>9
<1> QED BY <1>3, <1>4, <1>6, <1>7, <1>8 DEF Rows

\* A user asks only while the row says authorized.
LEMMA RequestsLive ==
    ASSUME TypeOK, TypeOK', JobsSound, StatusIsReal', OwnerInv, [Next]_vars,
           NEW e \in Events, ApiStep(e)
    PROVE  [Document!Next]_(Document!vars)
<1>0. Grew /\ DocOf[e] \in Docs /\ e \notin Docs
  BY GrewStep, EventsAssumption, RowsAssumption
<1>1. UNCHANGED <<accepted, xml, deadLettered, reported, refunded>>
  BY DEF ApiStep, ApiRead, ApiCreateEvent, ApiMark, ApiPublish, ApiFails
<1>2. \A f \in Events : f # e => api'[f] = api[f]
  BY DEF ApiStep, ApiRead, ApiCreateEvent, ApiMark, ApiPublish, ApiFails, ApiGoto, TypeOK
<1>3. CASE ApiRead(e)
  <2>1. /\ status[DocOf[e]] = "authorized" /\ status' = status /\ api[e].pc = "idle"
        /\ api'[e].pc = "read" /\ api'[e].kind = api[e].kind
    BY <1>3 DEF ApiRead, ApiGoto, TypeOK
  <2>2. DocRow' = DocRow /\ DocRow[DocOf[e]] = "authorized"
    BY <1>0, <2>1 DEF DocRow, RowSays, DocTerminal
  <2>3. \A d, kind : Registered(d, kind)' <=> Registered(d, kind)
    BY <1>1, <1>2, <2>1 DEF Registered
  <2>4. DocSefaz' = DocSefaz
    BY <1>1, <2>3 DEF DocSefaz, SefazHolds
  <2>5. DocAsked' = DocAsked \cup {DocOf[e]}
    BY <1>0, <1>2, <2>1, RowsAssumption DEF DocAsked, Quiet
  <2>6. Document!Ask(DocOf[e])
    BY <1>1, <2>2, <2>4, <2>5 DEF Document!Ask
  <2> QED BY <1>0, <2>6 DEF Document!Next
<1>4. CASE ~ApiRead(e)
  <2>1. api[e].pc # "idle"
    BY <1>4 DEF ApiStep, ApiCreateEvent, ApiMark, ApiPublish, ApiFails
  <2>2. api'[e].pc # "idle"
    BY <1>0, <2>1 DEF Grew
  <2>3. UNCHANGED Seen
    BY <1>0, <1>1, <1>2, <2>1, <2>2, SeenStays
  <2>4. CASE ApiMark(e)
    <3>1. \A d \in Docs : d # DocOf[e] => status'[d] = status[d]
      BY <2>4 DEF ApiMark, TypeOK, Rows
    <3>2. ~Quiet(DocOf[e])
      BY <1>0, <2>1, RowsAssumption DEF Quiet
    <3> QED BY <1>0, <1>1, <2>3, <3>1, <3>2, DocumentWrites
  <2>5. CASE ~ApiMark(e)
    <3>1. \A d \in Docs : status'[d] = status[d]
      BY <1>0, <1>4, <2>5 DEF ApiStep, ApiCreateEvent, ApiPublish, ApiFails, TypeOK, Rows
    <3>2. \A d \in Docs : RowSays(d)' = RowSays(d)
      BY <3>1 DEF RowSays
    <3> QED BY <2>3, <3>2, DocumentStutters
  <2> QED BY <2>4, <2>5
<1> QED BY <1>3, <1>4

\* Billing is told what the row says.
LEMMA BillingLearns ==
    ASSUME TypeOK, ResultsInv, ChargesReal, NEW d \in Docs,
           NEW s \in {"authorized", "rejected", "failed"}, Settle(d, s)
    PROVE  [Document!Next]_(Document!vars)
<1>1. /\ <<d, s>> \in results /\ s \in Statuses /\ d \in Rows
      /\ UNCHANGED <<accepted, xml, deadLettered, api, status>>
  BY DEF Settle, Statuses, DocTerminal, Rows
<1>2. DocSefaz' = DocSefaz /\ DocAsked' = DocAsked /\ DocRow' = DocRow
  BY <1>1 DEF DocSefaz, SefazHolds, Registered, DocAsked, Quiet, DocRow, RowSays
<1>3. d \notin (deadLettered \cap Docs) \cup DocAsked => DocRow[d] = s
  BY <1>1 DEF ResultsInv, Decided, DocAsked, DocRow, RowSays, Terminal
<1>4. CASE s = "authorized"
  <2>1. d \in accepted
    BY <1>1, <1>4 DEF ChargesReal
  <2>2. "authorized" \in DocSefaz[d]
    BY <2>1 DEF DocSefaz, SefazHolds
  <2>3. Document!Report(d)
    BY <1>1, <1>2, <1>3, <1>4, <2>2 DEF Document!Report, Document!Undisturbed, Settle
  <2> QED BY <2>3 DEF Document!Next
<1>5. CASE s \in {"rejected", "failed"}
  <2>1. Document!Return(d)
    BY <1>1, <1>2, <1>3, <1>5 DEF Document!Return, Document!Undisturbed, Settle
  <2> QED BY <2>1 DEF Document!Next
<1> QED BY <1>4, <1>5

LEMMA DocumentInit == Init => Document!Init
<1> SUFFICES ASSUME Init PROVE Document!Init
  OBVIOUS
<1>1. DocSefaz = [d \in Docs |-> {}] /\ DocRow = [d \in Docs |-> "open"] /\ DocAsked = {}
  BY DEF Init, DocSefaz, SefazHolds, Registered, DocRow, RowSays, DocTerminal, DocAsked, Quiet, Rows
<1> QED BY <1>1 DEF Init, Document!Init

LEMMA DocumentStep ==
    ASSUME TypeOK, TypeOK', JobsSound, StatusIsReal', AnswersAreReal, EventsHaveDocuments,
           OwnerInv, CallsInv, ResultsInv, ChargesReal, [Next]_vars
    PROVE  [Document!Next]_(Document!vars)
<1>0. Grew
  BY GrewStep
<1>1. ASSUME UNCHANGED <<accepted, xml, deadLettered, reported, refunded, api, status>>
      PROVE  UNCHANGED Document!vars
  <2>1. UNCHANGED Seen
    BY <1>0, <1>1, SeenStays
  <2> QED BY <1>1, <2>1, RowsUntouched, DocumentStutters
<1>2. ASSUME NEW j \in Jobs, WorkerStep(j) \/ DlqStep(j) PROVE [Document!Next]_(Document!vars)
  <2>1. CASE Claim(j) \/ WriteDoc(j) \/ Finalize(j) \/ MarkRetryable(j)
    BY <2>1, WorkerLives
  <2>2. CASE DlqWrite(j)
    BY <2>2, ProcessorOverrules
  <2>3. CASE HandleAnswer(j)
    BY <2>3, AnswerStores
  <2>4. CASE ClaimRefused(j) \/ ReadBack(j) \/ AgeOut(j) \/ Invoke(j) \/ Consult(j)
    BY <1>1, <2>4 DEF ClaimRefused, ReadBack, AgeOut, Invoke, Consult
  <2>5. CASE LostOwnership(j) \/ StepFails(j) \/ Publish(j) \/ Crash(j)
    BY <1>1, <2>5 DEF LostOwnership, StepFails, Publish, Crash
  <2>6. CASE DlqPublish(j) \/ DlqFails(j)
    BY <1>1, <2>6 DEF DlqPublish, DlqFails
  <2> QED BY <1>2, <2>1, <2>2, <2>3, <2>4, <2>5, <2>6 DEF WorkerStep, DlqStep
<1>3. ASSUME NEW d \in Docs, PublishOutbox(d) \/ AckOutbox(d) PROVE UNCHANGED Document!vars
  BY <1>1, <1>3 DEF PublishOutbox, AckOutbox
<1>4. ASSUME NEW r \in Rows, Redeliver(r) \/ LeaseExpires(r) PROVE UNCHANGED Document!vars
  BY <1>1, <1>4 DEF Redeliver, LeaseExpires
<1>5. ASSUME NEW c \in Attempts, SefazStep(c) PROVE [Document!Next]_(Document!vars)
  BY <1>1, <1>5, SefazHoldsMore DEF SefazStep, EngineFails
<1>6. ASSUME NEW d \in Docs, NEW s \in {"authorized", "rejected", "failed"}, Settle(d, s)
      PROVE  [Document!Next]_(Document!vars)
  BY <1>6, BillingLearns
<1>7. ASSUME NEW e \in Events, ApiStep(e) PROVE [Document!Next]_(Document!vars)
  BY <1>7, RequestsLive
<1>8. CASE UNCHANGED vars
  BY <1>1, <1>8 DEF vars
<1> QED BY <1>2, <1>3, <1>4, <1>5, <1>6, <1>7, <1>8 DEF Next

\* The invariants a document's life rests on.
LEMMA AlwaysLived ==
    Spec => [](TypeOK /\ JobsSound /\ StatusIsReal /\ AnswersAreReal /\ EventsHaveDocuments
               /\ OwnerInv /\ CallsInv /\ ResultsInv /\ ChargesReal)
<1>1. Init => CallsInv /\ ResultsInv /\ ChargesReal
  <2> SUFFICES ASSUME Init PROVE CallsInv /\ ResultsInv /\ ChargesReal
    OBVIOUS
  <2>1. calls = {} /\ results = {} /\ accepted = {} /\ \A j \in Jobs : job[j].pc = "none"
    BY DEF Init
  <2> QED BY <2>1 DEF Init, CallsInv, ResultsInv, ChargesReal, Working
<1>2. TypeOK /\ JobsSound /\ StatusIsReal /\ AnswersAreReal /\ EventsHaveDocuments /\ OwnerInv
      /\ CallsInv /\ ResultsInv /\ ChargesReal /\ [Next]_vars
      => CallsInv' /\ ResultsInv' /\ ChargesReal'
  BY EngagedShrinks, ResultsKept, ChargesKept
<1> QED BY <1>1, <1>2, AlwaysOwned, PTL DEF Spec

\* The publisher, the worker, SEFAZ, the processor, settlement and the event
\* requests together implement the abstract life of a document, for any
\* deliveries and tries, and clocks skewed or not.
THEOREM ImplementsDocument == Spec => DocumentSpec
<1>1. TypeOK /\ JobsSound /\ StatusIsReal /\ AnswersAreReal /\ EventsHaveDocuments /\ OwnerInv
      /\ CallsInv /\ ResultsInv /\ ChargesReal /\ TypeOK' /\ StatusIsReal' /\ [Next]_vars
      => [Document!Next]_(Document!vars)
  BY DocumentStep
<1> QED BY <1>1, DocumentInit, AlwaysLived, PTL DEF Spec, DocumentSpec, Document!Spec


\* The abstract invariant behind Consistent: in the normal course billing was
\* told what the row still says.
DocumentInv ==
    /\ DocRow \in [Docs -> Document!Decisions \cup Document!Endings \cup {"open"}]
    /\ Document!Consistent
    /\ \A d \in Docs : Document!Undisturbed(d) =>
          /\ d \in reported => DocRow[d] = "authorized"
          /\ d \in refunded => DocRow[d] \in {"rejected", "failed"}

\* The abstract specification keeps it, whatever implements it.
LEMMA DocumentsKept ==
    ASSUME DocSefaz = [d \in Docs |-> DocSefaz[d]], DocSefaz' = [d \in Docs |-> DocSefaz'[d]],
           DocumentInv, [Document!Next]_(Document!vars)
    PROVE  DocumentInv'
<1> USE DEF DocumentInv, Document!Consistent, Document!Undisturbed, Document!Truthful,
            Document!Decisions, Document!Endings
<1>1. CASE UNCHANGED Document!vars
  BY <1>1 DEF Document!vars
<1>2. ASSUME NEW d \in Docs, Document!Authorize(d) PROVE DocumentInv'
  BY <1>2 DEF Document!Authorize, Document!Holds
<1>3. ASSUME NEW d \in Docs, NEW fact \in Document!Endings, Document!Register(d, fact)
      PROVE  DocumentInv'
  BY <1>3 DEF Document!Register, Document!Holds
<1>4. ASSUME NEW d \in Docs, Document!Store(d) PROVE DocumentInv'
  BY <1>4 DEF Document!Store
<1>5. ASSUME NEW d \in Docs, NEW s \in Document!Decisions, Document!Decide(d, s)
      PROVE  DocumentInv'
  BY <1>5 DEF Document!Decide, Document!Says
<1>6. ASSUME NEW d \in Docs, NEW s \in Document!Decisions \cup Document!Endings \cup {"open"},
             Document!Revise(d, s)
      PROVE  DocumentInv'
  BY <1>6 DEF Document!Revise, Document!Says
<1>7. ASSUME NEW d \in Docs, Document!Overrule(d) PROVE DocumentInv'
  BY <1>7 DEF Document!Overrule, Document!Says
<1>8. ASSUME NEW d \in Docs, Document!Ask(d) PROVE DocumentInv'
  BY <1>8 DEF Document!Ask
<1>9. ASSUME NEW d \in Docs, Document!Report(d) \/ Document!Return(d) PROVE DocumentInv'
  BY <1>9 DEF Document!Report, Document!Return
<1> HIDE DEF DocumentInv
<1> QED BY <1>1, <1>2, <1>3, <1>4, <1>5, <1>6, <1>7, <1>8, <1>9 DEF Document!Next

\* No usage is billed of a document SEFAZ did not authorize, none is both
\* cancelled and closed, and, unless the processor or an event touched it, none
\* is both billed and refunded: the abstract life says so, so DfeWorker does.
THEOREM DocumentsConsistent == Spec => []Document!Consistent
<1>1. Document!Init => DocumentInv
  BY DEF Document!Init, DocumentInv, Document!Consistent, Document!Undisturbed, Document!Truthful,
         Document!Decisions, Document!Endings
<1>2. DocumentInv /\ [Document!Next]_(Document!vars) => DocumentInv'
  <2>1. DocSefaz = [d \in Docs |-> DocSefaz[d]] /\ DocSefaz' = [d \in Docs |-> DocSefaz'[d]]
    BY DEF DocSefaz
  <2> QED BY <2>1, DocumentsKept
<1>3. DocumentInv => Document!Consistent
  BY DEF DocumentInv
<1> QED BY <1>1, <1>2, <1>3, ImplementsDocument, PTL DEF DocumentSpec, Document!Spec

-----------------------------------------------------------------------------
(* What the documents say, and when it is true *)

\* While no message is dead-lettered and no event is asked for, a terminal
\* status of a document never changes: those two are all that ever rewrites
\* one, so all that breaks TerminalStatusKept.
THEOREM TerminalStatusKeptUnlessDisturbed ==
    Spec /\ [](deadLettered = {} /\ DocAsked = {}) => TerminalStatusKept
<1> DEFINE Calm == deadLettered = {} /\ DocAsked = {}
<1>1. TypeOK /\ JobsSound /\ AnswersAreReal /\ OwnerInv /\ Calm' /\ [Next]_vars
      => [\A d \in Docs : status[d] \in DocTerminal => status'[d] = status[d]]_vars
  <2> SUFFICES ASSUME TypeOK, JobsSound, AnswersAreReal, OwnerInv, Calm', [Next]_vars,
                      NEW d \in Docs, status[d] \in DocTerminal
               PROVE  status'[d] = status[d]
    OBVIOUS
  <2>1. d \in Rows /\ status[d] \in Terminal(d) /\ d \notin deadLettered' /\ Quiet(d)'
    BY DEF Rows, Terminal, DocAsked
  <2> QED BY <2>1, FinalStays
<1> QED BY <1>1, AlwaysOwned, PTL DEF Spec, TerminalStatusKept

\* SEFAZ authorizes no document behind its row: with unskewed clocks a row that
\* is not dead-lettered is in processing when SEFAZ authorizes its document, so
\* a decision is never overtaken by a call an older attempt left behind.
NoLateAuthorization ==
    [][\A d \in Docs : d \in accepted' \ accepted /\ d \notin deadLettered
          => status[d] = "processing"]_vars

LEMMA AuthorizedInProcessing ==
    ASSUME TypeOK, JobsSound, EventsHaveDocuments, OwnerInv, CallsInv, WorkedInv, [Next]_vars,
           NEW d \in Docs, d \in accepted' \ accepted, d \notin deadLettered
    PROVE  status[d] = "processing"
<1>1. PICK c \in Attempts : SefazDecides(c)
  BY AcceptedBySefaz
<1>2. c \in calls /\ RowOf(c[1]) = d
  BY <1>1 DEF SefazDecides
<1>3. c \in Engaged(d) /\ d \in Rows
  BY <1>2 DEF Engaged, Rows
<1>4. Quiet(d)
  BY DEF Quiet, EventsHaveDocuments
<1>5. owner[d] = c
  BY <1>3, <1>4 DEF WorkedInv
<1>6. c # NoOwner
  <2>1. c = <<c[1], c[2]>>
    BY DEF Attempts
  <2>2. \A x, y : <<x, y>> # NoOwner
    BY DEF NoOwner
  <2> QED BY <2>1, <2>2
<1> QED BY <1>3, <1>4, <1>5, <1>6 DEF OwnerInv

\* So no call that outlived its attempt authorizes a document behind a decision.
THEOREM NoLateAuthorizationHolds ==
    ASSUME ~SkewedClocks
    PROVE  Spec => NoLateAuthorization
<1>1. TypeOK /\ JobsSound /\ EventsHaveDocuments /\ OwnerInv /\ CallsInv /\ WorkedInv /\ [Next]_vars
      => [\A d \in Docs : d \in accepted' \ accepted /\ d \notin deadLettered
             => status[d] = "processing"]_vars
  BY AuthorizedInProcessing
<1> QED BY <1>1, AlwaysReal, AlwaysWorked, PTL DEF Spec, NoLateAuthorization

\* The engine's 400 is told from a lost exchange: an attempt that is about to
\* finalize a document as failed was not answered "invalid" of one SEFAZ holds.
Honest ==
    \A j \in Jobs : job[j].pc = "final" /\ job[j].ans = "invalid" /\ RowOf(j) \in Docs
        => RowOf(j) \notin accepted

LEMMA RetriedKept ==
    ASSUME TypeOK, JobsSound, AnswersAreReal, EventsHaveDocuments, OwnerInv, CallsInv, WorkedInv,
           Honest, TransportIsRetried, [Next]_vars
    PROVE  TransportIsRetried'
<1> SUFFICES ASSUME NEW d \in Docs, status'[d] = "failed", d \in accepted', d \notin deadLettered'
             PROVE  FALSE
  BY DEF TransportIsRetried
<1>1. d \notin deadLettered /\ d \in Rows
  BY ProcessorRemembers DEF Rows
<1>2. CASE status[d] = "failed"
  <2>1. d \notin accepted
    BY <1>1, <1>2 DEF TransportIsRetried
  <2> QED BY <1>1, <1>2, <2>1, AuthorizedInProcessing
<1>3. ASSUME NEW j \in Jobs, Finalize(j), status[d] # "failed" PROVE FALSE
  <2>1. RowOf(j) = d /\ FinalStatus(d, job[j].ans) = "failed" /\ accepted' = accepted
    BY <1>1, <1>3 DEF Finalize, TypeOK
  <2>2. job[j].ans = "invalid" /\ job[j].pc = "final"
    BY <1>3, <2>1 DEF FinalStatus, Finalize
  <2> QED BY <2>1, <2>2 DEF Honest
<1>4. ASSUME NEW j \in Jobs, Claim(j) \/ WriteDoc(j) \/ MarkRetryable(j), status[d] # "failed"
      PROVE  FALSE
  <2>1. ASSUME NEW e, NEW ans PROVE EventDocStatus(e, ans) # "failed"
    BY DEF EventDocStatus
  <2>2. CASE Claim(j) \/ MarkRetryable(j)
    BY <1>1, <1>4, <2>2 DEF Claim, MarkRetryable, TypeOK
  <2>3. CASE WriteDoc(j)
    BY <1>1, <1>4, <2>1, <2>3 DEF WriteDoc, TypeOK
  <2> QED BY <1>4, <2>2, <2>3
<1>5. ASSUME NEW j \in Jobs, DlqWrite(j), status[d] # "failed" PROVE FALSE
  BY <1>1, <1>5 DEF DlqWrite, TypeOK
<1>6. ASSUME NEW e \in Events, ApiCreateEvent(e) \/ ApiMark(e), status[d] # "failed" PROVE FALSE
  <2>1. PICK r, s : status' = [status EXCEPT ![r] = s] /\ s # "failed"
    BY <1>6 DEF ApiCreateEvent, ApiMark
  <2> QED BY <1>1, <1>6, <2>1 DEF TypeOK
<1>7. CASE ~WritesRow
  BY <1>2, <1>7, RowsStay
<1> QED BY <1>2, <1>3, <1>4, <1>5, <1>6, <1>7 DEF WritesRow

\* If the engine's answers were honest, and clocks are not skewed, a document
\* SEFAZ authorized would not be finalized as failed: the misreported exchange
\* is the only way to it, beside the processor.
THEOREM TransportIsRetriedIfHonest ==
    ASSUME ~SkewedClocks
    PROVE  Spec /\ []Honest => []TransportIsRetried
<1>1. Init => TransportIsRetried
  BY DEF Init, TransportIsRetried
<1>2. TypeOK /\ JobsSound /\ AnswersAreReal /\ EventsHaveDocuments /\ OwnerInv /\ CallsInv
      /\ WorkedInv /\ Honest /\ TransportIsRetried /\ [Next]_vars => TransportIsRetried'
  BY RetriedKept
<1> QED BY <1>1, <1>2, AlwaysReal, AlwaysWorked, PTL DEF Spec

-----------------------------------------------------------------------------
(* Nothing is lost on the way *)

\* No committed document and no published event is ever left with nothing under
\* way: a row whose message was delivered has a final status, or a job that may
\* still give it one, or is with the DLQ processor or in the parking queue.
NothingStranded ==
    \A r \in Rows : Quiet(r) /\ delivered[r] > 0 => status[r] \in Terminal(r) \/ UnderWay(r)

\* With it: an event that no message was delivered of has not been worked on,
\* and a request that was sent has a delivery.
StrandedInv ==
    /\ NothingStranded
    /\ \A e \in Events : /\ delivered[e] = 0 => status[e] \in {"absent", "pending"}
                         /\ api[e].pc = "sent" => delivered[e] > 0

\* Who moves a status.
LEMMA StatusMoves ==
    ASSUME TypeOK, JobsSound, AnswersAreReal, OwnerInv, [Next]_vars, NEW r \in Rows,
           status'[r] # status[r], Quiet(r)'
    PROVE  \/ \E j \in Jobs : RowOf(j) = r /\ (Claim(j) \/ MarkRetryable(j))
           \/ \E j \in Jobs : RowOf(j) = r /\ Finalize(j)
           \/ \E j \in Jobs : RowOf(j) = r /\ DlqWrite(j)
           \/ r \in Events /\ ApiCreateEvent(r)
<1>1. ASSUME NEW j \in Jobs, Claim(j) \/ MarkRetryable(j) \/ Finalize(j) \/ DlqWrite(j)
      PROVE  RowOf(j) = r
  BY <1>1 DEF Claim, MarkRetryable, Finalize, DlqWrite, TypeOK
<1>2. ASSUME NEW e \in Events, ApiCreateEvent(e) PROVE e = r
  BY <1>2 DEF ApiCreateEvent, TypeOK
<1>3. ASSUME NEW e \in Events, ApiMark(e) PROVE FALSE
  <2>1. DocOf[e] = r /\ r \notin Events
    BY <1>3, EventsAssumption, RowsAssumption DEF ApiMark, TypeOK
  <2>2. api'[e].pc = "marked"
    BY <1>3 DEF ApiMark, ApiGoto, TypeOK
  <2> QED BY <2>1, <2>2 DEF Quiet
<1>4. ASSUME NEW j \in Jobs, WriteDoc(j) PROVE FALSE
  <2>1. job[j].pc = "docwrite" /\ DocOf[RowOf(j)] = r /\ api' = api
    BY <1>4 DEF WriteDoc, TypeOK
  <2>2. RowOf(j) \in Events
    BY <2>1 DEF AnswersAreReal, AnswerReal
  <2>3. ~Quiet(r)
    BY <2>1, <2>2, EventIsSent
  <2> QED BY <2>1, <2>3 DEF Quiet
<1>5. WritesRow
  BY RowsStay
<1> QED BY <1>1, <1>2, <1>3, <1>4, <1>5 DEF WritesRow

\* A first delivery queues a job; an event's comes with its request's end.
LEMMA DeliveriesMove ==
    ASSUME TypeOK, JobsSound, [Next]_vars, NEW r \in Rows
    PROVE  /\ delivered'[r] # delivered[r] => delivered'[r] > 0 /\ UnderWay(r)'
           /\ r \in Events /\ api'[r].pc = "sent" /\ api[r].pc # "sent" => delivered'[r] > 0
<1> DEFINE Moved ==
        /\ delivered'[r] # delivered[r] => delivered'[r] > 0 /\ UnderWay(r)'
        /\ r \in Events /\ api'[r].pc = "sent" /\ api[r].pc # "sent" => delivered'[r] > 0
<1>1. ASSUME NEW q \in Rows, Deliver(q)
      PROVE  /\ q # r => delivered'[r] = delivered[r]
             /\ q = r => delivered'[r] > 0 /\ UnderWay(r)'
  <2>1. PICK j \in Jobs : /\ RowOf(j) = q /\ job'[j].pc = "queued"
                          /\ delivered' = [delivered EXCEPT ![q] = delivered[q] + 1]
    BY <1>1, JobDelivered
  <2>2. delivered[q] \in Nat
    BY DEF TypeOK
  <2> QED BY <2>1, <2>2 DEF TypeOK, UnderWay
<1>2. CASE UNCHANGED <<api, delivered>>
  BY <1>2
<1>3. ASSUME NEW d \in Docs, PublishOutbox(d) \/ AckOutbox(d) PROVE Moved
  BY <1>1, <1>2, <1>3 DEF PublishOutbox, AckOutbox, Rows
<1>4. ASSUME NEW q \in Rows, Redeliver(q) \/ LeaseExpires(q) PROVE Moved
  BY <1>1, <1>2, <1>4 DEF Redeliver, LeaseExpires
<1>5. ASSUME NEW e \in Events, ApiPublish(e) PROVE Moved
  <2>1. e \in Rows /\ Deliver(e) /\ \A f \in Events : f # e => api'[f] = api[f]
    BY <1>5 DEF ApiPublish, ApiGoto, TypeOK, Rows
  <2> QED BY <1>1, <2>1
<1>6. ASSUME NEW e \in Events, ApiRead(e) \/ ApiCreateEvent(e) \/ ApiMark(e) \/ ApiFails(e)
      PROVE  Moved
  <2>1. PICK place \in {"read", "created", "marked", "failed"} : ApiGoto(e, place)
    BY <1>6 DEF ApiRead, ApiCreateEvent, ApiMark, ApiFails
  <2>2. \A f \in Events : api'[f].pc = api[f].pc \/ api'[f].pc = place
    BY <2>1 DEF ApiGoto, TypeOK
  <2>3. delivered' = delivered
    BY <1>6 DEF ApiRead, ApiCreateEvent, ApiMark, ApiFails
  <2> QED BY <2>1, <2>2, <2>3
<1>7. ASSUME NEW j \in Jobs, WorkerStep(j) \/ DlqStep(j) PROVE UNCHANGED <<api, delivered>>
  <2>1. CASE Claim(j) \/ ClaimRefused(j) \/ ReadBack(j) \/ AgeOut(j) \/ Invoke(j) \/ HandleAnswer(j)
    BY <2>1 DEF Claim, ClaimRefused, ReadBack, AgeOut, Invoke, HandleAnswer
  <2>2. CASE Consult(j) \/ WriteDoc(j) \/ Finalize(j) \/ LostOwnership(j) \/ StepFails(j)
    BY <2>2 DEF Consult, WriteDoc, Finalize, LostOwnership, StepFails
  <2>3. CASE MarkRetryable(j) \/ Publish(j) \/ Crash(j)
    BY <2>3 DEF MarkRetryable, Publish, Crash
  <2>4. CASE DlqStep(j)
    BY <2>4 DEF DlqStep, DlqWrite, DlqPublish, DlqFails
  <2> QED BY <1>7, <2>1, <2>2, <2>3, <2>4 DEF WorkerStep
<1>8. ASSUME NEW c \in Attempts, SefazStep(c) PROVE UNCHANGED <<api, delivered>>
  BY <1>8 DEF SefazStep, SefazDecides, EngineFails
<1>9. ASSUME NEW d \in Docs, NEW s \in {"authorized", "rejected", "failed"}, Settle(d, s)
      PROVE  UNCHANGED <<api, delivered>>
  BY <1>9 DEF Settle
<1>10. CASE UNCHANGED vars
  BY <1>2, <1>10 DEF vars
<1> HIDE DEF Moved
<1>11. Moved
  <2>1. CASE UNCHANGED <<api, delivered>>
    BY <1>2, <2>1 DEF Moved
  <2> QED BY <1>3, <1>4, <1>5, <1>6, <1>7, <1>8, <1>9, <1>10, <2>1 DEF Next, ApiStep, Moved
<1> QED BY <1>11 DEF Moved

LEMMA StrandedKept ==
    ASSUME TypeOK, JobsSound, AnswersAreReal, OwnerInv, StrandedInv, [Next]_vars
    PROVE  StrandedInv'
<1>1. \A r \in Rows : /\ delivered'[r] = 0 => delivered[r] = 0
                      /\ delivered'[r] = delivered[r] \/ delivered'[r] > 0
  BY RequestsMove, DeliveriesMove DEF TypeOK
<1>2. ASSUME NEW r \in Rows, Quiet(r)', delivered'[r] > 0, status'[r] \notin Terminal(r)
      PROVE  UnderWay(r)'
  <2>1. CASE delivered'[r] # delivered[r]
    BY <2>1, DeliveriesMove
  <2>2. CASE delivered'[r] = delivered[r] /\ status'[r] # status[r]
    <3>1. ASSUME NEW j \in Jobs, Finalize(j) \/ DlqWrite(j), RowOf(j) = r PROVE FALSE
      <4>1. DlqStatus(r) \in Terminal(r) /\ FinalStatus(r, job[j].ans) \in Terminal(r)
        BY FinalIsTerminal DEF DlqStatus, Terminal, DocTerminal, EventTerminal
      <4>2. status'[r] \in {DlqStatus(r), FinalStatus(r, job[j].ans)}
        BY <3>1 DEF Finalize, DlqWrite, TypeOK
      <4> QED BY <1>2, <4>1, <4>2
    <3>2. ~(r \in Events /\ ApiCreateEvent(r))
      <4>1. r \in Events /\ ApiCreateEvent(r) => delivered[r] = 0
        BY DEF ApiCreateEvent, OwnerInv
      <4> QED BY <1>2, <2>2, <4>1
    <3>3. PICK j \in Jobs : RowOf(j) = r /\ (Claim(j) \/ MarkRetryable(j))
      BY <1>2, <2>2, <3>1, <3>2, StatusMoves
    <3>4. job'[j].pc \in {"claimed", "queued", "dlq"}
      <4>1. CASE Claim(j)
        BY <4>1, JobStarts DEF Claim, Places, Running, Working
      <4>2. CASE MarkRetryable(j)
        BY <4>2, JobGoes, AfterFailureIs DEF MarkRetryable, Places
      <4> QED BY <3>3, <4>1, <4>2
    <3> QED BY <3>3, <3>4 DEF UnderWay
  <2>3. CASE delivered'[r] = delivered[r] /\ status'[r] = status[r]
    <3>1. Quiet(r) /\ delivered[r] > 0 /\ status[r] \notin Terminal(r)
      BY <1>2, <2>3, QuietStays
    <3>2. PICK k \in Jobs : RowOf(k) = r /\ job[k].pc \notin {"none", "publish", "done", "dlqpublish"}
      BY <3>1 DEF StrandedInv, NothingStranded, UnderWay
    <3>3. CASE job'[k] = job[k]
      BY <3>2, <3>3 DEF UnderWay
    <3>4. CASE job'[k] # job[k]
      <4>1. ~Publish(k) /\ ~DlqPublish(k)
        BY <3>2 DEF Publish, DlqPublish
      <4>2. ReadBack(k) => job'[k].pc # "publish"
        <5>1. ReadBack(k) => job'[k].pc = AfterFailure(k)
          BY <3>1, <3>2 DEF ReadBack, TypeOK
        <5> QED BY <5>1, AfterFailureIs
      <4>3. ASSUME Finalize(k) \/ DlqWrite(k) PROVE FALSE
        <5>1. DlqStatus(r) \in Terminal(r) /\ FinalStatus(r, job[k].ans) \in Terminal(r)
          BY FinalIsTerminal DEF DlqStatus, Terminal, DocTerminal, EventTerminal
        <5>2. status'[r] \in {DlqStatus(r), FinalStatus(r, job[k].ans)}
          BY <3>2, <4>3 DEF Finalize, DlqWrite, TypeOK
        <5> QED BY <1>2, <5>1, <5>2
      <4>4. job'[k].pc \notin {"none", "publish", "done", "dlqpublish"}
        BY <3>4, <4>1, <4>2, <4>3, JobsMove
      <4> QED BY <3>2, <4>4 DEF UnderWay
    <3> QED BY <3>3, <3>4
  <2> QED BY <2>1, <2>2, <2>3
<1>3. ASSUME NEW e \in Events, delivered'[e] = 0 PROVE status'[e] \in {"absent", "pending"}
  <2>1. e \in Rows /\ delivered[e] = 0 /\ status[e] \in {"absent", "pending"} /\ Quiet(e)'
    BY <1>1, <1>3 DEF StrandedInv, Rows, Quiet
  <2>2. ASSUME NEW j \in Jobs, Claim(j) \/ MarkRetryable(j) \/ Finalize(j) \/ DlqWrite(j)
        PROVE  RowOf(j) # e
    <3>1. job[j].pc # "none"
      BY <2>2 DEF Claim, MarkRetryable, Finalize, DlqWrite
    <3> QED BY <2>1, <3>1, StartedIsDelivered
  <2>3. ApiCreateEvent(e) => status'[e] = "pending"
    BY <2>1 DEF ApiCreateEvent, TypeOK
  <2> QED BY <2>1, <2>2, <2>3, StatusMoves
<1>4. ASSUME NEW e \in Events, api'[e].pc = "sent" PROVE delivered'[e] > 0
  <2>1. e \in Rows
    BY DEF Rows
  <2>2. api[e].pc = "sent" => delivered[e] > 0
    BY DEF StrandedInv
  <2> QED BY <1>1, <1>4, <2>1, <2>2, DeliveriesMove
<1>5. NothingStranded'
  BY <1>2 DEF NothingStranded, Terminal
<1> QED BY <1>3, <1>4, <1>5 DEF StrandedInv

LEMMA NeverStranded == Spec => []StrandedInv
<1>1. Init => StrandedInv
  <2> SUFFICES ASSUME Init PROVE StrandedInv
    OBVIOUS
  <2>1. \A e \in Events : e \in Rows /\ e \notin Docs /\ api[e].pc = "idle"
    BY RowsAssumption DEF Rows, Init
  <2> QED BY <2>1 DEF Init, StrandedInv, NothingStranded
<1>2. TypeOK /\ JobsSound /\ AnswersAreReal /\ OwnerInv /\ StrandedInv /\ [Next]_vars => StrandedInv'
  BY StrandedKept
<1> QED BY <1>1, <1>2, AlwaysOwned, PTL DEF Spec

\* Whatever crashes, is retried or loses its lease, no row is left behind: the
\* half of EveryDocumentEnds that holds without any fairness.
THEOREM NothingStrandedHolds == Spec => []NothingStranded
<1>1. StrandedInv => NothingStranded
  BY DEF StrandedInv
<1> QED BY <1>1, NeverStranded, PTL

\* A decision a worker wrote is published, or a job of its row is still to be
\* run: the half of SettlementArrives that holds without any fairness.
DecisionIsPublished ==
    \A r \in Rows : Quiet(r) /\ r \notin deadLettered /\ status[r] \in Terminal(r) =>
        \/ <<r, status[r]>> \in results
        \/ \E j \in Jobs : RowOf(j) = r /\ job[j].pc \notin {"none", "done"}

LEMMA DecisionsKept ==
    ASSUME TypeOK, JobsSound, AnswersAreReal, OwnerInv, ResultsInv, DecisionIsPublished, [Next]_vars
    PROVE  DecisionIsPublished'
<1> SUFFICES ASSUME NEW r \in Rows, Quiet(r)', r \notin deadLettered', status'[r] \in Terminal(r)
             PROVE  \/ <<r, status'[r]>> \in results'
                    \/ \E j \in Jobs : RowOf(j) = r /\ job'[j].pc \notin {"none", "done"}
  BY DEF DecisionIsPublished, Terminal
<1>1. Quiet(r) /\ r \notin deadLettered
  BY QuietStays, ProcessorRemembers
<1>2. CASE status'[r] # status[r]
  <2>1. ASSUME NEW j \in Jobs, RowOf(j) = r, Claim(j) \/ MarkRetryable(j) \/ DlqWrite(j) PROVE FALSE
    <3>1. CASE Claim(j) \/ MarkRetryable(j)
      <4>1. status'[r] \in {"processing", "retryable_failed"}
        BY <2>1, <3>1 DEF Claim, MarkRetryable, TypeOK
      <4> QED BY <4>1, OpenIsNotTerminal DEF Open
    <3>2. CASE DlqWrite(j)
      BY <2>1, <3>2 DEF DlqWrite
    <3> QED BY <2>1, <3>1, <3>2
  <2>2. ASSUME ApiCreateEvent(r), r \in Events PROVE FALSE
    <3>1. status'[r] = "pending"
      BY <2>2 DEF ApiCreateEvent, TypeOK
    <3> QED BY <3>1, OpenIsNotTerminal DEF Open
  <2>3. PICK j \in Jobs : RowOf(j) = r /\ Finalize(j)
    BY <1>2, <2>1, <2>2, StatusMoves
  <2>4. PICK s : job' = [job EXCEPT ![j] = [@ EXCEPT !.pc = "publish", !.pub = s]]
    BY <2>3 DEF Finalize
  <2>5. job'[j].pc = "publish"
    BY <2>4 DEF TypeOK
  <2> QED BY <2>3, <2>5
<1>3. CASE status'[r] = status[r]
  <2>1. CASE <<r, status[r]>> \in results
    BY <1>3, <2>1, ResultsMove
  <2>2. ASSUME NEW j \in Jobs, RowOf(j) = r, job[j].pc \notin {"none", "done"}
        PROVE  <<r, status'[r]>> \in results' \/ job'[j].pc \notin {"none", "done"}
    <3>1. CASE job'[j] = job[j]
      BY <2>2, <3>1
    <3>2. CASE Publish(j)
      <4>1. <<r, job[j].pub>> \in results' /\ job[j].pc = "publish"
        BY <2>2, <3>2 DEF Publish
      <4>2. job[j].pub = status[r]
        BY <1>1, <2>2, <4>1 DEF ResultsInv, Decided
      <4> QED BY <1>3, <4>1, <4>2
    <3>3. ~DlqPublish(j)
      BY <1>1, <2>2 DEF DlqPublish, ResultsInv
    <3> QED BY <3>1, <3>2, <3>3, JobsMove
  <2> QED BY <1>1, <1>3, <2>1, <2>2 DEF DecisionIsPublished
<1> QED BY <1>2, <1>3

\* A decision that no attempt is still to publish was published: the half of
\* SettlementArrives that holds without any fairness.
THEOREM DecisionIsPublishedHolds == Spec => []DecisionIsPublished
<1>1. Init => DecisionIsPublished
  <2> SUFFICES ASSUME Init, NEW r \in Rows PROVE status[r] \notin Terminal(r)
    BY DEF DecisionIsPublished
  <2>1. status[r] \in {"pending", "absent"}
    BY DEF Init
  <2> QED BY <2>1, OpenIsNotTerminal DEF Open
<1>2. TypeOK /\ JobsSound /\ AnswersAreReal /\ OwnerInv /\ ResultsInv /\ DecisionIsPublished
      /\ [Next]_vars => DecisionIsPublished'
  BY DecisionsKept
<1> QED BY <1>1, <1>2, AlwaysLived, PTL DEF Spec

\* Of a document that was not dead-lettered and of which no event was asked one
\* result is published, however often: what Issuance needs to know of the worker
\* (DecidedOnce) for its quota.
OneDecision ==
    \A d \in Docs \ deadLettered : Quiet(d) =>
        \A s, t \in Statuses : <<d, s>> \in results /\ <<d, t>> \in results => s = t

\* Two deliveries, two tries or a lost publication never publish two decisions.
THEOREM OneDecisionHolds == Spec => []OneDecision
<1>1. ResultsInv => OneDecision
  BY DEF ResultsInv, Decided, OneDecision, Rows
<1> QED BY <1>1, AlwaysLived, PTL

\* Why a document waits: the last request that marked it has neither been given
\* up nor written the document since, so no job of it is past that write.
Answerable(e) ==
    \/ api[e].pc \in {"marked", "failed"}
    \/ e \in deadLettered
    \/ /\ api[e].pc = "sent" /\ status[e] \notin EventTerminal
       /\ \A j \in Jobs : RowOf(j) = e => job[j].pc # "final"

Mark(kind) == IF kind = "cancel" THEN "cancel_pending" ELSE "close_pending"

\* Only an ending event is in the middle of its marks.
OnlyEndingsMark == \A e \in Events : api[e].pc = "created" => api[e].kind \in {"cancel", "close"}

PendingInv ==
    \A d \in Docs, kind \in {"cancel", "close"} : status[d] = Mark(kind) =>
        \E e \in Events : DocOf[e] = d /\ api[e].kind = kind /\ Answerable(e)

\* Only a request marks a document.
LEMMA MarksOnlyByRequests ==
    ASSUME TypeOK, OnlyEndingsMark, [Next]_vars, NEW d \in Docs, NEW kind \in {"cancel", "close"},
           status'[d] = Mark(kind)
    PROVE  \/ status[d] = Mark(kind) /\ ~(\E j \in Jobs : WriteDoc(j) /\ DocOf[RowOf(j)] = d)
           \/ \E e \in Events : DocOf[e] = d /\ ApiMark(e)
                                /\ api'[e].pc = "marked" /\ api'[e].kind = kind
<1> DEFINE Goal == \/ status[d] = Mark(kind) /\ ~(\E j \in Jobs : WriteDoc(j) /\ DocOf[RowOf(j)] = d)
                   \/ \E e \in Events : DocOf[e] = d /\ ApiMark(e)
                                        /\ api'[e].pc = "marked" /\ api'[e].kind = kind
<1>1. d \in Rows /\ status'[d] \in {"cancel_pending", "close_pending"}
  BY DEF Rows, Mark
<1>2. ASSUME NEW j \in Jobs, WriteDoc(j), DocOf[RowOf(j)] = d PROVE FALSE
  <2>1. status'[d] = EventDocStatus(RowOf(j), job[j].ans)
    BY <1>1, <1>2 DEF WriteDoc, TypeOK
  <2> QED BY <1>1, <2>1 DEF EventDocStatus
<1>3. ASSUME NEW j \in Jobs, WriteDoc(j), DocOf[RowOf(j)] # d PROVE status'[d] = status[d]
  BY <1>1, <1>3 DEF WriteDoc, TypeOK
<1>4. ASSUME NEW j \in Jobs, Claim(j) \/ Finalize(j) \/ MarkRetryable(j) \/ DlqWrite(j)
      PROVE  status'[d] = status[d]
  <2>1. CASE RowOf(j) # d
    BY <1>1, <1>4, <2>1 DEF Claim, Finalize, MarkRetryable, DlqWrite, TypeOK
  <2>2. CASE RowOf(j) = d
    <3>1. \A ans : FinalStatus(d, ans) \notin {"cancel_pending", "close_pending"}
      BY DEF FinalStatus
    <3>2. DlqStatus(d) \notin {"cancel_pending", "close_pending"}
      BY DEF DlqStatus
    <3>3. status'[d] \in {"processing", "retryable_failed", FinalStatus(d, job[j].ans), DlqStatus(d)}
      BY <1>1, <1>4, <2>2 DEF Claim, Finalize, MarkRetryable, DlqWrite, TypeOK
    <3> QED BY <1>1, <3>1, <3>2, <3>3
  <2> QED BY <2>1, <2>2
<1>5. ASSUME NEW e \in Events, ApiCreateEvent(e) PROVE status'[d] = status[d]
  <2>1. e # d
    BY RowsAssumption
  <2> QED BY <1>1, <1>5, <2>1 DEF ApiCreateEvent, TypeOK
<1>6. ASSUME NEW e \in Events, ApiMark(e) PROVE Goal
  <2>1. api'[e].pc = "marked" /\ api'[e].kind = api[e].kind
    BY <1>6 DEF ApiMark, ApiGoto, TypeOK
  <2>2. ~(\E j \in Jobs : WriteDoc(j) /\ DocOf[RowOf(j)] = d)
    BY <1>2
  <2>3. CASE DocOf[e] = d
    <3>1. status'[d] = IF api[e].kind = "cancel" THEN "cancel_pending" ELSE "close_pending"
      BY <1>1, <1>6, <2>3 DEF ApiMark, TypeOK
    <3>2. api[e].kind \in {"cancel", "close"}
      BY <1>6 DEF ApiMark, OnlyEndingsMark
    <3>3. api[e].kind = kind
      BY <3>1, <3>2 DEF Mark
    <3> QED BY <1>6, <2>1, <2>3, <3>3
  <2>4. CASE DocOf[e] # d
    <3>1. status'[d] = status[d]
      BY <1>1, <1>6, <2>4 DEF ApiMark, TypeOK
    <3> QED BY <2>2, <3>1
  <2> QED BY <2>3, <2>4
<1>7. CASE ~WritesRow
  BY <1>7, RowsStay DEF WritesRow
<1> QED BY <1>2, <1>3, <1>4, <1>5, <1>6, <1>7 DEF WritesRow

\* A request at its end stays there, or is sent by publishing its command.
LEMMA EndedRequests ==
    ASSUME TypeOK, [Next]_vars, NEW e \in Events
    PROVE  /\ api[e].pc = "failed" => api'[e].pc = "failed"
           /\ api[e].pc = "marked" =>
                 api'[e].pc \in {"marked", "failed"} \/ (ApiPublish(e) /\ api'[e].pc = "sent")
           /\ api'[e].pc = "created" =>
                 api[e].pc = "created" \/ api[e].kind \in {"cancel", "close"}
<1> DEFINE Ends ==
        /\ api[e].pc = "failed" => api'[e].pc = "failed"
        /\ api[e].pc = "marked" =>
              api'[e].pc \in {"marked", "failed"} \/ (ApiPublish(e) /\ api'[e].pc = "sent")
        /\ api'[e].pc = "created" => api[e].pc = "created" \/ api[e].kind \in {"cancel", "close"}
<1>1. CASE api' = api
  BY <1>1
<1>2. ASSUME NEW f \in Events, NEW place, ApiGoto(f, place)
      PROVE  /\ f # e => api'[e] = api[e]
             /\ f = e => api'[e].pc = place
  BY <1>2 DEF ApiGoto, TypeOK
<1>3. ASSUME NEW f \in Events, ApiRead(f) \/ ApiMark(f) \/ ApiPublish(f) \/ ApiFails(f) PROVE Ends
  <2>1. CASE ApiRead(f)
    BY <1>2, <2>1 DEF ApiRead
  <2>2. CASE ApiMark(f)
    BY <1>2, <2>2 DEF ApiMark
  <2>3. CASE ApiPublish(f)
    BY <1>2, <2>3 DEF ApiPublish
  <2>4. CASE ApiFails(f)
    BY <1>2, <2>4 DEF ApiFails
  <2> QED BY <1>3, <2>1, <2>2, <2>3, <2>4
<1>4. ASSUME NEW f \in Events, ApiCreateEvent(f) PROVE Ends
  <2>1. CASE IsEnding(f)
    BY <1>2, <1>4, <2>1 DEF ApiCreateEvent, IsEnding
  <2>2. CASE ~IsEnding(f)
    BY <1>2, <1>4, <2>2 DEF ApiCreateEvent
  <2> QED BY <2>1, <2>2
<1>5. ASSUME NEW j \in Jobs, WorkerStep(j) \/ DlqStep(j) PROVE api' = api
  <2>1. CASE Claim(j) \/ ClaimRefused(j) \/ ReadBack(j) \/ AgeOut(j) \/ Invoke(j) \/ HandleAnswer(j)
    BY <2>1 DEF Claim, ClaimRefused, ReadBack, AgeOut, Invoke, HandleAnswer
  <2>2. CASE Consult(j) \/ WriteDoc(j) \/ Finalize(j) \/ LostOwnership(j) \/ StepFails(j)
    BY <2>2 DEF Consult, WriteDoc, Finalize, LostOwnership, StepFails
  <2>3. CASE MarkRetryable(j) \/ Publish(j) \/ Crash(j)
    BY <2>3 DEF MarkRetryable, Publish, Crash
  <2>4. CASE DlqStep(j)
    BY <2>4 DEF DlqStep, DlqWrite, DlqPublish, DlqFails
  <2> QED BY <1>5, <2>1, <2>2, <2>3, <2>4 DEF WorkerStep
<1>6. ASSUME NEW d \in Docs, PublishOutbox(d) \/ AckOutbox(d) PROVE api' = api
  BY <1>6 DEF PublishOutbox, AckOutbox
<1>7. ASSUME NEW r \in Rows, Redeliver(r) \/ LeaseExpires(r) PROVE api' = api
  BY <1>7 DEF Redeliver, LeaseExpires
<1>8. ASSUME NEW c \in Attempts, SefazStep(c) PROVE api' = api
  BY <1>8 DEF SefazStep, SefazDecides, EngineFails
<1>9. ASSUME NEW d \in Docs, NEW s \in {"authorized", "rejected", "failed"}, Settle(d, s)
      PROVE  api' = api
  BY <1>9 DEF Settle
<1>10. CASE UNCHANGED vars
  BY <1>1, <1>10 DEF vars
<1> HIDE DEF Ends
<1>11. Ends
  <2>1. CASE api' = api
    BY <1>1, <2>1 DEF Ends
  <2> QED BY <1>3, <1>4, <1>5, <1>6, <1>7, <1>8, <1>9, <1>10, <2>1 DEF Next, ApiStep, Ends
<1> QED BY <1>11 DEF Ends

\* The last request stays the reason while the mark it made stays.
LEMMA AnswerableStays ==
    ASSUME TypeOK, JobsSound, AnswersAreReal, OwnerInv, StrandedInv, [Next]_vars,
           NEW e \in Events, api[e].kind \in {"cancel", "close"}, Answerable(e),
           ~(\E j \in Jobs : WriteDoc(j) /\ DocOf[RowOf(j)] = DocOf[e])
    PROVE  Answerable(e)'
<1>1. e \in Rows /\ Quiet(e)' /\ api'[e].kind = api[e].kind
  BY GrewStep DEF Rows, Quiet, Grew
<1>2. CASE api[e].pc = "failed" \/ e \in deadLettered
  BY <1>2, EndedRequests, ProcessorRemembers DEF Answerable
<1>3. CASE api[e].pc = "marked"
  <2>1. CASE api'[e].pc \in {"marked", "failed"}
    BY <2>1 DEF Answerable
  <2>2. CASE ApiPublish(e) /\ api'[e].pc = "sent"
    <3>1. delivered[e] = 0 /\ status'[e] \in {"absent", "pending"}
      BY <1>1, <1>3, <2>2 DEF OwnerInv, StrandedInv, ApiPublish
    <3>2. ASSUME NEW j \in Jobs, RowOf(j) = e PROVE job'[j].pc # "final"
      <4>1. job[j].pc = "none"
        BY <3>1, <3>2, StartedIsDelivered
      <4>2. ~WriteDoc(j) /\ ~HandleAnswer(j)
        BY <4>1 DEF WriteDoc, HandleAnswer
      <4> QED BY <4>1, <4>2, JobsMove
    <3>3. status'[e] \notin EventTerminal
      BY <3>1 DEF EventTerminal
    <3> QED BY <2>2, <3>2, <3>3 DEF Answerable
  <2> QED BY <1>3, <2>1, <2>2, EndedRequests
<1>4. CASE /\ api[e].pc = "sent" /\ status[e] \notin EventTerminal
           /\ \A j \in Jobs : RowOf(j) = e => job[j].pc # "final"
  <2>1. api'[e].pc = "sent"
    BY <1>4, RequestsMove
  <2>2. CASE e \in deadLettered'
    BY <2>2 DEF Answerable
  <2>3. CASE e \notin deadLettered'
    <3>1. ASSUME NEW j \in Jobs, RowOf(j) = e PROVE job'[j].pc # "final"
      <4>1. ~WriteDoc(j)
        BY <3>1
      <4>2. HandleAnswer(j) => job'[j].pc # "final"
        <5>1. HandleAnswer(j) => \E place \in {"releasing", "consulting", "docwrite"} : Goto(j, place)
          BY <3>1 DEF HandleAnswer, IsEnding
        <5>2. {"releasing", "consulting", "docwrite"} \subseteq Places
          BY DEF Places, Running, Working
        <5> QED BY <5>1, <5>2, JobGoes
      <4> QED BY <1>4, <3>1, <4>1, <4>2, JobsMove
    <3>2. status'[e] \notin EventTerminal
      <4>1. CASE status'[e] = status[e]
        BY <1>4, <4>1
      <4>2. CASE status'[e] # status[e]
        <5>1. ~ApiCreateEvent(e)
          BY <1>4 DEF ApiCreateEvent
        <5>2. ASSUME NEW j \in Jobs, RowOf(j) = e PROVE ~Finalize(j) /\ ~DlqWrite(j)
          BY <1>4, <2>3, <5>2 DEF Finalize, DlqWrite
        <5>3. PICK j \in Jobs : RowOf(j) = e /\ (Claim(j) \/ MarkRetryable(j))
          BY <1>1, <4>2, <5>1, <5>2, StatusMoves
        <5>4. status'[e] \in {"processing", "retryable_failed"}
          BY <1>1, <5>3 DEF Claim, MarkRetryable, TypeOK
        <5> QED BY <5>4 DEF EventTerminal
      <4> QED BY <4>1, <4>2
    <3> QED BY <2>1, <3>1, <3>2 DEF Answerable
  <2> QED BY <2>2, <2>3
<1> QED BY <1>2, <1>3, <1>4 DEF Answerable

LEMMA PendingKept ==
    ASSUME TypeOK, JobsSound, AnswersAreReal, OwnerInv, StrandedInv, OnlyEndingsMark, PendingInv,
           [Next]_vars
    PROVE  OnlyEndingsMark' /\ PendingInv'
<1>1. \A e \in Events : api'[e].kind = api[e].kind
  BY GrewStep DEF Grew
<1>2. OnlyEndingsMark'
  BY <1>1, EndedRequests DEF OnlyEndingsMark
<1>3. ASSUME NEW d \in Docs, NEW kind \in {"cancel", "close"}, status'[d] = Mark(kind)
      PROVE  \E e \in Events : DocOf[e] = d /\ api'[e].kind = kind /\ Answerable(e)'
  <2>1. ASSUME NEW e \in Events, DocOf[e] = d, api'[e].pc = "marked", api'[e].kind = kind
        PROVE  \E f \in Events : DocOf[f] = d /\ api'[f].kind = kind /\ Answerable(f)'
    BY <2>1 DEF Answerable
  <2>2. CASE status[d] = Mark(kind) /\ ~(\E j \in Jobs : WriteDoc(j) /\ DocOf[RowOf(j)] = d)
    <3>1. PICK e \in Events : DocOf[e] = d /\ api[e].kind = kind /\ Answerable(e)
      BY <2>2 DEF PendingInv
    <3>2. Answerable(e)'
      BY <2>2, <3>1, AnswerableStays
    <3> QED BY <1>1, <3>1, <3>2
  <2> QED BY <1>3, <2>1, <2>2, MarksOnlyByRequests
<1>4. PendingInv'
  BY <1>3 DEF PendingInv, Mark
<1> QED BY <1>2, <1>4

\* A worker ends no event and leaves its document waiting: a document says
\* pending_cancellation or pending_close only while a request for that event has
\* its command to publish or a job under way, or was given up outside the
\* worker, by the API or by the DLQ processor.
THEOREM PendingHasRequestHolds == Spec => []PendingHasRequest
<1>1. Init => OnlyEndingsMark /\ PendingInv
  <2> SUFFICES ASSUME Init PROVE OnlyEndingsMark /\ PendingInv
    OBVIOUS
  <2>1. \A d \in Docs : d \in Rows /\ status[d] = "pending"
    BY DEF Init, Rows
  <2>2. \A e \in Events : api[e].pc = "idle"
    BY DEF Init
  <2>3. \A kind : Mark(kind) # "pending"
    BY DEF Mark
  <2> QED BY <2>1, <2>2, <2>3 DEF OnlyEndingsMark, PendingInv
<1>2. TypeOK /\ JobsSound /\ AnswersAreReal /\ OwnerInv /\ StrandedInv /\ OnlyEndingsMark /\ PendingInv
      /\ [Next]_vars => OnlyEndingsMark' /\ PendingInv'
  BY PendingKept
<1>3. StrandedInv /\ PendingInv => PendingHasRequest
  <2> SUFFICES ASSUME StrandedInv, PendingInv, NEW d \in Docs, NEW kind \in {"cancel", "close"},
                      status[d] = Mark(kind)
               PROVE  \E e \in Events :
                         /\ DocOf[e] = d /\ api[e].kind = kind
                         /\ api[e].pc \in {"marked", "failed"} \/ UnderWay(e) \/ e \in deadLettered
    BY DEF PendingHasRequest, Mark
  <2>1. PICK e \in Events : DocOf[e] = d /\ api[e].kind = kind /\ Answerable(e)
    BY DEF PendingInv
  <2>2. ASSUME api[e].pc = "sent", status[e] \notin EventTerminal PROVE UnderWay(e)
    <3>1. e \in Rows /\ e \notin Docs /\ Quiet(e) /\ delivered[e] > 0
      BY <2>2, RowsAssumption DEF Rows, Quiet, StrandedInv
    <3>2. status[e] \notin Terminal(e)
      BY <2>2, <3>1 DEF Terminal
    <3> QED BY <3>1, <3>2 DEF StrandedInv, NothingStranded
  <2> QED BY <2>1, <2>2 DEF Answerable
<1> QED BY <1>1, <1>2, <1>3, AlwaysOwned, NeverStranded, PTL DEF Spec

=============================================================================
