-------------------------- MODULE DfeWorkerProofs --------------------------
(***************************************************************************)
(* Theorems about DfeWorker, for every number of documents, events,        *)
(* deliveries and tries, clocks skewed or not.                             *)
(***************************************************************************)
EXTENDS DfeWorker, TLAPS

USE DEF rowVars, billingVars, history

-----------------------------------------------------------------------------
(* Types *)

JobType == [pc : Places, attempt : 0..MaxAttempts, ans : Answers, pub : Statuses]

\* What keeps attempts within their bound: only a job with a try left is
\* queued, an attempt at work has been counted, and a job that was not
\* delivered has not run.
JobsSound ==
    \A j \in Jobs :
        /\ job[j].pc = "queued" => job[j].attempt < MaxAttempts
        /\ job[j].pc \in Running => job[j].attempt > 0
        /\ j[2] > delivered[RowOf(j)] => job[j].pc = "none" /\ job[j].attempt = 0

\* A job names a row and a delivery.
LEMMA JobShape ==
    ASSUME NEW j \in Jobs
    PROVE  RowOf(j) \in Rows /\ j[2] \in Nat /\ j[2] > 0
BY BoundsAssumption DEF Jobs, RowOf

\* One job moves, and no delivery starts.
LEMMA JobMoves ==
    ASSUME TypeOK, JobsSound, NEW j \in Jobs, job[j].pc # "none",
           NEW rec \in JobType, job' = [job EXCEPT ![j] = rec], delivered' = delivered,
           rec.pc = "queued" => rec.attempt < MaxAttempts,
           rec.pc \in Running => rec.attempt > 0
    PROVE  job' \in [Jobs -> JobType] /\ JobsSound'
<1>1. job \in [Jobs -> JobType]
  BY DEF TypeOK, JobType
<1>2. job' \in [Jobs -> JobType]
  BY <1>1
<1>3. ASSUME NEW k \in Jobs
      PROVE  /\ job'[k].pc = "queued" => job'[k].attempt < MaxAttempts
             /\ job'[k].pc \in Running => job'[k].attempt > 0
             /\ k[2] > delivered'[RowOf(k)] => job'[k].pc = "none" /\ job'[k].attempt = 0
  <2>1. CASE k = j
    BY <2>1, <1>1 DEF JobsSound
  <2>2. CASE k # j
    BY <2>2, <1>1 DEF JobsSound
  <2> QED
    BY <2>1, <2>2
<1> QED
  BY <1>2, <1>3 DEF JobsSound

\* Job j goes to place, and no other job moves; an attempt still running
\* keeps what it learnt.
LEMMA JobGoes ==
    ASSUME TypeOK, NEW j \in Jobs, NEW place \in Places, Goto(j, place)
    PROVE  /\ job'[j].pc = place /\ job'[j].attempt = job[j].attempt
           /\ place \in Running => job'[j].ans = job[j].ans /\ job'[j].pub = job[j].pub
           /\ place \notin Running => job'[j].ans = "none" /\ job'[j].pub = "absent"
           /\ job'[j] \in JobType /\ job' = [job EXCEPT ![j] = job'[j]]
           /\ \A k \in Jobs : k # j => job'[k] = job[k]
<1> DEFINE ans == IF place \in Running THEN job[j].ans ELSE "none"
           pub == IF place \in Running THEN job[j].pub ELSE "absent"
           rec == [job[j] EXCEPT !.pc = place, !.ans = ans, !.pub = pub]
<1>1. job \in [Jobs -> JobType] /\ job[j] \in JobType
  BY DEF TypeOK, JobType
<1>2. "none" \in Answers /\ "absent" \in Statuses
  BY DEF Answers, Statuses
<1>3. ans \in Answers /\ pub \in Statuses
  BY <1>1, <1>2 DEF JobType
<1>4. job' = [job EXCEPT ![j] = rec]
  BY DEF Goto
<1> HIDE DEF ans, pub
<1>5. /\ rec \in JobType /\ rec.pc = place /\ rec.attempt = job[j].attempt
      /\ rec.ans = ans /\ rec.pub = pub
  BY <1>1, <1>3 DEF JobType
<1> HIDE DEF rec
<1>6. job'[j] = rec /\ \A k \in Jobs : k # j => job'[k] = job[k]
  BY <1>1, <1>4
<1> QED
  BY <1>4, <1>5, <1>6 DEF ans, pub

\* The same when only the place of the attempt changes.
LEMMA GotoMoves ==
    ASSUME TypeOK, JobsSound, NEW j \in Jobs, job[j].pc # "none",
           NEW place \in Places, Goto(j, place), delivered' = delivered,
           place = "queued" => job[j].attempt < MaxAttempts,
           place \in Running => job[j].attempt > 0
    PROVE  job' \in [Jobs -> JobType] /\ JobsSound'
<1>1. /\ job'[j] \in JobType /\ job'[j].pc = place /\ job'[j].attempt = job[j].attempt
      /\ job' = [job EXCEPT ![j] = job'[j]]
  BY JobGoes
<1> DEFINE rec == job'[j]
<1>2. rec \in JobType /\ rec.pc = place /\ rec.attempt = job[j].attempt
  BY <1>1
<1>3. job' = [job EXCEPT ![j] = rec]
  BY <1>1
<1> HIDE DEF rec
<1> QED
  BY <1>2, <1>3, JobMoves

\* A failed attempt is queued again only while a try is left.
LEMMA AfterFailureSound ==
    ASSUME NEW j \in Jobs
    PROVE  /\ AfterFailure(j) \in {"queued", "dlq"}
           /\ AfterFailure(j) = "queued" => job[j].attempt < MaxAttempts
BY DEF AfterFailure

\* A delivery starts the row's next job.
LEMMA DeliverSound ==
    ASSUME TypeOK, JobsSound, NEW r \in Rows, Deliver(r)
    PROVE  /\ job' \in [Jobs -> JobType] /\ JobsSound'
           /\ delivered' \in [Rows -> Nat]
           /\ \A q \in Rows : delivered'[q] <= DeliveryBound(q) /\ delivered'[q] >= delivered[q]
<1> DEFINE new == <<r, delivered[r] + 1>>
           rec == [job[new] EXCEPT !.pc = "queued"]
<1>1. delivered \in [Rows -> Nat] /\ job \in [Jobs -> JobType]
  BY DEF TypeOK, JobType
<1>2. \A q \in Rows : DeliveryBound(q) \in Nat /\ DeliveryBound(q) <= DocDeliveries + EventDeliveries
  BY BoundsAssumption DEF DeliveryBound
<1>3. delivered[r] \in Nat /\ delivered[r] < DeliveryBound(r)
  BY <1>1 DEF Deliver
<1>4. delivered' = [delivered EXCEPT ![r] = delivered[r] + 1]
  BY DEF Deliver
<1>5. delivered' \in [Rows -> Nat]
  BY <1>1, <1>3, <1>4
<1>6. \A q \in Rows : delivered'[q] <= DeliveryBound(q) /\ delivered'[q] >= delivered[q]
  BY <1>1, <1>2, <1>3, <1>4 DEF TypeOK
<1>7. new \in Jobs /\ RowOf(new) = r /\ new[2] = delivered[r] + 1
  BY <1>2, <1>3, BoundsAssumption DEF Jobs, RowOf
<1>8. job[new] \in JobType /\ job[new].pc = "none" /\ job[new].attempt = 0
  BY <1>1, <1>3, <1>7 DEF JobsSound
<1>9. rec \in JobType /\ rec.pc = "queued" /\ rec.attempt = 0
  BY <1>8 DEF JobType, Places
<1>10. job' = [job EXCEPT ![new] = rec]
  BY DEF Deliver
<1> HIDE DEF new, rec
<1>11. job' \in [Jobs -> JobType]
  BY <1>1, <1>7, <1>9, <1>10
<1>12. ASSUME NEW k \in Jobs
       PROVE  /\ job'[k].pc = "queued" => job'[k].attempt < MaxAttempts
              /\ job'[k].pc \in Running => job'[k].attempt > 0
              /\ k[2] > delivered'[RowOf(k)] => job'[k].pc = "none" /\ job'[k].attempt = 0
  <2>1. CASE k = new
    <3>1. job'[k] = rec
      BY <2>1, <1>1, <1>7, <1>10
    <3>2. ~ ("queued" \in Running) /\ 0 < MaxAttempts
      BY BoundsAssumption DEF Running, Working
    <3>3. k[2] = delivered'[RowOf(k)]
      BY <2>1, <1>1, <1>4, <1>7
    <3>4. delivered'[RowOf(k)] \in Nat
      BY <1>5, JobShape
    <3>5. ~(k[2] > delivered'[RowOf(k)])
      BY <3>3, <3>4
    <3> QED
      BY <3>1, <3>2, <3>5, <1>9
  <2>2. CASE k # new
    <3>1. job'[k] = job[k]
      BY <2>2, <1>1, <1>7, <1>10
    <3>2. RowOf(k) \in Rows /\ k[2] \in Nat
      BY JobShape
    <3>3. k[2] > delivered'[RowOf(k)] => k[2] > delivered[RowOf(k)]
      BY <3>2, <1>1, <1>5, <1>6
    <3> QED
      BY <3>1, <3>3 DEF JobsSound
  <2> QED
    BY <2>1, <2>2
<1> QED
  BY <1>5, <1>6, <1>11, <1>12 DEF JobsSound

\* An attempt starts: the next one of a queued job.
LEMMA StartSound ==
    ASSUME TypeOK, JobsSound, NEW j \in Jobs, job[j].pc = "queued",
           NEW place \in Running, StartAttempt(j, place), delivered' = delivered
    PROVE  job' \in [Jobs -> JobType] /\ JobsSound' /\ job[j].attempt + 1 \in 1..MaxAttempts
<1> DEFINE next == job[j].attempt + 1
           rec == [job[j] EXCEPT !.pc = place, !.attempt = next, !.ans = "none"]
<1>0. job \in [Jobs -> JobType]
  BY DEF TypeOK, JobType
<1>1. job[j] \in JobType /\ job[j].attempt < MaxAttempts /\ MaxAttempts \in Nat
  BY BoundsAssumption DEF TypeOK, JobType, JobsSound
<1>2. next \in 1..MaxAttempts /\ next \in 0..MaxAttempts /\ next > 0
  BY <1>1 DEF JobType
<1>3. job' = [job EXCEPT ![j] = rec]
  BY <1>0 DEF StartAttempt
<1> HIDE DEF next
<1>4. place \in Places /\ place # "queued" /\ "none" \in Answers
  BY DEF Places, Running, Working, Answers
<1>5. rec \in JobType /\ rec.pc = place /\ rec.attempt = next
  BY <1>1, <1>2, <1>4 DEF JobType
<1> HIDE DEF rec
<1>6. job' \in [Jobs -> JobType] /\ JobsSound'
  BY <1>2, <1>3, <1>4, <1>5, JobMoves
<1> QED
  BY <1>2, <1>6 DEF next

\* A call that ends answers at most the attempt that waits for it.
LEMMA AnsweredSound ==
    ASSUME TypeOK, JobsSound, NEW c \in Attempts, NEW ans \in Answers, Answered(c, ans),
           delivered' = delivered
    PROVE  job' \in [Jobs -> JobType] /\ JobsSound' /\ calls' \subseteq Attempts
<1>1. c[1] \in Jobs /\ calls' \subseteq Attempts
  BY DEF TypeOK, Attempts, Answered
<1>2. CASE IsWaiting(c)
  <2> DEFINE rec == [job[c[1]] EXCEPT !.pc = "answered", !.ans = ans]
  <2>1. job[c[1]] \in JobType /\ job[c[1]].pc = "waiting" /\ job[c[1]].attempt > 0
    BY <1>1, <1>2 DEF TypeOK, JobType, IsWaiting, JobsSound, Running, Working
  <2>2. rec \in JobType /\ rec.pc = "answered" /\ rec.attempt = job[c[1]].attempt
    BY <2>1 DEF JobType, Places, Running, Working
  <2>3. job' = [job EXCEPT ![c[1]] = rec]
    BY <1>2 DEF Answered
  <2> HIDE DEF rec
  <2> QED
    BY <1>1, <2>1, <2>2, <2>3, JobMoves
<1>3. CASE ~IsWaiting(c)
  BY <1>1, <1>3 DEF Answered, TypeOK, JobType, JobsSound
<1> QED
  BY <1>1, <1>2, <1>3

\* The types and the attempts' bookkeeping are one inductive invariant.
LEMMA TypesAndJobs == Spec => [](TypeOK /\ JobsSound)
<1>1. Init => TypeOK /\ JobsSound
  <2> SUFFICES ASSUME Init PROVE TypeOK /\ JobsSound
    OBVIOUS
  <2>1. job \in [Jobs -> JobType]
    BY BoundsAssumption DEF Init, JobType, Places, Answers, Statuses
  <2>2. \A r \in Rows : 0 <= DeliveryBound(r)
    BY BoundsAssumption DEF DeliveryBound
  <2>3. JobsSound
    BY BoundsAssumption DEF Init, JobsSound, Running, Working
  <2> QED
    BY <2>1, <2>2, <2>3 DEF Init, TypeOK, JobType, Statuses, Open
<1>2. TypeOK /\ JobsSound /\ [Next]_vars => TypeOK' /\ JobsSound'
  <2> SUFFICES ASSUME TypeOK, JobsSound, [Next]_vars
               PROVE  TypeOK' /\ JobsSound'
    OBVIOUS
  <2>1. ASSUME NEW j \in Jobs, Claim(j)
       PROVE  TypeOK' /\ JobsSound'
    <3>1. StartAttempt(j, "claimed") /\ job[j].pc = "queued" /\ delivered' = delivered
      BY <2>1 DEF Claim
    <3>2. job' \in [Jobs -> JobType] /\ JobsSound' /\ job[j].attempt + 1 \in 1..MaxAttempts
      BY <3>1, StartSound DEF Running, Working
    <3>3. <<j, job[j].attempt + 1>> \in Attempts /\ RowOf(j) \in Rows
      BY <3>2, JobShape DEF Attempts
    <3>4. owner' \in [Rows -> Attempts \union {NoOwner}] /\ status' \in [Rows -> Statuses]
      BY <2>1, <3>3 DEF Claim, TypeOK, Statuses
    <3> QED
      BY <2>1, <3>2, <3>3, <3>4 DEF Claim, TypeOK, JobType
  <2>2. ASSUME NEW j \in Jobs, ClaimRefused(j)
       PROVE  TypeOK' /\ JobsSound'
    <3>1. job' \in [Jobs -> JobType] /\ JobsSound'
      BY <2>2, StartSound DEF ClaimRefused, Running
    <3> QED
      BY <2>2, <3>1 DEF ClaimRefused, TypeOK, JobType
  <2>3. ASSUME NEW j \in Jobs, ReadBack(j)
       PROVE  TypeOK' /\ JobsSound'
    <3>1. job[j] \in JobType /\ job[j].pc = "readback" /\ job[j].attempt > 0
      BY <2>3 DEF ReadBack, TypeOK, JobType, JobsSound, Running
    <3>2. status[RowOf(j)] \in Statuses
      BY JobShape DEF TypeOK
    <3>3. PICK rec \in JobType :
             /\ job' = [job EXCEPT ![j] = rec] /\ rec.attempt = job[j].attempt
             /\ rec.pc = "queued" => rec.attempt < MaxAttempts
      <4>1. CASE status[RowOf(j)] \in Terminal(RowOf(j))
        <5> DEFINE rec == [job[j] EXCEPT !.pc = "publish", !.pub = status[RowOf(j)]]
        <5>1. rec \in JobType /\ rec.pc = "publish" /\ rec.attempt = job[j].attempt
          BY <3>1, <3>2 DEF JobType, Places, Running
        <5>2. job' = [job EXCEPT ![j] = rec]
          BY <2>3, <4>1 DEF ReadBack
        <5> QED
          BY <5>1, <5>2
      <4>2. CASE status[RowOf(j)] \notin Terminal(RowOf(j))
        <5> DEFINE rec == [job[j] EXCEPT !.pc = AfterFailure(j)]
        <5>1. rec \in JobType /\ rec.pc = AfterFailure(j) /\ rec.attempt = job[j].attempt
          BY <3>1, AfterFailureSound DEF JobType, Places
        <5>2. job' = [job EXCEPT ![j] = rec]
          BY <2>3, <4>2 DEF ReadBack
        <5> QED
          BY <5>1, <5>2, AfterFailureSound
      <4> QED
        BY <4>1, <4>2
    <3>4. job' \in [Jobs -> JobType] /\ JobsSound'
      BY <2>3, <3>1, <3>3, JobMoves DEF ReadBack
    <3> QED
      BY <2>3, <3>4 DEF ReadBack, TypeOK, JobType
  <2>4. ASSUME NEW j \in Jobs, AgeOut(j)
       PROVE  TypeOK' /\ JobsSound'
    <3>1. job[j].pc \in {"queued"} /\ delivered' = delivered
      BY <2>4 DEF AgeOut
    <3>2. PICK place \in Places : Goto(j, place) /\ place # "queued" /\ (place \in Running => job[j].pc \in Running)
      BY <2>4, <3>1 DEF AgeOut, Places, Running, Working
    <3>3. job' \in [Jobs -> JobType] /\ JobsSound'
      BY <3>1, <3>2, GotoMoves DEF JobsSound, Running, Working
    <3> QED
      BY <2>4, <3>3 DEF AgeOut, TypeOK, JobType
  <2>5. ASSUME NEW j \in Jobs, Invoke(j)
       PROVE  TypeOK' /\ JobsSound'
    <3>1. job[j].pc \in {"claimed"} /\ delivered' = delivered
      BY <2>5 DEF Invoke
    <3>2. PICK place \in Places : Goto(j, place) /\ place # "queued" /\ (place \in Running => job[j].pc \in Running)
      BY <2>5, <3>1 DEF Invoke, Places, Running, Working
    <3>3. job' \in [Jobs -> JobType] /\ JobsSound'
      BY <3>1, <3>2, GotoMoves DEF JobsSound, Running, Working
    <3>4. Me(j) \in Attempts
      BY <3>1, BoundsAssumption DEF Me, Attempts, TypeOK, JobsSound, Running, Working
    <3> QED
      BY <2>5, <3>3, <3>4 DEF Invoke, TypeOK, JobType
  <2>6. ASSUME NEW j \in Jobs, HandleAnswer(j)
       PROVE  TypeOK' /\ JobsSound'
    <3>1. job[j].pc \in {"answered"} /\ delivered' = delivered
      BY <2>6 DEF HandleAnswer
    <3>2. PICK place \in Places : Goto(j, place) /\ place # "queued" /\ (place \in Running => job[j].pc \in Running)
      BY <2>6, <3>1 DEF HandleAnswer, Places, Running, Working
    <3>3. job' \in [Jobs -> JobType] /\ JobsSound'
      BY <3>1, <3>2, GotoMoves DEF JobsSound, Running, Working
    <3>4. xml' \subseteq Rows
      BY <2>6, JobShape DEF HandleAnswer, TypeOK
    <3> QED
      BY <2>6, <3>3, <3>4 DEF HandleAnswer, TypeOK, JobType
  <2>7. ASSUME NEW j \in Jobs, Consult(j)
       PROVE  TypeOK' /\ JobsSound'
    <3>1. job[j] \in JobType /\ job[j].pc = "consulting" /\ job[j].attempt > 0
      BY <2>7 DEF Consult, TypeOK, JobType, JobsSound, Running, Working
    <3>2. PICK ans \in Answers : job' = [job EXCEPT ![j] = [@ EXCEPT !.pc = "answered",
                                                                     !.ans = ans]]
      BY <2>7 DEF Consult, ConsultaSays, Answers
    <3> DEFINE rec == [job[j] EXCEPT !.pc = "answered", !.ans = ans]
    <3>3. rec \in JobType /\ rec.pc = "answered" /\ rec.attempt = job[j].attempt
      BY <3>1 DEF JobType, Places, Running, Working
    <3>4. job' = [job EXCEPT ![j] = rec]
      BY <3>2
    <3> HIDE DEF rec
    <3>5. job' \in [Jobs -> JobType] /\ JobsSound'
      BY <2>7, <3>1, <3>3, <3>4, JobMoves DEF Consult
    <3> QED
      BY <2>7, <3>5 DEF Consult, TypeOK, JobType
  <2>8. ASSUME NEW j \in Jobs, WriteDoc(j)
       PROVE  TypeOK' /\ JobsSound'
    <3>1. job[j].pc \in {"docwrite"} /\ delivered' = delivered
      BY <2>8 DEF WriteDoc
    <3>2. PICK place \in Places : Goto(j, place) /\ place # "queued" /\ (place \in Running => job[j].pc \in Running)
      BY <2>8, <3>1 DEF WriteDoc, Places, Running, Working
    <3>3. job' \in [Jobs -> JobType] /\ JobsSound'
      BY <3>1, <3>2, GotoMoves DEF JobsSound, Running, Working
    <3>4. status' \in [Rows -> Statuses]
      BY <2>8 DEF WriteDoc, TypeOK, EventDocStatus, Statuses, DocTerminal
    <3> QED
      BY <2>8, <3>3, <3>4 DEF WriteDoc, TypeOK, JobType
  <2>9. ASSUME NEW j \in Jobs, Finalize(j)
       PROVE  TypeOK' /\ JobsSound'
    <3> DEFINE s == FinalStatus(RowOf(j), job[j].ans)
               rec == [job[j] EXCEPT !.pc = "publish", !.pub = s]
    <3>1. job[j] \in JobType /\ job[j].pc = "final" /\ job[j].attempt > 0
      BY <2>9 DEF Finalize, TypeOK, JobType, JobsSound, Running, Working
    <3>2. s \in Statuses /\ RowOf(j) \in Rows
      BY JobShape DEF FinalStatus, Statuses, DocTerminal, EventTerminal
    <3>3. rec \in JobType /\ rec.pc = "publish" /\ rec.attempt = job[j].attempt
      BY <3>1, <3>2 DEF JobType, Places, Running
    <3>4. job' = [job EXCEPT ![j] = rec] /\ status' = [status EXCEPT ![RowOf(j)] = s]
      BY <2>9 DEF Finalize
    <3> HIDE DEF rec, s
    <3>5. job' \in [Jobs -> JobType] /\ JobsSound'
      BY <2>9, <3>1, <3>3, <3>4, JobMoves DEF Finalize
    <3>6. status' \in [Rows -> Statuses]
      BY <3>2, <3>4 DEF TypeOK
    <3> QED
      BY <2>9, <3>2, <3>5, <3>6 DEF Finalize, TypeOK, JobType
  <2>10. ASSUME NEW j \in Jobs, LostOwnership(j)
       PROVE  TypeOK' /\ JobsSound'
    <3>1. job[j].pc \in {"final", "releasing"} /\ delivered' = delivered
      BY <2>10 DEF LostOwnership
    <3>2. PICK place \in Places : Goto(j, place) /\ (place = "queued" => job[j].attempt < MaxAttempts) /\ place \notin Running
      BY <2>10, AfterFailureSound DEF LostOwnership, Places, Running, Working
    <3>3. job' \in [Jobs -> JobType] /\ JobsSound'
      BY <3>1, <3>2, GotoMoves DEF JobsSound, Running, Working
    <3> QED
      BY <2>10, <3>3 DEF LostOwnership, TypeOK, JobType
  <2>11. ASSUME NEW j \in Jobs, StepFails(j)
       PROVE  TypeOK' /\ JobsSound'
    <3>1. job[j].pc \in {"claimed", "consulting", "answered", "docwrite", "final"} /\ delivered' = delivered
      BY <2>11 DEF StepFails
    <3>2. PICK place \in Places : Goto(j, place) /\ place # "queued" /\ (place \in Running => job[j].pc \in Running)
      BY <2>11, <3>1 DEF StepFails, Places, Running, Working
    <3>3. job' \in [Jobs -> JobType] /\ JobsSound'
      BY <3>1, <3>2, GotoMoves DEF JobsSound, Running, Working
    <3> QED
      BY <2>11, <3>3 DEF StepFails, TypeOK, JobType
  <2>12. ASSUME NEW j \in Jobs, MarkRetryable(j)
       PROVE  TypeOK' /\ JobsSound'
    <3>1. job[j].pc \in {"releasing"} /\ delivered' = delivered
      BY <2>12 DEF MarkRetryable
    <3>2. PICK place \in Places : Goto(j, place) /\ (place = "queued" => job[j].attempt < MaxAttempts) /\ place \notin Running
      BY <2>12, AfterFailureSound DEF MarkRetryable, Places, Running, Working
    <3>3. job' \in [Jobs -> JobType] /\ JobsSound'
      BY <3>1, <3>2, GotoMoves DEF JobsSound, Running, Working
    <3>4. status' \in [Rows -> Statuses]
      BY <2>12, JobShape DEF MarkRetryable, TypeOK, Statuses, Open
    <3> QED
      BY <2>12, <3>3, <3>4 DEF MarkRetryable, TypeOK, JobType
  <2>13. ASSUME NEW j \in Jobs, Publish(j)
       PROVE  TypeOK' /\ JobsSound'
    <3>1. job[j].pc \in {"publish"} /\ delivered' = delivered
      BY <2>13 DEF Publish
    <3>2. PICK place \in Places : Goto(j, place) /\ (place = "queued" => job[j].attempt < MaxAttempts) /\ place \notin Running
      BY <2>13, AfterFailureSound DEF Publish, Places, Running, Working
    <3>3. job' \in [Jobs -> JobType] /\ JobsSound'
      BY <3>1, <3>2, GotoMoves DEF JobsSound, Running, Working
    <3>4. results' \subseteq Rows \X Statuses
      BY <2>13, JobShape DEF Publish, TypeOK
    <3> QED
      BY <2>13, <3>3, <3>4 DEF Publish, TypeOK, JobType
  <2>14. ASSUME NEW j \in Jobs, Crash(j)
       PROVE  TypeOK' /\ JobsSound'
    <3>1. job[j].pc \in Running /\ delivered' = delivered
      BY <2>14 DEF Crash
    <3>2. PICK place \in Places : Goto(j, place) /\ (place = "queued" => job[j].attempt < MaxAttempts) /\ place \notin Running
      BY <2>14, AfterFailureSound DEF Crash, Places, Running, Working
    <3>3. job' \in [Jobs -> JobType] /\ JobsSound'
      BY <3>1, <3>2, GotoMoves DEF JobsSound, Running, Working
    <3> QED
      BY <2>14, <3>3 DEF Crash, TypeOK, JobType
  <2>15. ASSUME NEW j \in Jobs, DlqWrite(j)
       PROVE  TypeOK' /\ JobsSound'
    <3>1. job[j].pc \in {"dlq"} /\ delivered' = delivered
      BY <2>15 DEF DlqWrite
    <3>2. PICK place \in Places : Goto(j, place) /\ place # "queued" /\ (place \in Running => job[j].pc \in Running)
      BY <2>15, <3>1 DEF DlqWrite, Places, Running, Working
    <3>3. job' \in [Jobs -> JobType] /\ JobsSound'
      BY <3>1, <3>2, GotoMoves DEF JobsSound, Running, Working
    <3>4. status' \in [Rows -> Statuses] /\ RowOf(j) \in Rows
      BY <2>15, JobShape
         DEF DlqWrite, DlqStatus, TypeOK, Statuses, DocTerminal, EventTerminal
    <3> QED
      BY <2>15, <3>3, <3>4 DEF DlqWrite, TypeOK, JobType
  <2>16. ASSUME NEW j \in Jobs, DlqPublish(j)
       PROVE  TypeOK' /\ JobsSound'
    <3>1. job[j].pc \in {"dlqpublish"} /\ delivered' = delivered
      BY <2>16 DEF DlqPublish
    <3>2. PICK place \in Places : Goto(j, place) /\ place # "queued" /\ (place \in Running => job[j].pc \in Running)
      BY <2>16, <3>1 DEF DlqPublish, Places, Running, Working
    <3>3. job' \in [Jobs -> JobType] /\ JobsSound'
      BY <3>1, <3>2, GotoMoves DEF JobsSound, Running, Working
    <3>4. results' \subseteq Rows \X Statuses
      BY <2>16, JobShape
         DEF DlqPublish, DlqStatus, TypeOK, Statuses, DocTerminal, EventTerminal
    <3> QED
      BY <2>16, <3>3, <3>4 DEF DlqPublish, TypeOK, JobType
  <2>17. ASSUME NEW j \in Jobs, DlqFails(j)
       PROVE  TypeOK' /\ JobsSound'
    <3>1. job[j].pc \in {"dlq", "dlqpublish"} /\ delivered' = delivered
      BY <2>17 DEF DlqFails
    <3>2. PICK place \in Places : Goto(j, place) /\ place # "queued" /\ (place \in Running => job[j].pc \in Running)
      BY <2>17, <3>1 DEF DlqFails, Places, Running, Working
    <3>3. job' \in [Jobs -> JobType] /\ JobsSound'
      BY <3>1, <3>2, GotoMoves DEF JobsSound, Running, Working
    <3> QED
      BY <2>17, <3>3 DEF DlqFails, TypeOK, JobType
  <2>18. ASSUME NEW d \in Docs, PublishOutbox(d)
       PROVE  TypeOK' /\ JobsSound'
    <3>1. d \in Rows /\ Deliver(d)
      BY <2>18 DEF PublishOutbox, Rows
    <3> QED
      BY <2>18, <3>1, DeliverSound DEF PublishOutbox, TypeOK, JobType
  <2>19. ASSUME NEW d \in Docs, AckOutbox(d)
       PROVE  TypeOK' /\ JobsSound'
    BY <2>19 DEF AckOutbox, TypeOK, JobsSound
  <2>20. ASSUME NEW r \in Rows, Redeliver(r)
       PROVE  TypeOK' /\ JobsSound'
    BY <2>20, DeliverSound DEF Redeliver, TypeOK, JobType
  <2>21. ASSUME NEW r \in Rows, LeaseExpires(r)
       PROVE  TypeOK' /\ JobsSound'
    BY <2>21 DEF LeaseExpires, TypeOK, JobsSound
  <2>22. ASSUME NEW c \in Attempts, SefazDecides(c)
       PROVE  TypeOK' /\ JobsSound'
    <3>1. PICK verdict \in Verdicts(RowOf(c[1])) :
             /\ accepted' = IF verdict = "ok" THEN accepted \union {RowOf(c[1])} ELSE accepted
             /\ \/ \E ans \in {verdict, "invalid", "transport"} : Answered(c, ans)
                \/ UNCHANGED <<calls, job>>
      BY <2>22 DEF SefazDecides
    <3>2. verdict \in Answers
      BY DEF Verdicts, Answers
    <3>3. RowOf(c[1]) \in Rows
      BY JobShape DEF Attempts
    <3>4. delivered' = delivered
      BY <2>22 DEF SefazDecides
    <3>5. job' \in [Jobs -> JobType] /\ JobsSound' /\ calls' \subseteq Attempts
      <4>1. CASE \E ans \in {verdict, "invalid", "transport"} : Answered(c, ans)
        <5>1. PICK ans \in Answers : Answered(c, ans)
          BY <3>2, <4>1 DEF Answers
        <5> QED
          BY <5>1, <3>4, AnsweredSound
      <4>2. CASE UNCHANGED <<calls, job>>
        BY <4>2, <3>4 DEF TypeOK, JobType, JobsSound
      <4> QED
        BY <3>1, <4>1, <4>2
    <3> QED
      BY <2>22, <3>1, <3>3, <3>5 DEF SefazDecides, TypeOK, JobType
  <2>23. ASSUME NEW c \in Attempts, EngineFails(c)
       PROVE  TypeOK' /\ JobsSound'
    <3>1. PICK ans \in Answers : Answered(c, ans)
      BY <2>23 DEF EngineFails, Answers
    <3>2. job' \in [Jobs -> JobType] /\ JobsSound' /\ calls' \subseteq Attempts
      BY <2>23, <3>1, AnsweredSound DEF EngineFails
    <3> QED
      BY <2>23, <3>2 DEF EngineFails, TypeOK, JobType
  <2>24. ASSUME NEW d \in Docs, NEW s \in {"authorized", "rejected", "failed"}, Settle(d, s)
       PROVE  TypeOK' /\ JobsSound'
    BY <2>24 DEF Settle, TypeOK, JobsSound
  <2>25. ASSUME NEW e \in Events, ApiRead(e)
       PROVE  TypeOK' /\ JobsSound'
    BY <2>25 DEF ApiRead, ApiGoto, TypeOK, JobsSound
  <2>26. ASSUME NEW e \in Events, ApiCreateEvent(e)
       PROVE  TypeOK' /\ JobsSound'
    BY <2>26 DEF ApiCreateEvent, ApiGoto, TypeOK, JobsSound, Statuses, Open, Rows
  <2>27. ASSUME NEW e \in Events, ApiMark(e)
       PROVE  TypeOK' /\ JobsSound'
    BY <2>27, EventsAssumption DEF ApiMark, ApiGoto, TypeOK, JobsSound, Statuses, Open, Rows
  <2>28. ASSUME NEW e \in Events, ApiPublish(e)
       PROVE  TypeOK' /\ JobsSound'
    <3>1. e \in Rows /\ Deliver(e)
      BY <2>28 DEF ApiPublish, Rows
    <3> QED
      BY <2>28, <3>1, DeliverSound DEF ApiPublish, ApiGoto, TypeOK, JobType
  <2>29. ASSUME NEW e \in Events, ApiFails(e)
       PROVE  TypeOK' /\ JobsSound'
    BY <2>29 DEF ApiFails, ApiGoto, TypeOK, JobsSound
  <2>30. ASSUME UNCHANGED vars
       PROVE  TypeOK' /\ JobsSound'
    BY <2>30 DEF vars, TypeOK, JobsSound
  <2> QED
    BY <2>1, <2>2, <2>3, <2>4, <2>5, <2>6, <2>7, <2>8, <2>9, <2>10, <2>11, <2>12, <2>13,
       <2>14, <2>15, <2>16, <2>17, <2>18, <2>19, <2>20, <2>21, <2>22, <2>23, <2>24, <2>25,
       <2>26, <2>27, <2>28, <2>29, <2>30
       DEF Next, WorkerStep, DlqStep, SefazStep, ApiStep
<1> QED
  BY <1>1, <1>2, PTL DEF Spec

\* Every variable keeps its type, and no job runs more often than Lambda tries it.
THEOREM TypeCorrect == Spec => []TypeOK
<1>1. TypeOK /\ JobsSound => TypeOK
  OBVIOUS
<1> QED
  BY <1>1, TypesAndJobs, PTL

-----------------------------------------------------------------------------
(* The statuses are real *)

\* What an attempt learnt is what SEFAZ holds, an attempt past a success has
\* stored its XML, only a cancel or a close writes its document, and an event's
\* job comes from a request.
AnswerReal(j) ==
    LET r == RowOf(j) IN
    /\ job[j].ans = "ok" => r \in accepted
    /\ job[j].ans = "ok" /\ job[j].pc \in {"docwrite", "final"} => r \in xml
    /\ job[j].ans = "duplicate" => r \in accepted
    /\ job[j].pc = "consulting" => job[j].ans = "duplicate"
    /\ job[j].ans = "alreadyCancelled" => r \in Events /\ Registered(DocOf[r], "cancel")
    /\ job[j].ans = "alreadyClosed" => r \in Events /\ Registered(DocOf[r], "close")
    /\ job[j].pc = "docwrite" => r \in Events /\ api[r].kind \in {"cancel", "close"}
    /\ r \in Events /\ job[j].pc # "none" => api[r].pc # "idle"

AnswersAreReal == \A j \in Jobs : AnswerReal(j)

\* A document has event requests only once it was authorized.
EventsHaveDocuments ==
    \A e \in Events :
        /\ delivered[e] > 0 => api[e].pc # "idle"
        /\ api[e].pc # "idle" => DocOf[e] \in accepted \intersect xml

\* Nothing SEFAZ, S3 or a user has done is undone.
Grew ==
    /\ accepted \subseteq accepted'
    /\ xml \subseteq xml'
    /\ \A e \in Events : /\ api'[e].kind = api[e].kind
                         /\ api[e].pc # "idle" => api'[e].pc # "idle"

LEMMA GrewStep == TypeOK /\ [Next]_vars => Grew
<1> SUFFICES ASSUME TypeOK, [Next]_vars PROVE Grew
  OBVIOUS
<1> USE DEF Grew
<1>1. ASSUME NEW j \in Jobs, Claim(j)
      PROVE  Grew
  BY <1>1 DEF Claim
<1>2. ASSUME NEW j \in Jobs, ClaimRefused(j)
      PROVE  Grew
  BY <1>2 DEF ClaimRefused
<1>3. ASSUME NEW j \in Jobs, ReadBack(j)
      PROVE  Grew
  BY <1>3 DEF ReadBack
<1>4. ASSUME NEW j \in Jobs, AgeOut(j)
      PROVE  Grew
  BY <1>4 DEF AgeOut
<1>5. ASSUME NEW j \in Jobs, Invoke(j)
      PROVE  Grew
  BY <1>5 DEF Invoke
<1>6. ASSUME NEW j \in Jobs, HandleAnswer(j)
      PROVE  Grew
  BY <1>6 DEF HandleAnswer
<1>7. ASSUME NEW j \in Jobs, Consult(j)
      PROVE  Grew
  BY <1>7 DEF Consult
<1>8. ASSUME NEW j \in Jobs, WriteDoc(j)
      PROVE  Grew
  BY <1>8 DEF WriteDoc
<1>9. ASSUME NEW j \in Jobs, Finalize(j)
      PROVE  Grew
  BY <1>9 DEF Finalize
<1>10. ASSUME NEW j \in Jobs, LostOwnership(j)
      PROVE  Grew
  BY <1>10 DEF LostOwnership
<1>11. ASSUME NEW j \in Jobs, StepFails(j)
      PROVE  Grew
  BY <1>11 DEF StepFails
<1>12. ASSUME NEW j \in Jobs, MarkRetryable(j)
      PROVE  Grew
  BY <1>12 DEF MarkRetryable
<1>13. ASSUME NEW j \in Jobs, Publish(j)
      PROVE  Grew
  BY <1>13 DEF Publish
<1>14. ASSUME NEW j \in Jobs, Crash(j)
      PROVE  Grew
  BY <1>14 DEF Crash
<1>15. ASSUME NEW j \in Jobs, DlqWrite(j)
      PROVE  Grew
  BY <1>15 DEF DlqWrite
<1>16. ASSUME NEW j \in Jobs, DlqPublish(j)
      PROVE  Grew
  BY <1>16 DEF DlqPublish
<1>17. ASSUME NEW j \in Jobs, DlqFails(j)
      PROVE  Grew
  BY <1>17 DEF DlqFails
<1>18. ASSUME NEW d \in Docs, PublishOutbox(d)
      PROVE  Grew
  BY <1>18 DEF PublishOutbox
<1>19. ASSUME NEW d \in Docs, AckOutbox(d)
      PROVE  Grew
  BY <1>19 DEF AckOutbox
<1>20. ASSUME NEW r \in Rows, Redeliver(r)
      PROVE  Grew
  BY <1>20 DEF Redeliver
<1>21. ASSUME NEW r \in Rows, LeaseExpires(r)
      PROVE  Grew
  BY <1>21 DEF LeaseExpires
<1>22. ASSUME NEW c \in Attempts, SefazDecides(c)
      PROVE  Grew
  BY <1>22 DEF SefazDecides
<1>23. ASSUME NEW c \in Attempts, EngineFails(c)
      PROVE  Grew
  BY <1>23 DEF EngineFails
<1>24. ASSUME NEW d \in Docs, NEW s \in {"authorized", "rejected", "failed"}, Settle(d, s)
      PROVE  Grew
  BY <1>24 DEF Settle
<1>25. ASSUME NEW e \in Events, ApiRead(e)
      PROVE  Grew
  BY <1>25 DEF ApiRead, ApiGoto, TypeOK
<1>26. ASSUME NEW e \in Events, ApiCreateEvent(e)
      PROVE  Grew
  BY <1>26 DEF ApiCreateEvent, ApiGoto, TypeOK
<1>27. ASSUME NEW e \in Events, ApiMark(e)
      PROVE  Grew
  BY <1>27 DEF ApiMark, ApiGoto, TypeOK
<1>28. ASSUME NEW e \in Events, ApiPublish(e)
      PROVE  Grew
  BY <1>28 DEF ApiPublish, ApiGoto, TypeOK
<1>29. ASSUME NEW e \in Events, ApiFails(e)
      PROVE  Grew
  BY <1>29 DEF ApiFails, ApiGoto, TypeOK
<1>30. CASE UNCHANGED vars
  BY <1>30 DEF vars
<1> QED
  BY <1>1, <1>2, <1>3, <1>4, <1>5, <1>6, <1>7, <1>8, <1>9, <1>10, <1>11, <1>12, <1>13,
     <1>14, <1>15, <1>16, <1>17, <1>18, <1>19, <1>20, <1>21, <1>22, <1>23, <1>24, <1>25,
     <1>26, <1>27, <1>28, <1>29, <1>30
     DEF Next, WorkerStep, DlqStep, SefazStep, ApiStep

\* A registered event stays registered.
LEMMA RegisteredKept ==
    ASSUME Grew, NEW d, NEW kind, Registered(d, kind)
    PROVE  Registered(d, kind)'
BY DEF Grew, Registered

\* The other jobs keep their answers.
LEMMA AnswersKept ==
    ASSUME AnswersAreReal, Grew, NEW j, \A k \in Jobs : k # j => job'[k] = job[k],
           j \in Jobs => AnswerReal(j)'
    PROVE  AnswersAreReal'
<1> SUFFICES ASSUME NEW k \in Jobs, k # j PROVE AnswerReal(k)'
  BY DEF AnswersAreReal
<1>1. AnswerReal(k) /\ job'[k] = job[k]
  BY DEF AnswersAreReal
<1>2. ASSUME NEW kind, Registered(DocOf[RowOf(k)], kind)
      PROVE  Registered(DocOf[RowOf(k)], kind)'
  BY <1>2, RegisteredKept
<1> QED
  BY <1>1, <1>2 DEF AnswerReal, Grew

\* An attempt moves to a place that asks nothing more of its answer.
LEMMA GotoAnswers ==
    ASSUME TypeOK, AnswersAreReal, Grew, NEW j \in Jobs, job[j].pc # "none",
           NEW place \in Places \ {"docwrite", "final", "consulting"}, Goto(j, place)
    PROVE  AnswersAreReal'
<1>1. job'[j].pc = place /\ job'[j].ans \in {job[j].ans, "none"}
  BY JobGoes
<1>2. \A k \in Jobs : k # j => job'[k] = job[k]
  BY JobGoes
<1>3. ASSUME NEW kind, Registered(DocOf[RowOf(j)], kind)
      PROVE  Registered(DocOf[RowOf(j)], kind)'
  BY <1>3, RegisteredKept
<1>4. AnswerReal(j)'
  BY <1>1, <1>3 DEF AnswersAreReal, AnswerReal, Grew
<1> QED
  BY <1>2, <1>4, AnswersKept

\* An attempt whose answer is gone or says nothing of SEFAZ.
LEMMA PlainAnswers ==
    ASSUME AnswersAreReal, Grew, NEW j \in Jobs, job[j].pc # "none",
           \A k \in Jobs : k # j => job'[k] = job[k],
           job'[j].ans \notin {"ok", "duplicate", "alreadyCancelled", "alreadyClosed"},
           job'[j].pc \notin {"docwrite", "consulting"}
    PROVE  AnswersAreReal'
<1>1. AnswerReal(j)'
  BY DEF AnswersAreReal, AnswerReal, Grew
<1> QED
  BY <1>1, AnswersKept

\* A delivery leaves every answer alone; its event was requested.
LEMMA DeliverAnswers ==
    ASSUME TypeOK, AnswersAreReal, Grew, NEW r \in Rows, Deliver(r),
           r \in Events => api'[r].pc # "idle"
    PROVE  AnswersAreReal'
<1>0. PICK new : new = <<r, delivered[r] + 1>>
  OBVIOUS
<1>1. job \in [Jobs -> JobType] /\ job' = [job EXCEPT ![new].pc = "queued"] /\ RowOf(new) = r
  BY <1>0 DEF TypeOK, JobType, Deliver, RowOf
<1>2. \A k \in Jobs : k # new => job'[k] = job[k]
  BY <1>1
<1>3. ASSUME new \in Jobs PROVE AnswerReal(new)'
  <2>1. job'[new].pc = "queued" /\ job'[new].ans = job[new].ans
    BY <1>1, <1>3 DEF JobType
  <2>2. ASSUME NEW kind, Registered(DocOf[r], kind)
        PROVE  Registered(DocOf[r], kind)'
    BY <2>2, RegisteredKept
  <2> QED
    BY <1>1, <1>3, <2>1, <2>2 DEF AnswersAreReal, AnswerReal, Grew
<1> QED
  BY <1>2, <1>3, AnswersKept

\* A call that ends brings the answer SEFAZ gave, or one that says nothing.
LEMMA CallAnswers ==
    ASSUME TypeOK, AnswersAreReal, Grew, NEW c \in Attempts, NEW ans, Answered(c, ans),
           LET r == RowOf(c[1]) IN
           /\ ans = "ok" => r \in accepted'
           /\ ans = "duplicate" => r \in accepted'
           /\ ans = "alreadyCancelled" => r \in Events /\ Registered(DocOf[r], "cancel")
           /\ ans = "alreadyClosed" => r \in Events /\ Registered(DocOf[r], "close")
    PROVE  AnswersAreReal'
<1>1. job \in [Jobs -> JobType] /\ c[1] \in Jobs
  BY DEF TypeOK, JobType, Attempts
<1>2. CASE IsWaiting(c)
  <2>1. job' = [job EXCEPT ![c[1]] = [@ EXCEPT !.pc = "answered", !.ans = ans]]
    BY <1>2 DEF Answered
  <2>2. job'[c[1]].pc = "answered" /\ job'[c[1]].ans = ans /\ job[c[1]].pc = "waiting"
    BY <1>1, <1>2, <2>1 DEF JobType, IsWaiting
  <2>3. \A k \in Jobs : k # c[1] => job'[k] = job[k]
    BY <1>1, <2>1
  <2>4. ASSUME NEW kind, Registered(DocOf[RowOf(c[1])], kind)
        PROVE  Registered(DocOf[RowOf(c[1])], kind)'
    BY <2>4, RegisteredKept
  <2>5. AnswerReal(c[1])'
    BY <1>1, <2>2, <2>4 DEF AnswersAreReal, AnswerReal, Grew
  <2> QED
    BY <1>1, <2>3, <2>5, AnswersKept
<1>3. CASE ~IsWaiting(c)
  <2>1. job' = job
    BY <1>3 DEF Answered
  <2>2. \A k \in Jobs : job'[k] = job[k]
    BY <2>1
  <2>3. ASSUME NEW kind, Registered(DocOf[RowOf(c[1])], kind)
        PROVE  Registered(DocOf[RowOf(c[1])], kind)'
    BY <2>3, RegisteredKept
  <2>4. AnswerReal(c[1])'
    BY <1>1, <2>2, <2>3 DEF AnswersAreReal, AnswerReal, Grew
  <2> QED
    BY <1>1, <2>2, <2>4, AnswersKept
<1> QED
  BY <1>2, <1>3

LEMMA AnswersStep ==
    ASSUME TypeOK, JobsSound, AnswersAreReal, EventsHaveDocuments, Grew, [Next]_vars
    PROVE  AnswersAreReal'
<1>0. job \in [Jobs -> JobType]
  BY DEF TypeOK, JobType
<1>1. ASSUME NEW j \in Jobs, Claim(j)
      PROVE  AnswersAreReal'
  <2>1. job' = [job EXCEPT ![j] = [@ EXCEPT !.pc = "claimed",
                                            !.attempt = job[j].attempt + 1,
                                            !.ans = "none"]] /\ job[j].pc = "queued"
    BY <1>1 DEF Claim, StartAttempt
  <2>2. job'[j].ans = "none" /\ job'[j].pc = "claimed" /\ \A k \in Jobs : k # j => job'[k] = job[k]
    BY <1>0, <2>1 DEF JobType
  <2> QED
    BY <2>1, <2>2, PlainAnswers
<1>2. ASSUME NEW j \in Jobs, ClaimRefused(j)
      PROVE  AnswersAreReal'
  <2>1. job' = [job EXCEPT ![j] = [@ EXCEPT !.pc = "readback",
                                            !.attempt = job[j].attempt + 1,
                                            !.ans = "none"]] /\ job[j].pc = "queued"
    BY <1>2 DEF ClaimRefused, StartAttempt
  <2>2. job'[j].ans = "none" /\ job'[j].pc = "readback" /\ \A k \in Jobs : k # j => job'[k] = job[k]
    BY <1>0, <2>1 DEF JobType
  <2> QED
    BY <2>1, <2>2, PlainAnswers
<1>3. ASSUME NEW j \in Jobs, ReadBack(j)
      PROVE  AnswersAreReal'
  <2>1. /\ job'[j].ans = job[j].ans /\ job'[j].pc \in {"publish", "queued", "dlq"}
        /\ job[j].pc = "readback" /\ \A k \in Jobs : k # j => job'[k] = job[k]
    BY <1>3, <1>0, AfterFailureSound DEF ReadBack, JobType
  <2>2. ASSUME NEW kind, Registered(DocOf[RowOf(j)], kind)
        PROVE  Registered(DocOf[RowOf(j)], kind)'
    BY <2>2, RegisteredKept
  <2>3. AnswerReal(j)'
    BY <2>1, <2>2 DEF AnswersAreReal, AnswerReal, Grew
  <2> QED
    BY <2>1, <2>3, AnswersKept
<1>4. ASSUME NEW j \in Jobs, AgeOut(j)
      PROVE  AnswersAreReal'
  <2>1. PICK place \in Places \ {"docwrite", "final", "consulting"} :
           Goto(j, place) /\ job[j].pc # "none"
    BY <1>4 DEF AgeOut, Places, Running, Working
  <2> QED
    BY <2>1, GotoAnswers
<1>5. ASSUME NEW j \in Jobs, Invoke(j)
      PROVE  AnswersAreReal'
  <2>1. PICK place \in Places \ {"docwrite", "final", "consulting"} :
           Goto(j, place) /\ job[j].pc # "none"
    BY <1>5 DEF Invoke, Places, Running, Working
  <2> QED
    BY <2>1, GotoAnswers
<1>6. ASSUME NEW j \in Jobs, HandleAnswer(j)
      PROVE  AnswersAreReal'
  <2>0. PICK place \in Running :
           /\ Goto(j, place) /\ job[j].pc = "answered" /\ place # "none"
           /\ place = "consulting" => job[j].ans = "duplicate"
           /\ place = "docwrite" => IsEnding(RowOf(j))
    BY <1>6 DEF HandleAnswer, Running, Working
  <2>1. /\ job'[j].ans = job[j].ans /\ job[j].pc = "answered"
        /\ \A k \in Jobs : k # j => job'[k] = job[k]
    BY <2>0, JobGoes DEF Places
  <2>2. /\ job'[j].pc = "consulting" => job[j].ans = "duplicate"
        /\ job'[j].pc = "docwrite" => IsEnding(RowOf(j))
        /\ job'[j].pc # "none"
    BY <2>0, JobGoes DEF Places, Running, Working
  <2>3. job[j].ans = "ok" => RowOf(j) \in xml'
    BY <1>6 DEF HandleAnswer
  <2>4. ASSUME NEW kind, Registered(DocOf[RowOf(j)], kind)
        PROVE  Registered(DocOf[RowOf(j)], kind)'
    BY <2>4, RegisteredKept
  <2>5. AnswerReal(j)'
    BY <2>1, <2>2, <2>3, <2>4 DEF AnswersAreReal, AnswerReal, Grew, IsEnding
  <2> QED
    BY <2>1, <2>2, <2>3, <2>5, AnswersKept
<1>7. ASSUME NEW j \in Jobs, Consult(j)
      PROVE  AnswersAreReal'
  <2>1. PICK ans \in {"ok", "rejected"} : job' = [job EXCEPT ![j] = [@ EXCEPT !.pc = "answered",
                                                                              !.ans = ans]]
    BY <1>7 DEF Consult, ConsultaSays
  <2>2. /\ job'[j].ans = ans /\ job'[j].pc = "answered" /\ job[j].pc = "consulting"
        /\ \A k \in Jobs : k # j => job'[k] = job[k]
    BY <1>7, <1>0, <2>1 DEF Consult, JobType
  <2>3. ASSUME NEW kind, Registered(DocOf[RowOf(j)], kind)
        PROVE  Registered(DocOf[RowOf(j)], kind)'
    BY <2>3, RegisteredKept
  <2>4. AnswerReal(j)'
    BY <2>2, <2>3 DEF AnswersAreReal, AnswerReal, Grew
  <2> QED
    BY <2>2, <2>4, AnswersKept
<1>8. ASSUME NEW j \in Jobs, WriteDoc(j)
      PROVE  AnswersAreReal'
  <2>1. /\ job'[j].ans = job[j].ans /\ job'[j].pc = "final" /\ job[j].pc = "docwrite"
        /\ \A k \in Jobs : k # j => job'[k] = job[k]
    BY <1>8, JobGoes DEF WriteDoc, Places, Running, Working
  <2>2. ASSUME NEW kind, Registered(DocOf[RowOf(j)], kind)
        PROVE  Registered(DocOf[RowOf(j)], kind)'
    BY <2>2, RegisteredKept
  <2>3. AnswerReal(j)'
    BY <2>1, <2>2 DEF AnswersAreReal, AnswerReal, Grew
  <2> QED
    BY <2>1, <2>3, AnswersKept
<1>9. ASSUME NEW j \in Jobs, Finalize(j)
      PROVE  AnswersAreReal'
  <2>1. job' = [job EXCEPT ![j] = [@ EXCEPT !.pc = "publish",
                                            !.pub = FinalStatus(RowOf(j), job[j].ans)]]
    BY <1>9 DEF Finalize
  <2>2. /\ job'[j].ans = job[j].ans /\ job'[j].pc = "publish" /\ job[j].pc = "final"
        /\ \A k \in Jobs : k # j => job'[k] = job[k]
    BY <1>9, <1>0, <2>1 DEF Finalize, JobType
  <2>3. ASSUME NEW kind, Registered(DocOf[RowOf(j)], kind)
        PROVE  Registered(DocOf[RowOf(j)], kind)'
    BY <2>3, RegisteredKept
  <2>4. AnswerReal(j)'
    BY <2>2, <2>3 DEF AnswersAreReal, AnswerReal, Grew
  <2> QED
    BY <2>2, <2>4, AnswersKept
<1>10. ASSUME NEW j \in Jobs, LostOwnership(j)
      PROVE  AnswersAreReal'
  <2>1. PICK place \in Places \ {"docwrite", "final", "consulting"} :
           Goto(j, place) /\ job[j].pc # "none"
    BY <1>10, AfterFailureSound DEF LostOwnership, Running, Working, Places
  <2> QED
    BY <2>1, GotoAnswers
<1>11. ASSUME NEW j \in Jobs, StepFails(j)
      PROVE  AnswersAreReal'
  <2>1. PICK place \in Places \ {"docwrite", "final", "consulting"} :
           Goto(j, place) /\ job[j].pc # "none"
    BY <1>11 DEF StepFails, Places, Running, Working
  <2> QED
    BY <2>1, GotoAnswers
<1>12. ASSUME NEW j \in Jobs, MarkRetryable(j)
      PROVE  AnswersAreReal'
  <2>1. PICK place \in Places \ {"docwrite", "final", "consulting"} :
           Goto(j, place) /\ job[j].pc # "none"
    BY <1>12, AfterFailureSound DEF MarkRetryable, Running, Working, Places
  <2> QED
    BY <2>1, GotoAnswers
<1>13. ASSUME NEW j \in Jobs, Publish(j)
      PROVE  AnswersAreReal'
  <2>1. PICK place \in Places \ {"docwrite", "final", "consulting"} :
           Goto(j, place) /\ job[j].pc # "none"
    BY <1>13, AfterFailureSound DEF Publish, Running, Working, Places
  <2> QED
    BY <2>1, GotoAnswers
<1>14. ASSUME NEW j \in Jobs, Crash(j)
      PROVE  AnswersAreReal'
  <2>1. PICK place \in Places \ {"docwrite", "final", "consulting"} :
           Goto(j, place) /\ job[j].pc # "none"
    BY <1>14, AfterFailureSound DEF Crash, Running, Working, Places
  <2> QED
    BY <2>1, GotoAnswers
<1>15. ASSUME NEW j \in Jobs, DlqWrite(j)
      PROVE  AnswersAreReal'
  <2>1. PICK place \in Places \ {"docwrite", "final", "consulting"} :
           Goto(j, place) /\ job[j].pc # "none"
    BY <1>15 DEF DlqWrite, Places, Running, Working
  <2> QED
    BY <2>1, GotoAnswers
<1>16. ASSUME NEW j \in Jobs, DlqPublish(j)
      PROVE  AnswersAreReal'
  <2>1. PICK place \in Places \ {"docwrite", "final", "consulting"} :
           Goto(j, place) /\ job[j].pc # "none"
    BY <1>16 DEF DlqPublish, Places, Running, Working
  <2> QED
    BY <2>1, GotoAnswers
<1>17. ASSUME NEW j \in Jobs, DlqFails(j)
      PROVE  AnswersAreReal'
  <2>1. PICK place \in Places \ {"docwrite", "final", "consulting"} :
           Goto(j, place) /\ job[j].pc # "none"
    BY <1>17 DEF DlqFails, Places, Running, Working
  <2> QED
    BY <2>1, GotoAnswers
<1>18. ASSUME NEW d \in Docs, PublishOutbox(d)
      PROVE  AnswersAreReal'
  <2>1. d \in Rows /\ d \notin Events /\ Deliver(d)
    BY <1>18, RowsAssumption DEF PublishOutbox, Rows
  <2> QED
    BY <2>1, DeliverAnswers
<1>19. ASSUME NEW r \in Rows, Redeliver(r)
      PROVE  AnswersAreReal'
  <2>1. Deliver(r) /\ (r \in Events => api'[r].pc # "idle")
    BY <1>19 DEF Redeliver, EventsHaveDocuments
  <2> QED
    BY <2>1, DeliverAnswers
<1>20. ASSUME NEW c \in Attempts, SefazDecides(c)
      PROVE  AnswersAreReal'
  <2>1. PICK verdict \in Verdicts(RowOf(c[1])) :
           /\ accepted' = IF verdict = "ok" THEN accepted \union {RowOf(c[1])} ELSE accepted
           /\ \/ \E ans \in {verdict, "invalid", "transport"} : Answered(c, ans)
              \/ UNCHANGED <<calls, job>>
    BY <1>20 DEF SefazDecides
  <2>2. RowOf(c[1]) \in Rows
    BY JobShape DEF Attempts
  <2>3. LET r == RowOf(c[1]) IN
        /\ verdict = "ok" => r \in accepted'
        /\ verdict = "duplicate" => r \in accepted'
        /\ verdict = "alreadyCancelled" => r \in Events /\ Registered(DocOf[r], "cancel")
        /\ verdict = "alreadyClosed" => r \in Events /\ Registered(DocOf[r], "close")
    BY <2>1, <2>2 DEF Verdicts, Rows
  <2>4. CASE \E ans \in {verdict, "invalid", "transport"} : Answered(c, ans)
    BY <2>3, <2>4, CallAnswers
  <2>5. CASE UNCHANGED <<calls, job>>
    <3>1. AnswerReal(c[1])' /\ \A k \in Jobs : k # c[1] => job'[k] = job[k]
      <4>1. ASSUME NEW kind, Registered(DocOf[RowOf(c[1])], kind)
            PROVE  Registered(DocOf[RowOf(c[1])], kind)'
        BY <4>1, RegisteredKept
      <4>2. c[1] \in Jobs
        BY DEF Attempts
      <4> QED
        BY <2>5, <4>1, <4>2 DEF AnswersAreReal, AnswerReal, Grew
    <3> QED
      BY <3>1, AnswersKept
  <2> QED
    BY <2>1, <2>4, <2>5
<1>21. ASSUME NEW c \in Attempts, EngineFails(c)
      PROVE  AnswersAreReal'
  <2>1. PICK ans \in {"invalid", "transport"} : Answered(c, ans)
    BY <1>21 DEF EngineFails
  <2> QED
    BY <2>1, CallAnswers
<1>22. ASSUME NEW e \in Events, ApiPublish(e)
      PROVE  AnswersAreReal'
  <2>1. e \in Rows /\ Deliver(e) /\ api'[e].pc # "idle"
    BY <1>22 DEF ApiPublish, Rows, ApiGoto, TypeOK
  <2> QED
    BY <2>1, DeliverAnswers
<1>23. CASE UNCHANGED job
  <2>1. \A j \in Jobs : job'[j] = job[j]
    BY <1>23
  <2>2. ASSUME NEW j \in Jobs PROVE AnswerReal(j)'
    <3>1. ASSUME NEW kind, Registered(DocOf[RowOf(j)], kind)
          PROVE  Registered(DocOf[RowOf(j)], kind)'
      BY <3>1, RegisteredKept
    <3> QED
      BY <2>1, <3>1 DEF AnswersAreReal, AnswerReal, Grew
  <2> QED
    BY <2>2 DEF AnswersAreReal
<1> QED
  BY <1>1, <1>2, <1>3, <1>4, <1>5, <1>6, <1>7, <1>8, <1>9, <1>10, <1>11, <1>12, <1>13,
     <1>14, <1>15, <1>16, <1>17, <1>18, <1>19, <1>20, <1>21, <1>22, <1>23
     DEF Next, WorkerStep, DlqStep, SefazStep, ApiStep, vars, AckOutbox, LeaseExpires,
         Settle, ApiRead, ApiCreateEvent, ApiMark, ApiFails

\* What StatusIsReal says of one row.
RowReal(r) ==
    /\ r \in Docs =>
          /\ status[r] \in {"authorized", "cancel_pending", "close_pending", "cancelled", "closed"}
                => r \in accepted \intersect xml
          /\ status[r] = "cancelled" => Registered(r, "cancel")
          /\ status[r] = "closed" => Registered(r, "close")
    /\ r \in Events => (status[r] = "success" => r \in accepted \intersect xml)

\* The rows a step does not write stay real.
LEMMA StatusKept ==
    ASSUME StatusIsReal, Grew, NEW r, \A q \in Rows : q # r => status'[q] = status[q], RowReal(r)'
    PROVE  StatusIsReal'
<1>1. ASSUME NEW q \in Rows PROVE RowReal(q)'
  <2>1. CASE q = r
    BY <2>1
  <2>2. CASE q # r
    <3>1. ASSUME NEW kind, Registered(q, kind)
          PROVE  Registered(q, kind)'
      BY <3>1, RegisteredKept
    <3>2. RowReal(q)
      BY DEF StatusIsReal, RowReal
    <3> QED
      BY <2>2, <3>1, <3>2 DEF RowReal, Grew
  <2> QED
    BY <2>1, <2>2
<1> QED
  BY <1>1 DEF StatusIsReal, RowReal, Rows

\* A status that claims nothing of SEFAZ.
LEMMA StatusPlain ==
    ASSUME TypeOK, StatusIsReal, Grew, NEW r, NEW s,
           status' = [status EXCEPT ![r] = s],
           s \notin {"authorized", "cancel_pending", "close_pending", "cancelled", "closed", "success"}
    PROVE  StatusIsReal'
<1>1. \A q \in Rows : q # r => status'[q] = status[q]
  BY DEF TypeOK
<1>2. r \in Rows => status'[r] = s
  BY DEF TypeOK
<1>3. RowReal(r)'
  BY <1>2 DEF RowReal, Rows
<1> QED
  BY <1>1, <1>3, StatusKept

LEMMA StatusStep ==
    ASSUME TypeOK, StatusIsReal, AnswersAreReal, EventsHaveDocuments, Grew, [Next]_vars
    PROVE  StatusIsReal'
<1>1. ASSUME NEW j \in Jobs, Claim(j)
      PROVE  StatusIsReal'
  <2>1. status' = [status EXCEPT ![RowOf(j)] = "processing"]
    BY <1>1 DEF Claim
  <2> QED
    BY <2>1, StatusPlain
<1>2. ASSUME NEW j \in Jobs, WriteDoc(j)
      PROVE  StatusIsReal'
  <2> DEFINE e == RowOf(j)
             d == DocOf[e]
  <2>1. job[j].pc = "docwrite" /\ status' = [status EXCEPT ![d] = EventDocStatus(e, job[j].ans)]
    BY <1>2 DEF WriteDoc
  <2>2. e \in Events /\ api[e].kind \in {"cancel", "close"} /\ AnswerReal(j)
    BY <2>1 DEF AnswersAreReal, AnswerReal
  <2>3. d \in Docs /\ d \in Rows /\ d \notin Events
    BY <2>2, EventsAssumption, RowsAssumption DEF Rows
  <2>4. d \in accepted \intersect xml
    BY <2>1, <2>2 DEF AnswerReal, EventsHaveDocuments
  <2>5. job[j].ans = "ok" => Registered(d, api[e].kind)
    BY <2>1, <2>2 DEF AnswerReal, Registered
  <2>6. /\ EventDocStatus(e, job[j].ans) = "cancelled" => Registered(d, "cancel")
        /\ EventDocStatus(e, job[j].ans) = "closed" => Registered(d, "close")
    BY <2>1, <2>2, <2>5 DEF EventDocStatus, AnswerReal
  <2> HIDE DEF e, d
  <2>7. status'[d] = EventDocStatus(e, job[j].ans) /\ \A q \in Rows : q # d => status'[q] = status[q]
    BY <2>1, <2>3 DEF TypeOK
  <2>8. ASSUME NEW kind, Registered(d, kind)
        PROVE  Registered(d, kind)'
    BY <2>8, RegisteredKept
  <2>9. RowReal(d)'
    BY <2>3, <2>4, <2>6, <2>7, <2>8 DEF RowReal, Grew
  <2> QED
    BY <2>7, <2>9, StatusKept
<1>3. ASSUME NEW j \in Jobs, Finalize(j)
      PROVE  StatusIsReal'
  <2> DEFINE r == RowOf(j)
             s == FinalStatus(r, job[j].ans)
  <2>1. job[j].pc = "final" /\ status' = [status EXCEPT ![r] = s]
    BY <1>3 DEF Finalize
  <2>2. r \in Rows /\ AnswerReal(j)
    BY JobShape DEF AnswersAreReal
  <2>3. s \in {"authorized", "success"} => r \in accepted \intersect xml
    BY <2>1, <2>2 DEF FinalStatus, AnswerReal
  <2>4. s \notin {"cancel_pending", "close_pending", "cancelled", "closed"}
    BY DEF FinalStatus
  <2> HIDE DEF r, s
  <2>5. status'[r] = s /\ \A q \in Rows : q # r => status'[q] = status[q]
    BY <2>1, <2>2 DEF TypeOK
  <2>6. RowReal(r)'
    BY <2>3, <2>4, <2>5 DEF RowReal, Grew
  <2> QED
    BY <2>5, <2>6, StatusKept
<1>4. ASSUME NEW j \in Jobs, MarkRetryable(j)
      PROVE  StatusIsReal'
  <2>1. status' = [status EXCEPT ![RowOf(j)] = "retryable_failed"]
    BY <1>4 DEF MarkRetryable
  <2> QED
    BY <2>1, StatusPlain
<1>5. ASSUME NEW j \in Jobs, DlqWrite(j)
      PROVE  StatusIsReal'
  <2>1. status' = [status EXCEPT ![RowOf(j)] = DlqStatus(RowOf(j))]
    BY <1>5 DEF DlqWrite
  <2>2. DlqStatus(RowOf(j)) \in {"failed", "error"}
    BY DEF DlqStatus
  <2> QED
    BY <2>1, <2>2, StatusPlain
<1>6. ASSUME NEW e \in Events, ApiCreateEvent(e)
      PROVE  StatusIsReal'
  <2>1. status' = [status EXCEPT ![e] = "pending"]
    BY <1>6 DEF ApiCreateEvent
  <2> QED
    BY <2>1, StatusPlain
<1>7. ASSUME NEW e \in Events, ApiMark(e)
      PROVE  StatusIsReal'
  <2>1. DocOf[e] \in Docs /\ DocOf[e] \in Rows /\ DocOf[e] \notin Events
    BY EventsAssumption, RowsAssumption DEF Rows
  <2>2. \A q \in Rows : q # DocOf[e] => status'[q] = status[q]
    BY <1>7 DEF ApiMark, TypeOK
  <2>3. status'[DocOf[e]] \in {"cancel_pending", "close_pending"}
    BY <1>7, <2>1 DEF ApiMark, TypeOK
  <2>4. DocOf[e] \in accepted \intersect xml
    BY <1>7 DEF ApiMark, EventsHaveDocuments
  <2>5. RowReal(DocOf[e])'
    BY <2>1, <2>3, <2>4 DEF RowReal, Grew
  <2> QED
    BY <2>2, <2>5, StatusKept
<1>8. CASE UNCHANGED status
  <2>1. \A q \in Rows : status'[q] = status[q]
    BY <1>8
  <2>2. ASSUME NEW q \in Rows PROVE RowReal(q)'
    <3>1. ASSUME NEW kind, Registered(q, kind)
          PROVE  Registered(q, kind)'
      BY <3>1, RegisteredKept
    <3>2. RowReal(q)
      BY DEF StatusIsReal, RowReal
    <3> QED
      BY <2>1, <3>1, <3>2 DEF RowReal, Grew
  <2> QED
    BY <2>2 DEF StatusIsReal, RowReal, Rows
<1> QED
  BY <1>1, <1>2, <1>3, <1>4, <1>5, <1>6, <1>7, <1>8
     DEF Next, WorkerStep, DlqStep, SefazStep, ApiStep, vars, ClaimRefused, ReadBack,
         AgeOut, Invoke, HandleAnswer, Consult, LostOwnership, StepFails, Publish, Crash,
         DlqPublish, DlqFails, PublishOutbox, AckOutbox, Redeliver, LeaseExpires,
         SefazDecides, EngineFails, Settle, ApiRead, ApiPublish, ApiFails

LEMMA EventsStep ==
    ASSUME TypeOK, StatusIsReal, EventsHaveDocuments, Grew, [Next]_vars
    PROVE  EventsHaveDocuments'
<1>1. ASSUME NEW d \in Docs, PublishOutbox(d)
      PROVE  EventsHaveDocuments'
  <2>1. d \notin Events /\ api' = api
    BY <1>1, RowsAssumption DEF PublishOutbox
  <2>2. \A e \in Events : delivered'[e] = delivered[e]
    BY <1>1, <2>1 DEF PublishOutbox, Deliver, TypeOK, Rows
  <2> QED
    BY <2>1, <2>2 DEF EventsHaveDocuments, Grew
<1>2. ASSUME NEW r \in Rows, Redeliver(r)
      PROVE  EventsHaveDocuments'
  <2>1. api' = api /\ delivered[r] > 0
    BY <1>2 DEF Redeliver
  <2>2. \A e \in Events : e # r => delivered'[e] = delivered[e]
    BY <1>2 DEF Redeliver, Deliver, TypeOK, Rows
  <2> QED
    BY <2>1, <2>2 DEF EventsHaveDocuments, Grew
<1>3. ASSUME NEW e \in Events, ApiRead(e)
      PROVE  EventsHaveDocuments'
  <2>1. DocOf[e] \in Docs /\ status[DocOf[e]] = "authorized"
    BY <1>3, EventsAssumption DEF ApiRead
  <2>2. DocOf[e] \in accepted \intersect xml
    BY <2>1 DEF StatusIsReal
  <2>3. delivered' = delivered /\ \A f \in Events : f # e => api'[f] = api[f]
    BY <1>3 DEF ApiRead, ApiGoto, TypeOK
  <2> QED
    BY <2>2, <2>3 DEF EventsHaveDocuments, Grew
<1>4. ASSUME NEW e \in Events, ApiCreateEvent(e)
      PROVE  EventsHaveDocuments'
  <2>1. api[e].pc # "idle" /\ delivered' = delivered
    BY <1>4 DEF ApiCreateEvent
  <2>2. \A f \in Events : f # e => api'[f] = api[f]
    BY <1>4 DEF ApiCreateEvent, ApiGoto, TypeOK
  <2> QED
    BY <2>1, <2>2 DEF EventsHaveDocuments, Grew
<1>5. ASSUME NEW e \in Events, ApiMark(e)
      PROVE  EventsHaveDocuments'
  <2>1. api[e].pc # "idle" /\ delivered' = delivered
    BY <1>5 DEF ApiMark
  <2>2. \A f \in Events : f # e => api'[f] = api[f]
    BY <1>5 DEF ApiMark, ApiGoto, TypeOK
  <2> QED
    BY <2>1, <2>2 DEF EventsHaveDocuments, Grew
<1>6. ASSUME NEW e \in Events, ApiPublish(e)
      PROVE  EventsHaveDocuments'
  <2>1. api[e].pc # "idle"
    BY <1>6 DEF ApiPublish
  <2>2. \A f \in Events : f # e => delivered'[f] = delivered[f] /\ api'[f] = api[f]
    BY <1>6 DEF ApiPublish, ApiGoto, Deliver, TypeOK, Rows
  <2> QED
    BY <2>1, <2>2 DEF EventsHaveDocuments, Grew
<1>7. ASSUME NEW e \in Events, ApiFails(e)
      PROVE  EventsHaveDocuments'
  <2>1. api[e].pc # "idle" /\ delivered' = delivered
    BY <1>7 DEF ApiFails
  <2>2. \A f \in Events : f # e => api'[f] = api[f]
    BY <1>7 DEF ApiFails, ApiGoto, TypeOK
  <2> QED
    BY <2>1, <2>2 DEF EventsHaveDocuments, Grew
<1>8. CASE UNCHANGED <<delivered, api>>
  BY <1>8 DEF EventsHaveDocuments, Grew
<1> QED
  BY <1>1, <1>2, <1>3, <1>4, <1>5, <1>6, <1>7, <1>8
     DEF Next, WorkerStep, DlqStep, SefazStep, ApiStep, vars, Claim, ClaimRefused, ReadBack,
         AgeOut, Invoke, HandleAnswer, Consult, WriteDoc, Finalize, LostOwnership,
         StepFails, MarkRetryable, Publish, Crash, DlqWrite, DlqPublish, DlqFails,
         AckOutbox, LeaseExpires, SefazDecides, EngineFails, Settle

\* What attempts learnt and events belong to is part of the inductive invariant.
LEMMA AlwaysReal == Spec => [](StatusIsReal /\ AnswersAreReal /\ EventsHaveDocuments)
<1> DEFINE RealInv == StatusIsReal /\ AnswersAreReal /\ EventsHaveDocuments
<1>1. Init => RealInv
  <2> SUFFICES ASSUME Init PROVE RealInv
    OBVIOUS
  <2>1. \A j \in Jobs : job[j].ans = "none" /\ job[j].pc = "none"
    BY DEF Init
  <2>2. AnswersAreReal
    BY <2>1 DEF AnswersAreReal, AnswerReal
  <2>3. StatusIsReal
    BY DEF Init, StatusIsReal, Rows
  <2>4. EventsHaveDocuments
    BY DEF Init, EventsHaveDocuments, Rows
  <2> QED
    BY <2>2, <2>3, <2>4
<1>2. TypeOK /\ JobsSound /\ RealInv /\ [Next]_vars => RealInv'
  BY GrewStep, AnswersStep, StatusStep, EventsStep
<1>3. Spec => [](TypeOK /\ JobsSound)
  BY TypesAndJobs
<1> QED
  BY <1>1, <1>2, <1>3, PTL DEF Spec

\* A status never says more than what SEFAZ and S3 hold, whatever is lost,
\* repeated, retried or skewed: authorized, and all that follows it, of an
\* authorized document with its XML; cancelled or closed of one SEFAZ cancelled
\* or closed.
THEOREM StatusIsRealHolds == Spec => []StatusIsReal
<1>1. StatusIsReal /\ AnswersAreReal /\ EventsHaveDocuments => StatusIsReal
  OBVIOUS
<1> QED
  BY <1>1, AlwaysReal, PTL

=============================================================================
