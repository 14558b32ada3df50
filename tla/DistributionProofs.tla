-------------------------- MODULE DistributionProofs --------------------------
(***************************************************************************)
(* Theorems about Distribution, for any number of jobs, look-ups, saves,   *)
(* attempts and NSUs.  The lemmas named ...Moves say what an action makes  *)
(* of its job, once for all invariants.                                    *)
(***************************************************************************)
EXTENDS Distribution, TLAPS

-----------------------------------------------------------------------------
(* What an action makes of its job *)

Record(pc, from, next, last, more, attempts, saw) ==
    [pc |-> pc, from |-> from, next |-> next, last |-> last, more |-> more,
     attempts |-> attempts, sawTaken |-> saw]

\* The job becomes r, and no other changes.
Moved(j, r) ==
    /\ r \in JobRecords /\ r.attempts < MaxAttempts[j]
    /\ job' = [job EXCEPT ![j] = r]

\* A job whose attempt is over.
Over(j) == Record(IF j \in Sweeps THEN "idle" ELSE "stopped", 0, 1, 0, FALSE, 0, FALSE)

\* job[j] at another place.
Placed(j, pc) ==
    Record(pc, job[j].from, job[j].next, job[j].last, job[j].more, job[j].attempts,
           job[j].sawTaken)

\* A record is its fields.
LEMMA RecordIsFields ==
    ASSUME NEW r \in JobRecords
    PROVE  r = Record(r.pc, r.from, r.next, r.last, r.more, r.attempts, r.sawTaken)
BY DEF JobRecords, Record

LEMMA Numbers ==
    /\ LastNSU \in Nat /\ BatchSize \in Nat /\ BatchSize > 0
    /\ Document \in Nat /\ Document > 0 /\ Document < Cancellation
    /\ Cancellation \in Nat /\ Cancellation <= LastNSU
    /\ \A j \in Jobs : MaxAttempts[j] \in Nat /\ MaxAttempts[j] > 0
BY DistributionAssumption DEF Jobs, Distributors

\* What TypeOK says of a job, field by field.
LEMMA JobTypes ==
    ASSUME TypeOK, NEW j \in Jobs
    PROVE  /\ job[j] \in JobRecords
           /\ job[j].pc \in {"idle", "queued", "claim", "call", "process", "persons", "stopped"}
           /\ job[j].from \in Nat /\ job[j].from <= LastNSU
           /\ job[j].next \in Nat /\ job[j].next > 0 /\ job[j].next <= LastNSU + 1
           /\ job[j].last \in Nat /\ job[j].last <= LastNSU
           /\ job[j].more \in BOOLEAN /\ job[j].sawTaken \in BOOLEAN
           /\ job[j].attempts \in Nat /\ job[j].attempts < MaxAttempts[j]
BY Numbers DEF TypeOK, JobRecords

LEMMA MovedKeeps ==
    ASSUME TypeOK, NEW j \in Jobs, NEW r, Moved(j, r)
    PROVE  /\ job' \in [Jobs -> JobRecords]
           /\ \A i \in Jobs : job'[i].attempts < MaxAttempts[i]
           /\ job'[j] = r
           /\ \A i \in Jobs : i # j => job'[i] = job[i]
<1>1. job \in [Jobs -> JobRecords] /\ \A i \in Jobs : job[i].attempts < MaxAttempts[i]
  BY DEF TypeOK
<1> QED BY <1>1 DEF Moved

LEMMA GotoMoves ==
    ASSUME TypeOK, NEW j \in Jobs,
           NEW pc \in {"idle", "queued", "claim", "call", "process", "persons", "stopped"},
           Goto(j, pc)
    PROVE  Moved(j, Placed(j, pc))
<1>1. job \in [Jobs -> JobRecords]
  BY DEF TypeOK
<1>2. [job[j] EXCEPT !.pc = pc] = Placed(j, pc)
  BY JobTypes DEF JobRecords, Placed, Record
<1>3. job' = [job EXCEPT ![j] = Placed(j, pc)]
  BY <1>1, <1>2 DEF Goto
<1>4. Placed(j, pc) \in JobRecords /\ Placed(j, pc).attempts < MaxAttempts[j]
  BY JobTypes DEF JobRecords, Placed, Record
<1> QED BY <1>3, <1>4 DEF Moved

LEMMA EndMoves ==
    ASSUME TypeOK, NEW j \in Jobs, End(j)
    PROVE  Moved(j, Over(j))
<1> DEFINE pc == IF j \in Sweeps THEN "idle" ELSE "stopped"
<1>1. pc \in {"idle", "stopped"}
  OBVIOUS
<1> HIDE DEF pc
<1>2. Fresh \in JobRecords /\ Fresh = Record("idle", 0, 1, 0, FALSE, 0, FALSE)
  BY Numbers DEF Fresh, JobRecords, Record
<1> DEFINE r == [Fresh EXCEPT !.pc = pc]
<1>3. /\ r \in JobRecords
      /\ r.pc = pc /\ r.from = 0 /\ r.next = 1 /\ r.last = 0 /\ r.more = FALSE
      /\ r.attempts = 0 /\ r.sawTaken = FALSE
  BY <1>1, <1>2 DEF JobRecords, Record
<1>4. Ended(j) = r
  BY DEF Ended, pc
<1> HIDE DEF r
<1>5. Ended(j) = Over(j) /\ Over(j) \in JobRecords
  BY <1>3, <1>4, RecordIsFields DEF Over, pc
<1>6. Over(j).attempts = 0
  BY <1>3, <1>4, <1>5
<1> QED BY <1>5, <1>6, Numbers DEF End, Moved

LEMMA LoadConfigMoves ==
    ASSUME TypeOK, NEW j \in Jobs, LoadConfig(j)
    PROVE  \/ Moved(j, Over(j))
           \/ /\ j \in Sweeps => ~taken
              /\ Moved(j, Record(IF j \in Syncs THEN "call" ELSE "claim", cursor, 1, 0,
                                 FALSE, job[j].attempts, taken))
<1>1. CASE penalty \/ (j \in Sweeps /\ taken)
  BY <1>1, EndMoves DEF LoadConfig
<1>2. CASE ~(penalty \/ (j \in Sweeps /\ taken))
  <2> DEFINE r == Record(IF j \in Syncs THEN "call" ELSE "claim", cursor, 1, 0,
                         FALSE, job[j].attempts, taken)
  <2>1. job' = [job EXCEPT ![j] = r]
    BY <1>2 DEF LoadConfig, Record, Fresh
  <2>2. cursor \in 0..LastNSU /\ taken \in BOOLEAN
    BY DEF TypeOK
  <2>3. r \in JobRecords /\ r.attempts < MaxAttempts[j]
    BY <2>2, Numbers, JobTypes DEF JobRecords, Record
  <2> QED BY <1>2, <2>1, <2>3 DEF Moved
<1> QED BY <1>1, <1>2

\* An answer holds the documents after the one it was asked for, and no more
\* than SEFAZ has handed out.
LEMMA BatchBounds ==
    ASSUME TypeOK, NEW j \in Jobs, published > Asked(j)
    PROVE  /\ Asked(j) \in Nat /\ Asked(j) > 0
           /\ Asked(j) = job[j].from \/ (job[j].from = 0 /\ Asked(j) = 1)
           /\ BatchEnd(j) \in Nat /\ BatchEnd(j) > Asked(j) /\ BatchEnd(j) <= published
           /\ published <= LastNSU
<1>1. published \in Nat /\ published <= LastNSU
  BY Numbers DEF TypeOK
<1>2. job[j].from \in Nat
  BY JobTypes
<1>3. /\ Asked(j) \in Nat /\ Asked(j) > 0
      /\ Asked(j) = job[j].from \/ (job[j].from = 0 /\ Asked(j) = 1)
  BY <1>2 DEF Asked, Max2
<1> QED BY <1>1, <1>3, Numbers DEF BatchEnd, Min2

LEMMA DocumentsFoundMoves ==
    ASSUME TypeOK, NEW j \in Jobs, DocumentsFound(j)
    PROVE  Moved(j, Record("process", 0, Asked(j) + 1, BatchEnd(j), BatchEnd(j) < published,
                           job[j].attempts, job[j].sawTaken))
<1> DEFINE next == Asked(j) + 1
           last == BatchEnd(j)
           more == BatchEnd(j) < published
<1>1. job \in [Jobs -> JobRecords] /\ job[j] \in JobRecords
  BY JobTypes DEF TypeOK
<1>2. next \in 1..(LastNSU + 1) /\ last \in 0..LastNSU
  <2>1. published > Asked(j)
    BY DEF DocumentsFound
  <2>2. /\ Asked(j) \in Nat /\ BatchEnd(j) \in Nat /\ BatchEnd(j) > Asked(j)
        /\ BatchEnd(j) <= published /\ published <= LastNSU
    BY <2>1, BatchBounds
  <2>3. published \in Nat /\ LastNSU \in Nat
    BY Numbers DEF TypeOK
  <2> QED BY <2>2, <2>3
<1>0. more \in BOOLEAN
  <2>1. CASE BatchEnd(j) < published
    BY <2>1
  <2>2. CASE ~(BatchEnd(j) < published)
    BY <2>2
  <2> QED BY <2>1, <2>2
<1>3. job' = [job EXCEPT ![j] = [@ EXCEPT !.pc = "process",
                                          !.from = 0,
                                          !.next = next,
                                          !.last = last,
                                          !.more = more]]
  BY DEF DocumentsFound
<1> HIDE DEF next, last, more
<1> DEFINE r == [job[j] EXCEPT !.pc = "process", !.from = 0, !.next = next,
                               !.last = last, !.more = more]
<1>4. job' = [job EXCEPT ![j] = r]
  BY <1>1, <1>3
<1>5. r \in JobRecords
  <2>1. 0 \in 0..LastNSU
    BY Numbers
  <2> QED BY <1>0, <1>1, <1>2, <2>1 DEF JobRecords
<1>6. /\ r.pc = "process" /\ r.from = 0 /\ r.next = next /\ r.last = last /\ r.more = more
      /\ r.attempts = job[j].attempts /\ r.sawTaken = job[j].sawTaken
  BY <1>1 DEF JobRecords
<1> HIDE DEF r
<1>7. r = Record("process", 0, next, last, more, job[j].attempts, job[j].sawTaken)
  BY <1>5, <1>6, RecordIsFields
<1>8. Moved(j, r)
  BY <1>4, <1>5, <1>6, JobTypes DEF Moved
<1> QED BY <1>7, <1>8 DEF next, last, more

\* Taking up an answer, or a document of it, changes the fields it says.
LEMMA ProcessMoves ==
    ASSUME TypeOK, NEW j \in Jobs, NEW next \in 1..(LastNSU + 1), NEW last \in 0..LastNSU,
           job' = [job EXCEPT ![j] = [@ EXCEPT !.pc = "process",
                                               !.next = next,
                                               !.last = last]]
    PROVE  Moved(j, Record("process", job[j].from, next, last, job[j].more,
                           job[j].attempts, job[j].sawTaken))
<1> DEFINE r == [job[j] EXCEPT !.pc = "process", !.next = next, !.last = last]
<1>1. job \in [Jobs -> JobRecords] /\ job[j] \in JobRecords
  BY JobTypes DEF TypeOK
<1>2. job' = [job EXCEPT ![j] = r]
  BY <1>1
<1>3. r \in JobRecords
  BY <1>1 DEF JobRecords
<1>4. /\ r.pc = "process" /\ r.from = job[j].from /\ r.next = next /\ r.last = last
      /\ r.more = job[j].more /\ r.attempts = job[j].attempts /\ r.sawTaken = job[j].sawTaken
  BY <1>1 DEF JobRecords
<1> HIDE DEF r
<1>5. r = Record("process", job[j].from, next, last, job[j].more, job[j].attempts,
                 job[j].sawTaken)
  BY <1>3, <1>4, RecordIsFields
<1>6. Moved(j, r)
  BY <1>2, <1>3, <1>4, JobTypes DEF Moved
<1> QED BY <1>5, <1>6

LEMMA LookedUpMoves ==
    ASSUME TypeOK, NEW j \in Jobs, LookedUp(j)
    PROVE  \/ Moved(j, Over(j))
           \/ Moved(j, Record("process", job[j].from, Document, Document, job[j].more,
                              job[j].attempts, job[j].sawTaken))
<1>1. CASE End(j)
  BY <1>1, EndMoves
<1>2. CASE job' = [job EXCEPT ![j] = [@ EXCEPT !.pc = "process",
                                               !.next = Document,
                                               !.last = Document]]
  <2>1. Document \in 1..(LastNSU + 1) /\ Document \in 0..LastNSU
    BY Numbers
  <2> QED BY <1>2, <2>1, ProcessMoves
<1> QED BY <1>1, <1>2 DEF LookedUp

LEMMA ProcessedMoves ==
    ASSUME TypeOK, NEW j \in Jobs, NEW n \in NSUs, Processed(j, n)
    PROVE  /\ kept' = kept \cup {n}
           /\ Moved(j, Record("process", job[j].from, n + 1, job[j].last, job[j].more,
                              job[j].attempts, job[j].sawTaken))
<1>1. job' = [job EXCEPT ![j] = [@ EXCEPT !.pc = "process", !.next = n + 1]]
  BY DEF Processed
<1>2. job \in [Jobs -> JobRecords] /\ job[j] \in JobRecords
  BY JobTypes DEF TypeOK
<1>3. job' = [job EXCEPT ![j] = [@ EXCEPT !.pc = "process",
                                          !.next = n + 1,
                                          !.last = job[j].last]]
  BY <1>1, <1>2 DEF JobRecords
<1>4. n + 1 \in 1..(LastNSU + 1) /\ job[j].last \in 0..LastNSU
  BY Numbers, JobTypes DEF NSUs
<1> QED BY <1>3, <1>4, ProcessMoves DEF Processed

LEMMA UpdateNSUMoves ==
    ASSUME TypeOK, NEW j \in Jobs, UpdateNSU(j)
    PROVE  \/ Moved(j, Over(j))
           \/ /\ ~job[j].sawTaken
              /\ Moved(j, Record("claim", job[j].last, 1, 0, FALSE, job[j].attempts, FALSE))
<1> DEFINE r == Record("claim", job[j].last, 1, 0, FALSE, job[j].attempts, FALSE)
<1>1. CASE job[j].more /\ ~job[j].sawTaken
  <2>1. job' = [job EXCEPT ![j] = r]
    BY <1>1 DEF UpdateNSU, Record, Fresh
  <2>2. r \in JobRecords /\ r.attempts < MaxAttempts[j]
    BY Numbers, JobTypes DEF JobRecords, Record
  <2> QED BY <1>1, <2>1, <2>2 DEF Moved
<1>2. CASE ~(job[j].more /\ ~job[j].sawTaken)
  BY <1>2, EndMoves DEF UpdateNSU
<1> QED BY <1>1, <1>2

LEMMA AttemptFailsMoves ==
    ASSUME TypeOK, NEW j \in Jobs, AttemptFails(j)
    PROVE  \/ Moved(j, Over(j))
           \/ Moved(j, Record(IF j \in Lookups THEN "call" ELSE "queued", 0, 1, 0, FALSE,
                              job[j].attempts + 1, FALSE))
<1> DEFINE r == Record(IF j \in Lookups THEN "call" ELSE "queued", 0, 1, 0, FALSE,
                       job[j].attempts + 1, FALSE)
<1>1. CASE job[j].attempts + 1 < MaxAttempts[j]
  <2>1. job' = [job EXCEPT ![j] = r]
    BY <1>1 DEF AttemptFails, Record, Fresh
  <2>2. r \in JobRecords /\ r.attempts < MaxAttempts[j]
    BY <1>1, Numbers, JobTypes DEF JobRecords, Record
  <2> QED BY <2>1, <2>2 DEF Moved
<1>2. CASE ~(job[j].attempts + 1 < MaxAttempts[j])
  BY <1>2, EndMoves DEF AttemptFails
<1> QED BY <1>1, <1>2

-----------------------------------------------------------------------------
(* Types *)

LEMMA KeepsTypes ==
    ASSUME TypeOK, NEW j \in Jobs, NEW r, Moved(j, r),
           published' = published, cursor' \in 0..LastNSU,
           taken' \in BOOLEAN, penalty' \in BOOLEAN,
           status' \in {"absent", "authorized", "cancelled"}, kept' \subseteq NSUs,
           save' = save
    PROVE  TypeOK'
BY MovedKeeps DEF TypeOK

\* One step of a job, or of what starts it.
JobStep(j) == Dispatch(j) \/ EnqueueSync(j) \/ EnqueueLookupByKey(j) \/ Work(j)

\* A step of a job makes it some r, and touches nothing of a save.
LEMMA StepMoves ==
    ASSUME TypeOK, NEW j \in Jobs, JobStep(j)
    PROVE  TypeOK' /\ save' = save /\ published' = published /\ \E r : Moved(j, r)
<1> USE DEF row
<1>0. /\ cursor \in 0..LastNSU /\ taken \in BOOLEAN /\ penalty \in BOOLEAN
      /\ status \in {"absent", "authorized", "cancelled"} /\ kept \subseteq NSUs
  BY DEF TypeOK
<1>1. CASE Dispatch(j)
  BY <1>0, <1>1, GotoMoves, KeepsTypes DEF Dispatch
<1>2. CASE EnqueueSync(j)
  BY <1>0, <1>2, GotoMoves, EndMoves, KeepsTypes DEF EnqueueSync
<1>3. CASE EnqueueLookupByKey(j)
  BY <1>0, <1>3, GotoMoves, KeepsTypes DEF EnqueueLookupByKey
<1>4. CASE LoadConfig(j)
  <2>1. \E r : Moved(j, r)
    BY <1>4, LoadConfigMoves
  <2> QED BY <1>0, <1>4, <2>1, KeepsTypes DEF LoadConfig
<1>5. CASE ClaimDistNSUSlot(j)
  BY <1>0, <1>5, GotoMoves, EndMoves, KeepsTypes DEF ClaimDistNSUSlot
<1>6. CASE DocumentsFound(j)
  <2>1. \E r : Moved(j, r)
    BY <1>6, DocumentsFoundMoves
  <2> QED BY <1>0, <1>6, <2>1, KeepsTypes DEF DocumentsFound
<1>7. CASE NoDocuments(j)
  <2>1. Max2(job[j].from, published) \in 0..LastNSU
    BY Numbers, JobTypes DEF Max2, TypeOK
  <2> QED BY <1>0, <1>7, <2>1, EndMoves, KeepsTypes DEF NoDocuments
<1>8. CASE Refused(j)
  BY <1>0, <1>8, EndMoves, KeepsTypes DEF Refused
<1>9. CASE LookedUp(j)
  <2>1. \E r : Moved(j, r)
    BY <1>9, LookedUpMoves
  <2> QED BY <1>0, <1>9, <2>1, KeepsTypes DEF LookedUp
<1>10. CASE PersistIncoming(j)
  BY <1>0, <1>10, GotoMoves, KeepsTypes DEF PersistIncoming
<1>11. ASSUME NEW n \in NSUs, Processed(j, n)
       PROVE  kept' \subseteq NSUs /\ \E r : Moved(j, r)
  BY <1>0, <1>11, ProcessedMoves
<1>12. Document \in NSUs /\ Cancellation \in NSUs
  BY DistributionAssumption DEF NSUs
<1>13. CASE PersistCounterparties(j)
  <2>1. kept' \subseteq NSUs /\ \E r : Moved(j, r)
    BY <1>11, <1>12, <1>13 DEF PersistCounterparties
  <2> QED BY <1>0, <1>13, <2>1, KeepsTypes DEF PersistCounterparties
<1>14. CASE CancelDocument(j)
  <2>1. kept' \subseteq NSUs /\ \E r : Moved(j, r)
    BY <1>11, <1>12, <1>14 DEF CancelDocument
  <2> QED BY <1>0, <1>14, <2>1, KeepsTypes DEF CancelDocument
<1>15. ASSUME NEW n \in NSUs, ProcessOther(j, n)
       PROVE  TypeOK' /\ save' = save /\ published' = published /\ \E r : Moved(j, r)
  <2>1. kept' \subseteq NSUs /\ \E r : Moved(j, r)
    BY <1>11, <1>15 DEF ProcessOther
  <2> QED BY <1>0, <1>15, <2>1, KeepsTypes DEF ProcessOther
<1>16. CASE UpdateNSU(j)
  <2>1. \E r : Moved(j, r)
    BY <1>16, UpdateNSUMoves
  <2>2. job[j].last \in 0..LastNSU
    BY JobTypes, Numbers
  <2> QED BY <1>0, <1>16, <2>1, <2>2, KeepsTypes DEF UpdateNSU
<1>17. CASE LookupDone(j)
  BY <1>0, <1>17, EndMoves, KeepsTypes DEF LookupDone
<1>18. CASE AttemptFails(j)
  <2>1. \E r : Moved(j, r)
    BY <1>18, AttemptFailsMoves
  <2> QED BY <1>0, <1>18, <2>1, KeepsTypes DEF AttemptFails
<1> QED
  BY <1>1, <1>2, <1>3, <1>4, <1>5, <1>6, <1>7, <1>8, <1>9, <1>10, <1>13, <1>14,
     <1>15, <1>16, <1>17, <1>18 DEF JobStep, Work

LEMMA TypesKept == TypeOK /\ [Next]_vars => TypeOK'
<1> SUFFICES ASSUME TypeOK, [Next]_vars PROVE TypeOK'
  OBVIOUS
<1> USE DEF row
<1>1. CASE Publish
  BY <1>1, Numbers DEF Publish, TypeOK
<1>2. CASE HourPasses
  BY <1>2 DEF HourPasses, TypeOK
<1>3. ASSUME NEW j \in Jobs, JobStep(j) PROVE TypeOK'
  BY <1>3, StepMoves
<1>4. ASSUME NEW s \in Saves, ReadConfig(s) PROVE TypeOK'
  BY <1>4 DEF ReadConfig, TypeOK
<1>5. ASSUME NEW s \in Saves, WriteConfig(s) PROVE TypeOK'
  BY <1>5, Numbers DEF WriteConfig, TypeOK, NoRead
<1>6. CASE UNCHANGED vars
  BY <1>6 DEF vars, TypeOK
<1> QED BY <1>1, <1>2, <1>3, <1>4, <1>5, <1>6 DEF Next, JobStep

\* Every reachable state is well typed: no job goes on past its attempts, and no
\* cursor or answer beyond what SEFAZ numbers.
THEOREM TypeCorrect == Spec => []TypeOK
<1>1. ASSUME Init PROVE TypeOK
  <2>1. Fresh \in JobRecords /\ Fresh.attempts = 0
    BY Numbers DEF Fresh, JobRecords
  <2>2. 0 \in 0..LastNSU
    BY Numbers
  <2> QED BY <1>1, <2>1, <2>2, Numbers DEF Init, TypeOK, NoRead
<1> QED BY <1>1, TypesKept, PTL DEF Spec

-----------------------------------------------------------------------------
(* The cursor *)

Covered(m) == \A n \in 2..m : n \in kept

\* What was processed stays so; what the row, a save, or a distribution job
\* starts from is covered, and so is what a job has been through of its answer.
CursorInv ==
    /\ Covered(cursor)
    /\ \A s \in Saves : Covered(save[s].cursor)
    /\ \A j \in Distributors :
          /\ Covered(job[j].from)
          /\ job[j].pc \in {"process", "persons"} => Covered(job[j].next - 1)
          /\ job[j].pc = "persons" => job[j].next = Document

LEMMA CoveredZero == Covered(0)
BY DEF Covered

LEMMA CoveredGrows ==
    ASSUME kept \subseteq kept', NEW m, Covered(m)
    PROVE  \A n \in 2..m : n \in kept'
BY DEF Covered

\* Nothing that was processed is forgotten.
LEMMA KeptGrows == TypeOK /\ [Next]_vars => kept \subseteq kept'
<1> SUFFICES ASSUME TypeOK, [Next]_vars PROVE kept \subseteq kept'
  OBVIOUS
<1>1. ASSUME NEW j \in Jobs, JobStep(j) PROVE kept \subseteq kept'
  BY <1>1 DEF JobStep, Work, Dispatch, EnqueueSync, EnqueueLookupByKey, LoadConfig,
     ClaimDistNSUSlot, DocumentsFound, NoDocuments, Refused, LookedUp, PersistIncoming,
     PersistCounterparties, CancelDocument, ProcessOther, Processed, UpdateNSU, LookupDone,
     AttemptFails
<1> QED BY <1>1 DEF Next, JobStep, Publish, HourPasses, ReadConfig, WriteConfig, vars

\* A job that starts from what is covered keeps the invariant; the cursor may
\* only move to what is covered too.
LEMMA CursorKept ==
    ASSUME TypeOK, CursorInv, NEW j \in Jobs, NEW r, Moved(j, r),
           kept \subseteq kept', save' = save,
           \A n \in 2..cursor' : n \in kept',
           j \in Distributors =>
              /\ \A n \in 2..r.from : n \in kept'
              /\ r.pc \in {"process", "persons"} => \A n \in 2..(r.next - 1) : n \in kept'
              /\ r.pc = "persons" => r.next = Document
    PROVE  CursorInv'
<1>1. \A i \in Distributors : i \in Jobs
  BY DEF Jobs
<1>2. job'[j] = r /\ \A i \in Jobs : i # j => job'[i] = job[i]
  BY MovedKeeps
<1>3. ASSUME NEW i \in Distributors
      PROVE  /\ \A n \in 2..job'[i].from : n \in kept'
             /\ job'[i].pc \in {"process", "persons"} =>
                   \A n \in 2..(job'[i].next - 1) : n \in kept'
             /\ job'[i].pc = "persons" => job'[i].next = Document
  <2>1. CASE i = j
    BY <1>2, <1>3, <2>1
  <2>2. CASE i # j
    BY <1>1, <1>2, <1>3, <2>2, CoveredGrows DEF CursorInv, Covered
  <2> QED BY <2>1, <2>2
<1>4. \A s \in Saves : \A n \in 2..save'[s].cursor : n \in kept'
  BY CoveredGrows DEF CursorInv, Covered
<1> QED BY <1>3, <1>4 DEF CursorInv, Covered

LEMMA CursorStep ==
    ASSUME TypeOK, CursorInv, NEW j \in Jobs, JobStep(j), kept \subseteq kept'
    PROVE  CursorInv'
<1> USE DEF row
<1>0. /\ save' = save
      /\ \A n \in 2..cursor : n \in kept'
      /\ j \in Distributors => \A n \in 2..job[j].from : n \in kept'
  BY StepMoves, CoveredGrows DEF CursorInv, Covered
<1>1. ASSUME NEW pc \in {"idle", "queued", "claim", "call", "stopped"}, Moved(j, Placed(j, pc)),
             cursor' = cursor
      PROVE  CursorInv'
  BY <1>0, <1>1, CursorKept DEF Placed, Record
<1>2. ASSUME Moved(j, Over(j)), \A n \in 2..cursor' : n \in kept' PROVE CursorInv'
  BY <1>0, <1>2, CursorKept DEF Over, Record
<1>3. CASE Dispatch(j) \/ EnqueueLookupByKey(j)
  BY <1>1, <1>3, GotoMoves DEF Dispatch, EnqueueLookupByKey
<1>4. CASE EnqueueSync(j)
  BY <1>0, <1>1, <1>2, <1>4, GotoMoves, EndMoves DEF EnqueueSync
<1>5. CASE LoadConfig(j)
  <2>1. CASE Moved(j, Over(j))
    BY <1>0, <1>2, <1>5, <2>1 DEF LoadConfig
  <2>2. CASE Moved(j, Record(IF j \in Syncs THEN "call" ELSE "claim", cursor, 1, 0,
                             FALSE, job[j].attempts, taken))
    BY <1>0, <1>5, <2>2, CursorKept DEF LoadConfig, Record
  <2> QED BY <1>5, <2>1, <2>2, LoadConfigMoves
<1>6. CASE ClaimDistNSUSlot(j)
  BY <1>0, <1>1, <1>2, <1>6, GotoMoves, EndMoves DEF ClaimDistNSUSlot
<1>7. CASE DocumentsFound(j)
  <2>1. Asked(j) \in Nat /\ (Asked(j) = job[j].from \/ Asked(j) = 1)
    BY <1>7, BatchBounds DEF DocumentsFound
  <2>2. \A n \in 2..Asked(j) : n \in kept'
    BY <1>0, <1>7, <2>1 DEF DocumentsFound
  <2>3. (Asked(j) + 1) - 1 = Asked(j)
    BY <2>1
  <2> HIDE DEF row
  <2>4. Moved(j, Record("process", 0, Asked(j) + 1, BatchEnd(j), BatchEnd(j) < published,
                        job[j].attempts, job[j].sawTaken)) /\ cursor' = cursor
    BY <1>7, DocumentsFoundMoves DEF DocumentsFound, row
  <2> QED BY <1>0, <2>2, <2>3, <2>4, CursorKept DEF Record
<1>8. CASE NoDocuments(j)
  <2>1. published \in Nat /\ cursor \in Nat /\ job[j].from \in Nat
    BY JobTypes, Numbers DEF TypeOK
  <2>2. \A n \in 2..Max2(job[j].from, published) : n \in 2..job[j].from
    BY <1>8, <2>1 DEF NoDocuments, Asked, Max2
  <2>3. \A n \in 2..cursor' : n \in kept'
    BY <1>0, <1>8, <2>2 DEF NoDocuments
  <2> QED BY <1>2, <1>8, <2>3, EndMoves DEF NoDocuments
<1>9. CASE Refused(j)
  BY <1>0, <1>2, <1>9, EndMoves DEF Refused
<1>10. CASE LookedUp(j)
  <2>1. j \notin Distributors /\ cursor' = cursor
    BY <1>10, DistributionAssumption DEF LookedUp, Distributors
  <2> QED BY <1>0, <1>2, <1>10, <2>1, LookedUpMoves, CursorKept DEF Record
<1>11. CASE PersistIncoming(j)
  <2>1. Moved(j, Placed(j, "persons")) /\ cursor' = cursor
    BY <1>11, GotoMoves DEF PersistIncoming
  <2>2. job[j].next = Document /\ job[j].pc = "process"
    BY <1>11 DEF PersistIncoming, Processing, At
  <2>3. j \in Distributors => \A n \in 2..(job[j].next - 1) : n \in kept'
    BY <2>2, CoveredGrows DEF CursorInv, Covered
  <2> QED BY <1>0, <2>1, <2>2, <2>3, CursorKept DEF Placed, Record
<1>12. ASSUME NEW n \in NSUs, Processed(j, n), cursor' = cursor,
              j \in Distributors => Covered(n - 1)
       PROVE  CursorInv'
  <2>1. /\ n \in kept'
        /\ Moved(j, Record("process", job[j].from, n + 1, job[j].last, job[j].more,
                           job[j].attempts, job[j].sawTaken))
    BY <1>12, ProcessedMoves
  <2>2. j \in Distributors => \A m \in 2..((n + 1) - 1) : m \in kept'
    BY <1>12, <2>1, CoveredGrows, Numbers DEF NSUs, Covered
  <2> QED BY <1>0, <1>12, <2>1, <2>2, CursorKept DEF Record
<1>13. Document \in NSUs /\ Cancellation \in NSUs
  BY DistributionAssumption DEF NSUs
<1>14. CASE PersistCounterparties(j)
  BY <1>12, <1>13, <1>14 DEF PersistCounterparties, At, CursorInv
<1>15. CASE CancelDocument(j)
  BY <1>12, <1>13, <1>15 DEF CancelDocument, Processing, At, CursorInv
<1>16. ASSUME NEW n \in NSUs, ProcessOther(j, n) PROVE CursorInv'
  BY <1>12, <1>16 DEF ProcessOther, Processing, At, CursorInv
<1>17. CASE UpdateNSU(j)
  <2>1. job[j].last \in Nat /\ job[j].next \in Nat
    BY JobTypes
  <2>2. \A n \in 2..job[j].last : n \in kept'
    <3>1. Covered(job[j].next - 1) /\ job[j].next > job[j].last
      BY <1>17 DEF UpdateNSU, At, CursorInv
    <3>2. \A n \in 2..(job[j].next - 1) : n \in kept'
      BY <3>1, CoveredGrows
    <3> QED BY <2>1, <3>1, <3>2
  <2>3. \A n \in 2..cursor' : n \in kept'
    BY <1>0, <1>17, <2>2 DEF UpdateNSU
  <2> QED BY <1>0, <1>2, <1>17, <2>2, <2>3, UpdateNSUMoves, CursorKept DEF Record
<1>18. CASE LookupDone(j)
  BY <1>0, <1>2, <1>18, EndMoves DEF LookupDone
<1>19. CASE AttemptFails(j)
  <2>1. cursor' = cursor
    BY <1>19 DEF AttemptFails
  <2>2. CASE Moved(j, Record(IF j \in Lookups THEN "call" ELSE "queued", 0, 1, 0, FALSE,
                             job[j].attempts + 1, FALSE))
    BY <1>0, <2>1, <2>2, CursorKept DEF Record
  <2> QED BY <1>0, <1>2, <1>19, <2>1, <2>2, AttemptFailsMoves
<1> QED
  BY <1>3, <1>4, <1>5, <1>6, <1>7, <1>8, <1>9, <1>10, <1>11, <1>14, <1>15, <1>16, <1>17,
     <1>18, <1>19 DEF JobStep, Work

LEMMA CursorNext == TypeOK /\ CursorInv /\ [Next]_vars => CursorInv'
<1> SUFFICES ASSUME TypeOK, CursorInv, [Next]_vars PROVE CursorInv'
  OBVIOUS
<1> USE DEF row
<1>1. CASE Publish \/ HourPasses
  BY <1>1 DEF Publish, HourPasses, CursorInv, Covered
<1>2. ASSUME NEW j \in Jobs, JobStep(j) PROVE CursorInv'
  BY <1>2, KeptGrows, CursorStep
<1>3. ASSUME NEW s \in Saves, ReadConfig(s) PROVE CursorInv'
  <2>1. save \in [Saves -> [pc : {"idle", "read", "written"}, cursor : 0..LastNSU,
                            taken : BOOLEAN, penalty : BOOLEAN]]
    BY DEF TypeOK
  <2>2. /\ save'[s].cursor = cursor
        /\ \A t \in Saves : t # s => save'[t] = save[t]
        /\ UNCHANGED <<cursor, kept, job>>
    BY <1>3, <2>1 DEF ReadConfig
  <2> QED BY <2>2 DEF CursorInv, Covered
<1>4. ASSUME NEW s \in Saves, WriteConfig(s) PROVE CursorInv'
  <2>1. save \in [Saves -> [pc : {"idle", "read", "written"}, cursor : 0..LastNSU,
                            taken : BOOLEAN, penalty : BOOLEAN]]
    BY DEF TypeOK
  <2>2. /\ save'[s].cursor = 0 /\ cursor' = save[s].cursor
        /\ \A t \in Saves : t # s => save'[t] = save[t]
        /\ UNCHANGED <<kept, job>>
    BY <1>4, <2>1 DEF WriteConfig, NoRead
  <2> QED BY <2>2, CoveredZero DEF CursorInv, Covered
<1>5. CASE UNCHANGED vars
  BY <1>5 DEF vars, CursorInv, Covered
<1> QED BY <1>1, <1>2, <1>3, <1>4, <1>5 DEF Next, JobStep

\* The cursor never passes a document whose processing failed, however many jobs,
\* attempts and saves of an old row overlap.
THEOREM CursorCoveredHolds == Spec => []CursorCovered
<1>1. Init => CursorInv
  BY Numbers DEF Init, CursorInv, Covered, Fresh, NoRead, Jobs
<1>2. CursorInv => CursorCovered
  BY DEF CursorInv, Covered, CursorCovered
<1> QED BY <1>1, <1>2, CursorNext, TypeCorrect, PTL DEF Spec

-----------------------------------------------------------------------------
(* The slot *)

NoWrites == \A s \in Saves : save[s].pc # "written"

\* A user's job holds the slot from the moment it was asked for.
HoldsAs(j, r) ==
    r.pc \in {"call", "process", "persons"} \/ (j \in Syncs /\ r.pc = "queued")

SlotInv ==
    NoWrites =>
       \A j \in Distributors :
          /\ HoldsAs(j, job[j]) => taken
          /\ \A i \in Distributors : HoldsAs(i, job[i]) /\ HoldsAs(j, job[j]) => i = j
          /\ j \in Syncs => /\ job[j].pc # "claim"
                            /\ HoldsAs(j, job[j]) => job[j].sawTaken \/ job[j].pc = "queued"

LEMMA Kinds ==
    /\ Sweeps \cap Syncs = {} /\ Distributors \cap Lookups = {}
    /\ Jobs = Distributors \cup Lookups /\ Distributors = Sweeps \cup Syncs
BY DistributionAssumption DEF Distributors, Jobs

\* A job that holds the slot after its step held it before, or found it free.
LEMMA SlotKept ==
    ASSUME TypeOK, SlotInv, NEW j \in Jobs, NEW r, Moved(j, r), save' = save,
           taken => taken',
           NoWrites /\ j \in Distributors =>
              /\ HoldsAs(j, r) => taken' /\ (HoldsAs(j, job[j]) \/ ~taken)
              /\ j \in Syncs => /\ r.pc # "claim"
                                /\ HoldsAs(j, r) => r.sawTaken \/ r.pc = "queued"
    PROVE  SlotInv'
<1>1. job'[j] = r /\ \A i \in Jobs : i # j => job'[i] = job[i]
  BY MovedKeeps
<1>2. \A i \in Distributors : i \in Jobs
  BY DEF Jobs
<1>3. NoWrites' => NoWrites
  BY DEF NoWrites
<1>4. ASSUME NoWrites, NEW i \in Distributors
      PROVE  /\ HoldsAs(i, job'[i]) => taken'
             /\ HoldsAs(i, job'[i]) /\ i # j => HoldsAs(i, job[i]) /\ taken
             /\ i \in Syncs => /\ job'[i].pc # "claim"
                               /\ HoldsAs(i, job'[i]) => job'[i].sawTaken \/ job'[i].pc = "queued"
  <2>1. CASE i = j
    BY <1>1, <1>4, <2>1
  <2>2. CASE i # j
    BY <1>1, <1>2, <1>4, <2>2 DEF SlotInv
  <2> QED BY <2>1, <2>2
<1>5. ASSUME NoWrites, NEW i \in Distributors, NEW k \in Distributors,
             HoldsAs(i, job'[i]), HoldsAs(k, job'[k])
      PROVE  i = k
  <2>1. CASE i # j /\ k # j
    BY <1>4, <1>5, <2>1 DEF SlotInv
  <2>2. CASE i = j /\ k # j
    BY <1>1, <1>4, <1>5, <2>2 DEF SlotInv
  <2>3. CASE i # j /\ k = j
    BY <1>1, <1>4, <1>5, <2>3 DEF SlotInv
  <2> QED BY <2>1, <2>2, <2>3
<1> QED BY <1>3, <1>4, <1>5 DEF SlotInv, HoldsAs

LEMMA SlotStep ==
    ASSUME TypeOK, SlotInv, NEW j \in Jobs, JobStep(j)
    PROVE  SlotInv'
<1> USE DEF row
<1>0. save' = save
  BY StepMoves
<1>1. ASSUME Moved(j, Over(j)), taken => taken' PROVE SlotInv'
  BY <1>0, <1>1, SlotKept DEF Over, Record, HoldsAs
<1>2. ASSUME NEW r, Moved(j, r), taken' = taken, j \notin Distributors PROVE SlotInv'
  BY <1>0, <1>2, SlotKept
\* A job that works goes on working, and keeps what it saw.
<1>3. ASSUME NEW r, Moved(j, r), taken' = taken, job[j].pc \in {"call", "process", "persons"},
             r.pc \in {"call", "process", "persons"}, r.sawTaken = job[j].sawTaken
      PROVE  SlotInv'
  BY <1>0, <1>3, SlotKept DEF SlotInv, HoldsAs
<1>4. CASE Dispatch(j)
  BY <1>0, <1>4, GotoMoves, SlotKept, Kinds DEF Dispatch, Placed, Record, HoldsAs
<1>5. CASE EnqueueSync(j)
  <2>1. CASE Goto(j, "queued")
    BY <1>0, <1>5, <2>1, GotoMoves, SlotKept DEF EnqueueSync, Placed, Record, HoldsAs
  <2>2. CASE End(j)
    BY <1>1, <1>5, <2>2, EndMoves DEF EnqueueSync
  <2> QED BY <1>5, <2>1, <2>2 DEF EnqueueSync
<1>6. CASE EnqueueLookupByKey(j)
  BY <1>2, <1>6, GotoMoves, Kinds DEF EnqueueLookupByKey
<1>7. CASE LoadConfig(j)
  <2>1. taken' = taken /\ job[j].pc = "queued" /\ j \in Distributors
    BY <1>7 DEF LoadConfig, At
  <2>2. CASE Moved(j, Over(j))
    BY <1>1, <2>1, <2>2
  <2>3. CASE Moved(j, Record(IF j \in Syncs THEN "call" ELSE "claim", cursor, 1, 0,
                             FALSE, job[j].attempts, taken))
    <3>1. CASE j \in Syncs
      BY <1>0, <2>1, <2>3, <3>1, SlotKept DEF Record, HoldsAs, SlotInv
    <3>2. CASE j \notin Syncs
      BY <1>0, <2>1, <2>3, <3>2, SlotKept DEF Record, HoldsAs
    <3> QED BY <3>1, <3>2
  <2> QED BY <1>7, <2>2, <2>3, LoadConfigMoves
<1>8. CASE ClaimDistNSUSlot(j)
  <2>1. CASE End(j)
    BY <1>1, <1>8, <2>1, EndMoves DEF ClaimDistNSUSlot
  <2>2. CASE SlotFree /\ taken' = TRUE /\ Goto(j, "call")
    <3>1. Moved(j, Placed(j, "call")) /\ ~taken /\ taken' /\ job[j].pc = "claim"
      BY <1>8, <2>2, GotoMoves DEF ClaimDistNSUSlot, SlotFree, At
    <3> QED BY <1>0, <3>1, SlotKept DEF Placed, Record, HoldsAs, SlotInv
  <2> QED BY <1>8, <2>1, <2>2 DEF ClaimDistNSUSlot
<1>9. CASE DocumentsFound(j)
  BY <1>3, <1>9, DocumentsFoundMoves DEF DocumentsFound, At, Record
<1>10. CASE NoDocuments(j) \/ Refused(j) \/ LookupDone(j)
  BY <1>1, <1>10, EndMoves DEF NoDocuments, Refused, LookupDone
<1>11. CASE LookedUp(j)
  BY <1>2, <1>11, LookedUpMoves, Kinds DEF LookedUp
<1>12. CASE PersistIncoming(j)
  BY <1>3, <1>12, GotoMoves DEF PersistIncoming, Processing, At, Placed, Record
<1>13. ASSUME NEW n \in NSUs, Processed(j, n), taken' = taken,
              job[j].pc \in {"process", "persons"}
       PROVE  SlotInv'
  BY <1>3, <1>13, ProcessedMoves DEF Record
<1>14. Document \in NSUs /\ Cancellation \in NSUs
  BY DistributionAssumption DEF NSUs
<1>15. CASE PersistCounterparties(j)
  BY <1>13, <1>14, <1>15 DEF PersistCounterparties, At
<1>16. CASE CancelDocument(j)
  BY <1>13, <1>14, <1>16 DEF CancelDocument, Processing, At
<1>17. ASSUME NEW n \in NSUs, ProcessOther(j, n) PROVE SlotInv'
  BY <1>13, <1>17 DEF ProcessOther, Processing, At
<1>18. CASE UpdateNSU(j)
  <2>1. taken' = taken /\ job[j].pc = "process" /\ j \in Distributors
    BY <1>18 DEF UpdateNSU, At
  <2>2. CASE Moved(j, Over(j))
    BY <1>1, <2>1, <2>2
  <2>3. CASE ~job[j].sawTaken
             /\ Moved(j, Record("claim", job[j].last, 1, 0, FALSE, job[j].attempts, FALSE))
    BY <1>0, <2>1, <2>3, SlotKept DEF Record, HoldsAs, SlotInv
  <2> QED BY <1>18, <2>2, <2>3, UpdateNSUMoves
<1>19. CASE AttemptFails(j)
  <2>1. taken' = taken /\ job[j].pc \in {"queued", "claim", "call", "process", "persons"}
    BY <1>19 DEF AttemptFails, Running
  <2>2. CASE Moved(j, Over(j))
    BY <1>1, <2>1, <2>2
  <2>3. CASE Moved(j, Record(IF j \in Lookups THEN "call" ELSE "queued", 0, 1, 0, FALSE,
                             job[j].attempts + 1, FALSE))
    <3>1. CASE j \in Lookups
      BY <1>2, <2>1, <2>3, <3>1, Kinds
    <3>2. CASE j \notin Lookups
      BY <1>0, <2>1, <2>3, <3>2, SlotKept DEF Record, HoldsAs, SlotInv
    <3> QED BY <3>1, <3>2
  <2> QED BY <1>19, <2>2, <2>3, AttemptFailsMoves
<1> QED
  BY <1>4, <1>5, <1>6, <1>7, <1>8, <1>9, <1>10, <1>11, <1>12, <1>15, <1>16, <1>17,
     <1>18, <1>19 DEF JobStep, Work

\* What a save does to the other saves.
LEMMA SaveSteps ==
    ASSUME TypeOK, NEW s \in Saves
    PROVE  /\ ReadConfig(s) => (NoWrites' => NoWrites) /\ UNCHANGED <<cursor, taken, status, job>>
           /\ WriteConfig(s) => ~NoWrites'
<1>1. save \in [Saves -> [pc : {"idle", "read", "written"}, cursor : 0..LastNSU,
                          taken : BOOLEAN, penalty : BOOLEAN]]
  BY DEF TypeOK
<1>2. ASSUME ReadConfig(s)
      PROVE  (NoWrites' => NoWrites) /\ UNCHANGED <<cursor, taken, status, job>>
  <2>1. /\ save[s].pc = "idle" /\ \A t \in Saves : t # s => save'[t] = save[t]
        /\ UNCHANGED <<cursor, taken, status, job>>
    BY <1>1, <1>2 DEF ReadConfig, row
  <2> QED BY <2>1 DEF NoWrites
<1>3. ASSUME WriteConfig(s) PROVE ~NoWrites'
  <2>1. save'[s].pc = "written"
    BY <1>1, <1>3 DEF WriteConfig, NoRead
  <2> QED BY <2>1 DEF NoWrites
<1> QED BY <1>2, <1>3

LEMMA SlotNext == TypeOK /\ SlotInv /\ [Next]_vars => SlotInv'
<1> SUFFICES ASSUME TypeOK, SlotInv, [Next]_vars PROVE SlotInv'
  OBVIOUS
<1>1. CASE Publish
  BY <1>1 DEF Publish, row, SlotInv, NoWrites, HoldsAs
<1>2. CASE HourPasses
  <2>1. UNCHANGED <<job, save>>
    BY <1>2 DEF HourPasses
  <2>2. \A j \in Distributors : ~HoldsAs(j, job[j])
    BY <1>2, Kinds DEF HourPasses, HoldsAs
  <2> QED BY <2>1, <2>2 DEF SlotInv, NoWrites, HoldsAs
<1>3. ASSUME NEW j \in Jobs, JobStep(j) PROVE SlotInv'
  BY <1>3, SlotStep
<1>4. ASSUME NEW s \in Saves, ReadConfig(s) \/ WriteConfig(s) PROVE SlotInv'
  BY <1>4, SaveSteps DEF SlotInv, HoldsAs
<1>5. CASE UNCHANGED vars
  BY <1>5 DEF vars, SlotInv, NoWrites, HoldsAs
<1> QED BY <1>1, <1>2, <1>3, <1>4, <1>5 DEF Next, JobStep

\* Until a save puts an old slot back, no two distribution jobs of a company work
\* at once, for any number of the dispatcher's and of the users' jobs.
THEOREM OneJobAtATimeHolds == Spec => []OneJobAtATime
<1>1. Init => SlotInv
  BY DEF Init, SlotInv, HoldsAs, Fresh, Jobs
<1>2. SlotInv => OneJobAtATime
  BY DEF SlotInv, NoWrites, HoldsAs, OneJobAtATime, Works
<1> QED BY <1>1, <1>2, SlotNext, TypeCorrect, PTL DEF Spec

-----------------------------------------------------------------------------
(* The cancellation *)

\* A job that may still call starts from the cursor, and one that processes an
\* answer is ahead of it; past the cancellation, the document is cancelled.
GoesOn(r, nsu, slot, st) ==
    /\ r.pc = "claim" /\ ~slot => r.from = nsu
    /\ r.pc = "call" => r.from = nsu
    /\ r.pc \in {"process", "persons"} =>
          nsu < r.next /\ (Cancellation < r.next => st = "cancelled")
    /\ r.pc = "persons" => r.next = Document

DocumentInv ==
    Undisturbed =>
       /\ Cancellation <= cursor => status = "cancelled"
       /\ \A j \in Distributors : GoesOn(job[j], cursor, taken, status)

\* Only the job that works touches the cursor and the document, so what the others
\* start from stays true of them.
LEMMA DocumentKept ==
    ASSUME TypeOK, SlotInv, DocumentInv, NEW j \in Jobs, NEW r, Moved(j, r), save' = save,
           j \in Lookups => r.pc # "idle",
           Undisturbed /\ j \in Distributors =>
              /\ \/ cursor' = cursor /\ status' = status
                 \/ job[j].pc \in {"call", "process", "persons"}
              /\ taken => taken'
              /\ Cancellation <= cursor' => status' = "cancelled"
              /\ GoesOn(r, cursor', taken', status')
    PROVE  DocumentInv'
<1>1. job'[j] = r /\ \A i \in Jobs : i # j => job'[i] = job[i]
  BY MovedKeeps
<1>2. \A i \in Distributors : i \in Jobs
  BY DEF Jobs
<1>3. Undisturbed' => Undisturbed /\ j \in Distributors
  <2>1. SUFFICES ASSUME Undisturbed' PROVE Undisturbed /\ j \in Distributors
    OBVIOUS
  <2>2. j \notin Lookups
    BY <1>1, <2>1 DEF Undisturbed, At
  <2>3. \A l \in Lookups : l # j /\ l \in Jobs
    BY <2>2, Kinds
  <2> QED BY <1>1, <2>1, <2>2, <2>3, Kinds DEF Undisturbed, At
<1>4. ASSUME Undisturbed, j \in Distributors, NEW i \in Distributors
      PROVE  GoesOn(job'[i], cursor', taken', status')
  <2>1. CASE i = j
    BY <1>1, <1>4, <2>1
  <2>2. CASE i # j /\ cursor' = cursor /\ status' = status
    BY <1>1, <1>2, <1>4, <2>2 DEF DocumentInv, GoesOn
  <2>3. CASE i # j /\ job[j].pc \in {"call", "process", "persons"}
    <3>1. taken /\ job[i].pc \notin {"call", "process", "persons"}
      BY <1>4, <2>3 DEF SlotInv, HoldsAs, Undisturbed, NoWrites
    <3>2. taken' /\ job'[i] = job[i]
      BY <1>1, <1>2, <1>4, <2>3, <3>1
    <3> QED BY <3>1, <3>2 DEF GoesOn
  <2> QED BY <1>4, <2>1, <2>2, <2>3
<1> QED BY <1>3, <1>4 DEF DocumentInv

LEMMA DocumentStep ==
    ASSUME TypeOK, SlotInv, DocumentInv, NEW j \in Jobs, JobStep(j)
    PROVE  DocumentInv'
<1> USE DEF row
<1>0. /\ save' = save
      /\ job[j].from \in Nat /\ job[j].next \in Nat /\ job[j].last \in Nat
      /\ cursor \in Nat /\ published \in Nat
      /\ Document \in Nat /\ Cancellation \in Nat /\ Document < Cancellation /\ Document > 0
  BY StepMoves, JobTypes, Numbers DEF TypeOK
<1>1. ASSUME Moved(j, Over(j)),
             Undisturbed /\ j \in Distributors =>
                /\ \/ cursor' = cursor /\ status' = status
                   \/ job[j].pc \in {"call", "process", "persons"}
                /\ taken => taken'
                /\ Cancellation <= cursor' => status' = "cancelled"
      PROVE  DocumentInv'
  <2>1. GoesOn(Over(j), cursor', taken', status')
    BY DEF GoesOn, Over, Record
  <2>2. j \in Lookups => Over(j).pc # "idle"
    BY Kinds DEF Over, Record
  <2> QED BY <1>0, <1>1, <2>1, <2>2, DocumentKept
\* A step that leaves cursor, slot and document alone.
<1>2. ASSUME NEW r, Moved(j, r), UNCHANGED <<cursor, taken, status>>,
             j \in Lookups => r.pc # "idle",
             Undisturbed /\ j \in Distributors => GoesOn(r, cursor, taken, status)
      PROVE  DocumentInv'
  BY <1>0, <1>2, DocumentKept DEF DocumentInv
<1>3. ASSUME Moved(j, Over(j)), UNCHANGED <<cursor, taken, status>> PROVE DocumentInv'
  BY <1>1, <1>3 DEF DocumentInv
<1>4. CASE Dispatch(j) \/ EnqueueLookupByKey(j)
  <2>1. CASE Dispatch(j)
    BY <1>2, <2>1, GotoMoves DEF Dispatch, Placed, Record, GoesOn
  <2>2. CASE EnqueueLookupByKey(j)
    BY <1>2, <2>2, GotoMoves, Kinds DEF EnqueueLookupByKey, Placed, Record
  <2> QED BY <1>4, <2>1, <2>2
<1>5. CASE EnqueueSync(j)
  <2>1. CASE Goto(j, "queued")
    BY <1>0, <1>5, <2>1, GotoMoves, DocumentKept
    DEF EnqueueSync, Placed, Record, GoesOn, DocumentInv
  <2>2. CASE End(j)
    BY <1>1, <1>5, <2>2, EndMoves DEF EnqueueSync, DocumentInv
  <2> QED BY <1>5, <2>1, <2>2 DEF EnqueueSync
<1>6. CASE LoadConfig(j)
  <2>1. CASE Moved(j, Over(j))
    BY <1>3, <1>6, <2>1 DEF LoadConfig
  <2>2. CASE Moved(j, Record(IF j \in Syncs THEN "call" ELSE "claim", cursor, 1, 0,
                             FALSE, job[j].attempts, taken))
    BY <1>2, <1>6, <2>2 DEF LoadConfig, Record, GoesOn
  <2> QED BY <1>6, <2>1, <2>2, LoadConfigMoves
<1>7. CASE ClaimDistNSUSlot(j)
  <2>1. CASE End(j) /\ UNCHANGED taken
    BY <1>3, <1>7, <2>1, EndMoves DEF ClaimDistNSUSlot
  <2>2. CASE SlotFree /\ taken' = TRUE /\ Goto(j, "call")
    <3>1. /\ Moved(j, Placed(j, "call")) /\ ~taken /\ taken' /\ job[j].pc = "claim"
          /\ UNCHANGED <<cursor, status>>
      BY <1>7, <2>2, GotoMoves DEF ClaimDistNSUSlot, SlotFree, At
    <3> QED BY <1>0, <3>1, DocumentKept DEF Placed, Record, GoesOn, DocumentInv
  <2> QED BY <1>7, <2>1, <2>2 DEF ClaimDistNSUSlot
<1>8. CASE DocumentsFound(j)
  <2>1. Asked(j) \in Nat /\ Asked(j) >= job[j].from /\ (Asked(j) = job[j].from \/ Asked(j) = 1)
    BY <1>0, <1>8, BatchBounds DEF DocumentsFound
  <2>2. job[j].pc = "call" /\ UNCHANGED <<cursor, taken, status>>
    BY <1>8 DEF DocumentsFound, At
  <2>3. ASSUME Undisturbed, j \in Distributors
        PROVE  /\ cursor < Asked(j) + 1
               /\ Cancellation < Asked(j) + 1 => status = "cancelled"
    BY <1>0, <2>1, <2>2, <2>3 DEF DocumentInv, GoesOn
  <2> HIDE DEF row
  <2> QED BY <1>2, <1>8, <2>2, <2>3, DocumentsFoundMoves DEF Record, GoesOn
<1>9. CASE NoDocuments(j)
  <2>1. job[j].pc = "call" /\ taken' = taken /\ status' = status /\ Moved(j, Over(j))
    BY <1>9, EndMoves DEF NoDocuments, At
  <2>2. cursor' = cursor \/ cursor' = job[j].from \/ cursor' = 1 \/ cursor' = 0
    BY <1>0, <1>9 DEF NoDocuments, Asked, Max2
  <2>3. ASSUME Undisturbed, j \in Distributors, Cancellation <= cursor'
        PROVE  status = "cancelled"
    BY <1>0, <2>1, <2>2, <2>3 DEF DocumentInv, GoesOn
  <2> QED BY <1>1, <2>1, <2>3
<1>10. CASE Refused(j) \/ LookupDone(j)
  BY <1>3, <1>10, EndMoves DEF Refused, LookupDone
<1>11. CASE LookedUp(j)
  <2>1. j \notin Distributors /\ UNCHANGED <<cursor, taken, status>>
    BY <1>11, Kinds DEF LookedUp
  <2> QED BY <1>2, <1>3, <1>11, <2>1, LookedUpMoves DEF Record
<1>12. CASE PersistIncoming(j)
  <2>1. /\ Moved(j, Placed(j, "persons")) /\ UNCHANGED <<cursor, taken>>
        /\ job[j].pc = "process" /\ job[j].next = Document
    BY <1>12, GotoMoves DEF PersistIncoming, Processing, At
  <2>2. Undisturbed /\ j \in Distributors => cursor < Document
    BY <2>1 DEF DocumentInv, GoesOn
  <2> QED BY <1>0, <2>1, <2>2, DocumentKept DEF Placed, Record, GoesOn
\* A document more of the answer is processed.
<1>13. ASSUME NEW n \in NSUs, Processed(j, n), UNCHANGED <<cursor, taken>>,
              job[j].pc \in {"process", "persons"}, job[j].next = n,
              (status' = status /\ n # Cancellation) \/ status' = "cancelled"
       PROVE  DocumentInv'
  <2>1. n \in Nat
    BY <1>0, <1>13
  <2>2. ASSUME Undisturbed, j \in Distributors
        PROVE  /\ cursor < n + 1
               /\ Cancellation < n + 1 => status' = "cancelled"
               /\ Cancellation <= cursor' => status' = "cancelled"
    BY <1>0, <1>13, <2>1, <2>2 DEF DocumentInv, GoesOn
  <2> DEFINE r == Record("process", job[j].from, n + 1, job[j].last, job[j].more,
                         job[j].attempts, job[j].sawTaken)
  <2>3. Moved(j, r)
    BY <1>13, ProcessedMoves
  <2>4. Undisturbed /\ j \in Distributors => GoesOn(r, cursor', taken', status')
    BY <1>13, <2>2 DEF GoesOn, Record
  <2>5. r.pc # "idle"
    BY DEF Record
  <2> HIDE DEF r
  <2> QED BY <1>0, <1>13, <2>2, <2>3, <2>4, <2>5, DocumentKept
<1>14. Document \in NSUs /\ Cancellation \in NSUs /\ Document # Cancellation
  BY <1>0, DistributionAssumption DEF NSUs
<1>15. CASE PersistCounterparties(j)
  <2>1. CASE j \in Distributors /\ Undisturbed
    <3>1. job[j].next = Document
      BY <1>15, <2>1 DEF PersistCounterparties, At, DocumentInv, GoesOn
    <3> QED BY <1>13, <1>14, <1>15, <3>1 DEF PersistCounterparties, At
  <2>2. CASE ~(j \in Distributors /\ Undisturbed)
    BY <1>0, <1>14, <1>15, <2>2, ProcessedMoves, DocumentKept DEF PersistCounterparties, Record
  <2> QED BY <2>1, <2>2
<1>16. CASE CancelDocument(j)
  BY <1>13, <1>14, <1>16 DEF CancelDocument, Processing, At
<1>17. ASSUME NEW n \in NSUs, ProcessOther(j, n) PROVE DocumentInv'
  BY <1>13, <1>17 DEF ProcessOther, Processing, At
<1>18. CASE UpdateNSU(j)
  <2>1. /\ taken' = taken /\ status' = status /\ cursor' \in {cursor, job[j].last}
        /\ job[j].pc = "process" /\ job[j].next > job[j].last /\ j \in Distributors
    BY <1>18 DEF UpdateNSU, At
  <2>2. Undisturbed /\ Cancellation <= cursor' => status' = "cancelled"
    BY <1>0, <2>1 DEF DocumentInv, GoesOn
  <2>3. CASE Moved(j, Over(j))
    BY <1>1, <2>1, <2>2, <2>3
  <2>4. CASE Moved(j, Record("claim", job[j].last, 1, 0, FALSE, job[j].attempts, FALSE))
    <3>1. Undisturbed => taken'
      BY <2>1 DEF SlotInv, HoldsAs, Undisturbed, NoWrites
    <3> QED BY <1>0, <2>1, <2>2, <2>4, <3>1, DocumentKept DEF Record, GoesOn
  <2> QED BY <1>18, <2>3, <2>4, UpdateNSUMoves
<1>19. CASE AttemptFails(j)
  <2>1. UNCHANGED <<cursor, taken, status>>
    BY <1>19 DEF AttemptFails
  <2>2. CASE Moved(j, Record(IF j \in Lookups THEN "call" ELSE "queued", 0, 1, 0, FALSE,
                             job[j].attempts + 1, FALSE))
    BY <1>2, <2>1, <2>2, Kinds DEF Record, GoesOn
  <2> QED BY <1>3, <1>19, <2>1, <2>2, AttemptFailsMoves
<1> QED
  BY <1>4, <1>5, <1>6, <1>7, <1>8, <1>9, <1>10, <1>11, <1>12, <1>15, <1>16, <1>17,
     <1>18, <1>19 DEF JobStep, Work

LEMMA DocumentNext == TypeOK /\ SlotInv /\ DocumentInv /\ [Next]_vars => DocumentInv'
<1> SUFFICES ASSUME TypeOK, SlotInv, DocumentInv, [Next]_vars PROVE DocumentInv'
  OBVIOUS
<1>1. CASE Publish
  BY <1>1 DEF Publish, row, DocumentInv, Undisturbed, At, GoesOn
<1>2. CASE HourPasses
  <2>1. UNCHANGED <<job, save, cursor, status>>
    BY <1>2 DEF HourPasses
  <2>2. ASSUME Undisturbed, NEW j \in Distributors PROVE GoesOn(job[j], cursor, taken', status)
    BY <1>2, <2>2, Kinds DEF HourPasses, GoesOn
  <2> QED BY <2>1, <2>2 DEF DocumentInv, Undisturbed, At
<1>3. ASSUME NEW j \in Jobs, JobStep(j) PROVE DocumentInv'
  BY <1>3, DocumentStep
<1>4. ASSUME NEW s \in Saves, ReadConfig(s) \/ WriteConfig(s) PROVE DocumentInv'
  BY <1>4, SaveSteps DEF DocumentInv, Undisturbed, NoWrites, At, GoesOn
<1>5. CASE UNCHANGED vars
  BY <1>5 DEF vars, DocumentInv, Undisturbed, At, GoesOn
<1> QED BY <1>1, <1>2, <1>3, <1>4, <1>5 DEF Next, JobStep

\* While distribution jobs are alone, a cancellation the cursor has passed is on the
\* document, whatever attempts died after it, before it, or half way through.
THEOREM CancellationAppliedHolds == Spec => []CancellationApplied
<1>1. Init => DocumentInv
  BY Numbers DEF Init, DocumentInv, GoesOn, Fresh, Jobs
<1>2. DocumentInv => CancellationApplied
  BY DEF DocumentInv, CancellationApplied
<1>3. Init => SlotInv
  BY DEF Init, SlotInv, HoldsAs, Fresh, Jobs
<1> QED BY <1>1, <1>2, <1>3, SlotNext, DocumentNext, TypeCorrect, PTL DEF Spec

=============================================================================
