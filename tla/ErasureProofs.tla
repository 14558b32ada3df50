----------------------------- MODULE ErasureProofs -----------------------------
(***************************************************************************)
(* Theorems about Erasure, for any number of companies, jobs, deliveries   *)
(* at once and redeliveries.                                               *)
(***************************************************************************)
EXTENDS Erasure, TLAPS

-----------------------------------------------------------------------------
(* The stages of a company's purge *)

LEMMA StagesAre ==
    /\ Len(Stages) = 7 /\ DOMAIN Stages = 1..7
    /\ Stages[1] = "claims" /\ Stages[2] = "config" /\ Stages[3] = "read"
    /\ Stages[4] = "objects" /\ Stages[5] = "documents" /\ Stages[6] = "distributions"
    /\ Stages[7] = "folder"
BY DEF Stages

PCs == {"idle", "lock", "purge", "tombstone", "delete", "billing", "person", "ack"}

LEMMA PurgeTypes ==
    ASSUME TypeOK, NEW p \in Consumers
    PROVE  /\ purge[p] \in PurgeRecords
           /\ purge[p].pc \in PCs
           /\ purge[p].todo \subseteq Companies /\ purge[p].left \subseteq Companies
           /\ purge[p].settled \in BOOLEAN /\ purge[p].stage \in 1..7
           /\ purge[p].page \subseteq Documents /\ purge[p].keys \subseteq Documents
<1>1. purge[p] \in PurgeRecords
  BY DEF TypeOK
<1> QED BY <1>1, StagesAre DEF PurgeRecords, PCs

LEMMA IdleTypes == Idle \in PurgeRecords /\ Idle.pc = "idle" /\ Idle.stage = 1 /\ Idle.settled = TRUE
BY StagesAre DEF Idle, PurgeRecords

LEMMA StepMoves ==
    ASSUME TypeOK, NEW p \in Consumers, NEW r \in PurgeRecords, Step(p, r)
    PROVE  /\ purge' \in [Consumers -> PurgeRecords]
           /\ purge'[p] = r
           /\ \A q \in Consumers : q # p => purge'[q] = purge[q]
BY DEF Step, TypeOK

\* The company a delivery is at is one it has left to purge.
LEMMA CurrentIsLeft ==
    ASSUME TypeOK, NEW p \in Consumers, purge[p].left # {}
    PROVE  Current(p) \in purge[p].left /\ Current(p) \in Companies
BY PurgeTypes DEF Current

-----------------------------------------------------------------------------
(* What an action makes of its delivery *)

LEMMA ReceiveMoves ==
    ASSUME TypeOK, NEW p \in Consumers, Receive(p)
    PROVE  \E r \in PurgeRecords :
              /\ Step(p, r) /\ r.pc = "lock" /\ r.todo = item /\ r.left = item
              /\ r.settled = TRUE /\ r.stage = 1
<1> DEFINE r == [Idle EXCEPT !.pc = "lock", !.todo = item, !.left = item]
<1>1. item \in SUBSET Companies
  BY DEF TypeOK
<1>2. /\ r \in PurgeRecords
      /\ r.pc = "lock" /\ r.todo = item /\ r.left = item /\ r.settled = TRUE /\ r.stage = 1
  BY <1>1, IdleTypes DEF PurgeRecords
<1>3. Step(p, r)
  BY DEF Receive
<1> QED BY <1>2, <1>3

LEMMA LockCompanyMoves ==
    ASSUME TypeOK, NEW p \in Consumers, NEW c \in Companies, LockCompany(p, c)
    PROVE  \E r \in PurgeRecords :
              /\ Step(p, r) /\ r.pc = "lock" /\ r.todo = purge[p].todo
              /\ r.left = purge[p].left \ {c} /\ r.stage = purge[p].stage
              /\ r.settled => purge[p].settled /\ lock[c] # "active" /\ c \notin fresh
<1> DEFINE on == purge[p].settled /\ lock[c] # "active" /\ c \notin fresh
           r == [purge[p] EXCEPT !.left = purge[p].left \ {c}, !.settled = on]
<1>1. Step(p, r) /\ purge[p].pc = "lock"
  BY DEF LockCompany, At
<1>2. on \in BOOLEAN /\ (on => purge[p].settled /\ lock[c] # "active" /\ c \notin fresh)
  OBVIOUS
<1>3. purge[p].left \ {c} \in SUBSET Companies
  BY PurgeTypes
<1> HIDE DEF on
<1>4. /\ r \in PurgeRecords /\ r.pc = purge[p].pc /\ r.todo = purge[p].todo
      /\ r.left = purge[p].left \ {c} /\ r.stage = purge[p].stage /\ r.settled = on
  BY <1>2, <1>3, PurgeTypes DEF PurgeRecords
<1> HIDE DEF r
<1> QED BY <1>1, <1>2, <1>4

\* The delivery goes to pc with the companies left in left.
LEMMA GoesTo ==
    ASSUME TypeOK, NEW p \in Consumers, NEW pc \in PCs, NEW left \in SUBSET Companies,
           Step(p, [purge[p] EXCEPT !.pc = pc, !.left = left])
    PROVE  \E r \in PurgeRecords :
              /\ Step(p, r) /\ r.pc = pc /\ r.todo = purge[p].todo /\ r.left = left
              /\ r.settled = purge[p].settled /\ r.stage = purge[p].stage
<1> DEFINE r == [purge[p] EXCEPT !.pc = pc, !.left = left]
<1>1. /\ r \in PurgeRecords /\ r.pc = pc /\ r.todo = purge[p].todo /\ r.left = left
      /\ r.settled = purge[p].settled /\ r.stage = purge[p].stage
  BY PurgeTypes DEF PurgeRecords, PCs
<1> QED BY <1>1

LEMMA GoesOn ==
    ASSUME TypeOK, NEW p \in Consumers, NEW pc \in PCs,
           Step(p, [purge[p] EXCEPT !.pc = pc])
    PROVE  \E r \in PurgeRecords :
              /\ Step(p, r) /\ r.pc = pc /\ r.todo = purge[p].todo /\ r.left = purge[p].left
              /\ r.settled = purge[p].settled /\ r.stage = purge[p].stage
<1> DEFINE r == [purge[p] EXCEPT !.pc = pc]
<1>1. /\ r \in PurgeRecords /\ r.pc = pc /\ r.todo = purge[p].todo /\ r.left = purge[p].left
      /\ r.settled = purge[p].settled /\ r.stage = purge[p].stage
  BY PurgeTypes DEF PurgeRecords, PCs
<1> QED BY <1>1

\* Stage by stage.
LEMMA PurgeStageMoves ==
    ASSUME TypeOK, NEW p \in Consumers, PurgeStage(p),
           NEW c, c = Current(p), NEW n, n = purge[p].stage
    PROVE  /\ c \in purge[p].left /\ c \in Companies /\ n \in 1..7
           /\ claims' = IF n = 1 /\ c \in item /\ "config" \in rows[c] THEN claims \ {c} ELSE claims
           /\ rows' = [rows EXCEPT ![c] = rows[c] \ DeletedRows(p, Stages[n])]
           /\ objects' = [objects EXCEPT ![c] = objects[c] \ DeletedObjects(p, Stages[n])]
           /\ named' = [named EXCEPT ![c] = named[c] \ DeletedRows(p, Stages[n])]
           /\ \E r \in PurgeRecords :
                 /\ Step(p, r) /\ r.pc = "purge" /\ r.todo = purge[p].todo
                 /\ r.settled = purge[p].settled
                 /\ n = 7 => r.stage = 1 /\ r.left = purge[p].left \ {c}
                 /\ n # 7 => r.stage = n + 1 /\ r.left = purge[p].left
                 /\ n = 3 => r.page = rows[c] \cap Documents /\ r.keys = r.page \cap named[c]
                 /\ n # 3 => r.page = purge[p].page /\ r.keys = purge[p].keys
<1>1. c \in purge[p].left /\ c \in Companies /\ n \in 1..7 /\ purge[p].pc = "purge"
  BY CurrentIsLeft, PurgeTypes DEF PurgeStage, At
<1>2. (Stages[n] = "claims" <=> n = 1) /\ (Stages[n] = "read" <=> n = 3) /\ Len(Stages) = 7
  BY <1>1, StagesAre
<1> DEFINE page == IF n = 3 THEN rows[c] \cap Documents ELSE purge[p].page
           keys == IF n = 3 THEN (rows[c] \cap Documents) \cap named[c] ELSE purge[p].keys
           stage == IF n = 7 THEN 1 ELSE n + 1
           left == IF n = 7 THEN purge[p].left \ {c} ELSE purge[p].left
           r == [purge[p] EXCEPT !.page = page, !.keys = keys, !.stage = stage, !.left = left]
<1>3. Step(p, r)
  BY <1>2 DEF PurgeStage, ReadPage
<1>4. page \in SUBSET Documents /\ keys \in SUBSET Documents /\ left \in SUBSET Companies
  BY PurgeTypes
<1>5. stage \in 1..7
  BY <1>1
<1>6. /\ n = 7 => stage = 1 /\ left = purge[p].left \ {c}
      /\ n # 7 => stage = n + 1 /\ left = purge[p].left
      /\ n = 3 => page = rows[c] \cap Documents /\ keys = page \cap named[c]
      /\ n # 3 => page = purge[p].page /\ keys = purge[p].keys
  OBVIOUS
<1> HIDE DEF page, keys, stage, left
<1>7. /\ r \in PurgeRecords /\ r.pc = "purge" /\ r.todo = purge[p].todo
      /\ r.settled = purge[p].settled /\ r.stage = stage /\ r.left = left
      /\ r.page = page /\ r.keys = keys
  BY <1>1, <1>4, <1>5, PurgeTypes, StagesAre DEF PurgeRecords
<1> HIDE DEF r
<1>8. \E s \in PurgeRecords :
                 /\ Step(p, s) /\ s.pc = "purge" /\ s.todo = purge[p].todo
                 /\ s.settled = purge[p].settled
                 /\ n = 7 => s.stage = 1 /\ s.left = purge[p].left \ {c}
                 /\ n # 7 => s.stage = n + 1 /\ s.left = purge[p].left
                 /\ n = 3 => s.page = rows[c] \cap Documents /\ s.keys = s.page \cap named[c]
                 /\ n # 3 => s.page = purge[p].page /\ s.keys = purge[p].keys
  BY <1>3, <1>6, <1>7
<1>9. /\ claims' = IF n = 1 /\ c \in item /\ "config" \in rows[c] THEN claims \ {c} ELSE claims
      /\ rows' = [rows EXCEPT ![c] = rows[c] \ DeletedRows(p, Stages[n])]
      /\ objects' = [objects EXCEPT ![c] = objects[c] \ DeletedObjects(p, Stages[n])]
      /\ named' = [named EXCEPT ![c] = named[c] \ DeletedRows(p, Stages[n])]
  BY <1>2 DEF PurgeStage, Releases
<1> QED BY <1>1, <1>8, <1>9

LEMMA DeletedAre ==
    ASSUME TypeOK, NEW p \in Consumers, NEW n \in 1..7
    PROVE  /\ n = 2 => DeletedRows(p, Stages[n]) = {"config"}
           /\ n = 5 => DeletedRows(p, Stages[n]) = purge[p].page
           /\ n = 6 => DeletedRows(p, Stages[n]) = {"distributions"}
           /\ n \notin {2, 5, 6} => DeletedRows(p, Stages[n]) = {}
           /\ n = 4 => DeletedObjects(p, Stages[n]) = purge[p].keys
           /\ n = 7 => DeletedObjects(p, Stages[n]) = {"folder"}
           /\ n \notin {4, 7} => DeletedObjects(p, Stages[n]) = {}
BY StagesAre DEF DeletedRows, DeletedObjects

-----------------------------------------------------------------------------
(* Types *)

\* What TypeOK says of what a delivery does not own.
DataOK ==
    /\ lock \in [Companies -> {"active", "locked", "erased"}]
    /\ fresh \subseteq Companies /\ item \subseteq Companies
    /\ rows \in [Companies -> SUBSET Tables]
    /\ objects \in [Companies -> SUBSET Objects]
    /\ named \in [Companies -> SUBSET Documents]
    /\ claims \subseteq Companies
    /\ billing \subseteq BillingRows
    /\ person \in BOOLEAN
    /\ msg \in {"queued", "hidden", "parked", "acked"}
    /\ receives \in 0..MaxReceives

LEMMA TypesSplit == TypeOK => DataOK
BY DEF TypeOK, DataOK

LEMMA StepTypes ==
    ASSUME TypeOK, DataOK', NEW p \in Consumers, NEW r \in PurgeRecords, Step(p, r), job' = job
    PROVE  TypeOK'
BY StepMoves DEF TypeOK, DataOK

LEMMA JobTypesKept ==
    ASSUME TypeOK, NEW j \in Jobs, JobStep(j)
    PROVE  TypeOK'
<1>1. JobOf[j] \in Companies
  BY ErasureAssumption
<1>2. /\ "new" \in Documents /\ "new" \in Objects /\ "folder" \in Objects
      /\ "config" \in Tables /\ "distributions" \in Tables
  BY DEF Documents, Objects, Tables
<1>3. CASE StartJob(j) \/ JobFails(j)
  BY <1>3 DEF StartJob, JobFails, JobUnchanged, TypeOK
<1>4. CASE UploadXML(j)
  BY <1>1, <1>2, <1>4 DEF UploadXML, JobUnchanged, TypeOK
<1>5. CASE WriteStatus(j)
  BY <1>1, <1>2, <1>5 DEF WriteStatus, JobUnchanged, TypeOK
<1>6. CASE ClaimSlot(j)
  BY <1>1, <1>2, <1>6 DEF ClaimSlot, JobUnchanged, TypeOK
<1>7. CASE PutRecords(j)
  BY <1>1, <1>2, <1>7 DEF PutRecords, JobUnchanged, TypeOK
<1> QED BY <1>3, <1>4, <1>5, <1>6, <1>7 DEF JobStep

LEMMA PurgeTypesKept ==
    ASSUME TypeOK, NEW p \in Consumers, Receive(p) \/ PurgeStep(p) \/ PurgeFails(p)
    PROVE  TypeOK'
<1> USE TypesSplit DEF data
<1>1. CASE Receive(p)
  <2>1. DataOK'
    BY <1>1, ErasureAssumption DEF Receive, DataOK
  <2> QED BY <1>1, <2>1, ReceiveMoves, StepTypes DEF Receive
<1>2. ASSUME NEW c \in Companies, LockCompany(p, c) PROVE TypeOK'
  <2>1. DataOK'
    BY <1>2 DEF LockCompany, DataOK
  <2> QED BY <1>2, <2>1, LockCompanyMoves, StepTypes DEF LockCompany
<1>3. CASE Locked(p)
  <2>1. DataOK'
    BY <1>3 DEF Locked, DataOK
  <2>2. "purge" \in PCs /\ purge[p].todo \in SUBSET Companies
    BY PurgeTypes DEF PCs
  <2> QED BY <1>3, <2>1, <2>2, GoesTo, StepTypes DEF Locked
<1>4. CASE PurgeStage(p)
  <2>1. PICK c, n : c = Current(p) /\ n = purge[p].stage
    OBVIOUS
  <2>2. /\ c \in Companies /\ n \in 1..7
        /\ rows' = [rows EXCEPT ![c] = rows[c] \ DeletedRows(p, Stages[n])]
        /\ objects' = [objects EXCEPT ![c] = objects[c] \ DeletedObjects(p, Stages[n])]
        /\ named' = [named EXCEPT ![c] = named[c] \ DeletedRows(p, Stages[n])]
        /\ claims' \subseteq claims
        /\ \E r \in PurgeRecords : Step(p, r)
    BY <1>4, <2>1, PurgeStageMoves
  <2>3. /\ rows' \in [Companies -> SUBSET Tables]
        /\ objects' \in [Companies -> SUBSET Objects]
        /\ named' \in [Companies -> SUBSET Documents]
    <3>1. /\ rows[c] \ DeletedRows(p, Stages[n]) \in SUBSET Tables
          /\ objects[c] \ DeletedObjects(p, Stages[n]) \in SUBSET Objects
          /\ named[c] \ DeletedRows(p, Stages[n]) \in SUBSET Documents
      BY <2>2 DEF DataOK
    <3> QED BY <2>2, <3>1 DEF DataOK
  <2>4. DataOK'
    BY <1>4, <2>2, <2>3 DEF PurgeStage, DataOK
  <2> QED BY <1>4, <2>2, <2>4, StepTypes DEF PurgeStage
<1>5. CASE Purged(p)
  <2>1. DataOK'
    BY <1>5 DEF Purged, GivenBack, DataOK
  <2>2. "tombstone" \in PCs /\ purge[p].todo \in SUBSET Companies
    BY PurgeTypes DEF PCs
  <2> QED BY <1>5, <2>1, <2>2, IdleTypes, GoesTo, StepTypes DEF Purged
<1>6. CASE Tombstone(p)
  <2>1. DataOK'
    BY <1>6, CurrentIsLeft DEF Tombstone, DataOK
  <2>2. "delete" \in PCs
    BY DEF PCs
  <2> QED BY <1>6, <2>1, <2>2, GoesOn, StepTypes DEF Tombstone
<1>7. CASE DeleteItem(p)
  <2>1. DataOK'
    BY <1>7 DEF DeleteItem, DataOK
  <2>2. "tombstone" \in PCs /\ purge[p].left \ {Current(p)} \in SUBSET Companies
    BY PurgeTypes DEF PCs
  <2>3. Step(p, [purge[p] EXCEPT !.pc = "tombstone", !.left = purge[p].left \ {Current(p)}])
    BY <1>7 DEF DeleteItem
  <2> QED BY <1>7, <2>1, <2>2, <2>3, GoesTo, StepTypes DEF DeleteItem
<1>8. CASE CompaniesErased(p)
  <2>1. DataOK' /\ "billing" \in PCs
    BY <1>8 DEF CompaniesErased, DataOK, PCs
  <2> QED BY <1>8, <2>1, GoesOn, StepTypes DEF CompaniesErased
<1>9. CASE EraseOrganizationBilling(p)
  <2>1. DataOK' /\ "person" \in PCs
    BY <1>9 DEF EraseOrganizationBilling, DataOK, PCs
  <2> QED BY <1>9, <2>1, GoesOn, StepTypes DEF EraseOrganizationBilling
<1>10. CASE PurgePerson(p)
  <2>1. DataOK' /\ "ack" \in PCs
    BY <1>10 DEF PurgePerson, DataOK, PCs
  <2> QED BY <1>10, <2>1, GoesOn, StepTypes DEF PurgePerson
<1>11. CASE Ack(p)
  <2>1. DataOK'
    BY <1>11 DEF Ack, DataOK
  <2> QED BY <1>11, <2>1, IdleTypes, StepTypes DEF Ack
<1>12. CASE PurgeFails(p)
  <2>1. DataOK'
    BY <1>12 DEF PurgeFails, GivenBack, DataOK
  <2> QED BY <1>12, <2>1, IdleTypes, StepTypes DEF PurgeFails
<1> QED
  BY <1>1, <1>2, <1>3, <1>4, <1>5, <1>6, <1>7, <1>8, <1>9, <1>10, <1>11, <1>12 DEF PurgeStep

LEMMA TypesKept == TypeOK /\ [Next]_vars => TypeOK'
<1> SUFFICES ASSUME TypeOK, [Next]_vars PROVE TypeOK'
  OBVIOUS
<1>1. ASSUME NEW j \in Jobs, JobStep(j) PROVE TypeOK'
  BY <1>1, JobTypesKept
<1>2. ASSUME NEW p \in Consumers, Receive(p) \/ PurgeStep(p) \/ PurgeFails(p) PROVE TypeOK'
  BY <1>2, PurgeTypesKept
<1>3. ASSUME NEW c \in Companies, WindowPasses(c) PROVE TypeOK'
  BY <1>3 DEF WindowPasses, data, TypeOK
<1>4. CASE Redeliver
  BY <1>4 DEF Redeliver, data, TypeOK
<1>5. CASE UNCHANGED vars
  BY <1>5 DEF vars, TypeOK
<1> QED BY <1>1, <1>2, <1>3, <1>4, <1>5 DEF Next

\* Every reachable state is well typed: a delivery never leaves the stages of the
\* purge, and its page holds documents only.
THEOREM TypeCorrect == Spec => []TypeOK
<1>1. ASSUME Init PROVE TypeOK
  <2>1. /\ Tables \in SUBSET Tables /\ {"old", "folder"} \in SUBSET Objects
        /\ {"old"} \in SUBSET Documents /\ BillingRows \subseteq BillingRows
    BY DEF Objects, Documents
  <2>2. 0 \in 0..MaxReceives
    BY ErasureAssumption
  <2> QED BY <1>1, <2>1, <2>2, IdleTypes DEF Init, TypeOK
<1> QED BY <1>1, TypesKept, PTL DEF Spec

-----------------------------------------------------------------------------
(* The invariant *)

\* Locked for longer than a job lives.
Settled(c) == lock[c] # "active" /\ c \notin fresh

\* Nothing is left but the object of a document that was in flight.
Clean(c) == rows[c] = {} /\ c \notin claims /\ objects[c] \subseteq {"new"}

LockInv ==
    /\ \A c \in Companies : c \notin item => lock[c] = "erased"
    /\ \A c \in Companies : lock[c] = "erased" => c \notin fresh /\ Clean(c)
    /\ \A j \in Jobs : Working(j) => lock[JobOf[j]] = "active" \/ JobOf[j] \in fresh

IndexInv ==
    /\ Reachable
    /\ \A c \in Companies : "old" \in rows[c] => "old" \in named[c]

\* What the stages a delivery has been through leave of a company.
StageInv(r, c) ==
    /\ r.stage > 1 => c \notin claims
    /\ r.stage > 2 /\ r.settled => "config" \notin rows[c]
    /\ r.stage > 3 => /\ rows[c] \cap Documents \subseteq r.page
                      /\ "old" \in objects[c] => "old" \in r.keys
    /\ r.stage > 4 => "old" \notin objects[c]
    /\ r.stage > 5 => rows[c] \cap Documents = {}
    /\ r.stage > 6 /\ r.settled => "distributions" \notin rows[c]

One(left) == CHOOSE c \in left : TRUE

\* What a delivery has done.  Only one that saw every company settled ends.
Progress(r) ==
    /\ r.pc # "idle" => r.left \subseteq r.todo /\ item \subseteq r.todo
    /\ r.pc = "lock" => /\ r.stage = 1
                        /\ r.settled => \A c \in r.todo \ r.left : Settled(c)
    /\ r.pc = "purge" =>
          /\ r.settled => \A c \in r.todo : Settled(c) /\ (c \notin r.left => Clean(c))
          /\ r.left # {} => StageInv(r, One(r.left))
    /\ r.pc \in {"tombstone", "delete"} =>
          /\ \A c \in r.todo : Settled(c) /\ Clean(c)
          /\ \A c \in r.todo \ r.left : c \notin item
    /\ r.pc = "delete" => r.left # {} /\ lock[One(r.left)] = "erased"
    /\ r.pc \in {"billing", "person", "ack"} => item = {}
    /\ r.pc \in {"person", "ack"} => billing = {}
    /\ r.pc = "ack" => ~person

ErasureInv ==
    /\ LockInv /\ IndexInv /\ AckedMeansDone
    /\ \A p \in Consumers : Progress(purge[p])

-----------------------------------------------------------------------------
(* What no step undoes *)

Shrinks ==
    /\ item' \subseteq item /\ claims' \subseteq claims /\ billing' \subseteq billing
    /\ person' => person
    /\ \A c \in Companies :
          /\ Settled(c) => Settled(c)' /\ rows'[c] \subseteq rows[c] /\ objects'[c] \subseteq objects[c]
          /\ rows'[c] \cap Documents \subseteq rows[c]
          /\ "old" \in objects'[c] => "old" \in objects[c]
          /\ lock[c] = "erased" => lock'[c] = "erased"

\* A job writes to the company it works on, and only that one.
LEMMA JobWrites ==
    ASSUME TypeOK, NEW j \in Jobs, JobStep(j)
    PROVE  /\ JobUnchanged
           /\ \A c \in Companies :
                 \/ rows'[c] = rows[c] /\ objects'[c] = objects[c] /\ named'[c] = named[c]
                 \/ /\ Working(j) /\ c = JobOf[j]
                    /\ rows[c] \subseteq rows'[c] /\ named[c] \subseteq named'[c]
                    /\ objects[c] \subseteq objects'[c]
                    /\ rows'[c] \subseteq rows[c] \cup {"config", "distributions"}
                    /\ objects'[c] \subseteq objects[c] \cup {"new", "folder"}
           /\ \A i \in Jobs :
                 Working(i)' => Working(i) \/ (i = j /\ lock[JobOf[j]] = "active")
<1>1. JobOf[j] \in Companies
  BY ErasureAssumption
<1>2. /\ rows \in [Companies -> SUBSET Tables] /\ objects \in [Companies -> SUBSET Objects]
      /\ named \in [Companies -> SUBSET Documents]
      /\ job \in [Jobs -> {"waiting", "working", "uploaded", "failed", "done", "dropped"}]
  BY DEF TypeOK
<1>3. CASE StartJob(j)
  BY <1>2, <1>3 DEF StartJob, JobUnchanged, Stopped, Working
<1>4. CASE UploadXML(j)
  BY <1>1, <1>2, <1>4 DEF UploadXML, JobUnchanged, Working
<1>5. CASE WriteStatus(j)
  BY <1>1, <1>2, <1>5 DEF WriteStatus, JobUnchanged, Working
<1>6. CASE ClaimSlot(j)
  BY <1>1, <1>2, <1>6 DEF ClaimSlot, JobUnchanged, Working
<1>7. CASE PutRecords(j)
  BY <1>1, <1>2, <1>7 DEF PutRecords, JobUnchanged, Working
<1>8. CASE JobFails(j)
  BY <1>2, <1>8 DEF JobFails, JobUnchanged, Working
<1> QED BY <1>3, <1>4, <1>5, <1>6, <1>7, <1>8 DEF JobStep

LEMMA JobShrinks ==
    ASSUME TypeOK, LockInv, NEW j \in Jobs, JobStep(j)
    PROVE  Shrinks
<1>1. JobUnchanged
  BY JobWrites
<1>2. ASSUME NEW c \in Companies
      PROVE  /\ Settled(c) => Settled(c)' /\ rows'[c] \subseteq rows[c] /\ objects'[c] \subseteq objects[c]
             /\ rows'[c] \cap Documents \subseteq rows[c]
             /\ "old" \in objects'[c] => "old" \in objects[c]
             /\ lock[c] = "erased" => lock'[c] = "erased"
  <2>1. Settled(c) => ~(Working(j) /\ c = JobOf[j])
    BY DEF LockInv, Settled
  <2>2. lock' = lock /\ fresh' = fresh
    BY <1>1 DEF JobUnchanged
  <2>3. \/ rows'[c] = rows[c] /\ objects'[c] = objects[c]
        \/ /\ Working(j) /\ c = JobOf[j]
           /\ rows'[c] \subseteq rows[c] \cup {"config", "distributions"}
           /\ objects'[c] \subseteq objects[c] \cup {"new", "folder"}
    BY JobWrites
  <2> QED BY <2>1, <2>2, <2>3 DEF Settled, Documents
<1> QED BY <1>1, <1>2 DEF Shrinks, JobUnchanged

\* A step that only takes away, and locks.
LEMMA TakesAway ==
    ASSUME item' \subseteq item, claims' \subseteq claims, billing' \subseteq billing,
           person' => person,
           \A c \in Companies :
              /\ rows'[c] \subseteq rows[c] /\ objects'[c] \subseteq objects[c]
              /\ Settled(c) => Settled(c)'
              /\ lock[c] = "erased" => lock'[c] = "erased"
    PROVE  Shrinks
BY DEF Shrinks

LEMMA PurgeShrinks ==
    ASSUME TypeOK, NEW p \in Consumers, Receive(p) \/ PurgeStep(p) \/ PurgeFails(p)
    PROVE  Shrinks
<1> USE DEF data
<1>1. CASE UNCHANGED <<lock, fresh, rows, objects>>
           /\ item' \subseteq item /\ claims' \subseteq claims /\ billing' \subseteq billing
           /\ (person' => person)
  BY <1>1, TakesAway DEF Settled
<1>2. ASSUME NEW c \in Companies, LockCompany(p, c) PROVE Shrinks
  <2>1. UNCHANGED <<item, rows, objects, claims, billing, person>>
    BY <1>2 DEF LockCompany
  <2>2. ASSUME NEW d \in Companies
        PROVE  (Settled(d) => Settled(d)') /\ (lock[d] = "erased" => lock'[d] = "erased")
    BY <1>2 DEF LockCompany, Settled, TypeOK
  <2> QED BY <2>1, <2>2, TakesAway
<1>3. CASE PurgeStage(p)
  <2>1. PICK c, n : c = Current(p) /\ n = purge[p].stage
    OBVIOUS
  <2>2. /\ c \in Companies /\ claims' \subseteq claims
        /\ rows' = [rows EXCEPT ![c] = rows[c] \ DeletedRows(p, Stages[n])]
        /\ objects' = [objects EXCEPT ![c] = objects[c] \ DeletedObjects(p, Stages[n])]
    BY <1>3, <2>1, PurgeStageMoves
  <2>3. \A d \in Companies : rows'[d] \subseteq rows[d] /\ objects'[d] \subseteq objects[d]
    BY <2>2 DEF TypeOK
  <2>4. UNCHANGED <<lock, fresh, item, billing, person>>
    BY <1>3 DEF PurgeStage
  <2> QED BY <2>2, <2>3, <2>4, TakesAway DEF Settled
<1>4. CASE Tombstone(p)
  <2>1. UNCHANGED <<fresh, item, rows, objects, claims, billing, person>>
        /\ lock' = [lock EXCEPT ![Current(p)] = "erased"]
    BY <1>4 DEF Tombstone
  <2>2. ASSUME NEW d \in Companies
        PROVE  (Settled(d) => Settled(d)') /\ (lock[d] = "erased" => lock'[d] = "erased")
    BY <2>1 DEF Settled, TypeOK
  <2> QED BY <2>1, <2>2, TakesAway
<1> QED
  BY <1>1, <1>2, <1>3, <1>4 DEF PurgeStep, Receive, Locked, Purged, DeleteItem, CompaniesErased,
     EraseOrganizationBilling, PurgePerson, Ack, PurgeFails

LEMMA WindowShrinks ==
    ASSUME TypeOK, NEW c \in Companies, WindowPasses(c)
    PROVE  Shrinks
<1>1. UNCHANGED <<lock, item, rows, objects, claims, billing, person>> /\ fresh' = fresh \ {c}
  BY DEF WindowPasses, data
<1> QED BY <1>1, TakesAway DEF Settled

LEMMA ProgressStays ==
    ASSUME TypeOK, NEW r \in PurgeRecords, Progress(r), Shrinks
    PROVE  Progress(r)'
<1>1. r.todo \subseteq Companies /\ r.left \subseteq Companies
  BY DEF PurgeRecords
<1>2. ASSUME NEW c \in Companies, StageInv(r, c),
             r.settled => Settled(c)
      PROVE  StageInv(r, c)'
  BY <1>2 DEF StageInv, Shrinks
<1>3. r.left # {} => One(r.left) \in r.left
  BY DEF One
<1>4. \A c \in Companies : Settled(c) => Settled(c)' /\ (Clean(c) => Clean(c)')
  BY DEF Shrinks, Clean
<1>5. r.pc = "purge" => /\ r.settled => \A c \in r.todo : Settled(c)' /\ (c \notin r.left => Clean(c)')
                        /\ r.left # {} => StageInv(r, One(r.left))'
  BY <1>1, <1>2, <1>3, <1>4 DEF Progress
<1>6. r.pc # "idle" => r.left \subseteq r.todo /\ item' \subseteq r.todo
  BY DEF Progress, Shrinks
<1>7. r.pc = "lock" => /\ r.stage = 1
                       /\ r.settled => \A c \in r.todo \ r.left : Settled(c)'
  BY <1>1, <1>4 DEF Progress
<1>8. r.pc \in {"tombstone", "delete"} =>
          /\ \A c \in r.todo : Settled(c)' /\ Clean(c)'
          /\ \A c \in r.todo \ r.left : c \notin item'
  BY <1>1, <1>4 DEF Progress, Shrinks
<1>9. /\ r.pc = "delete" => r.left # {} /\ lock'[One(r.left)] = "erased"
      /\ r.pc \in {"billing", "person", "ack"} => item' = {}
      /\ r.pc \in {"person", "ack"} => billing' = {}
      /\ r.pc = "ack" => ~person'
  BY <1>1, <1>3 DEF Progress, Shrinks
<1> QED BY <1>5, <1>6, <1>7, <1>8, <1>9 DEF Progress

-----------------------------------------------------------------------------
(* The invariant is kept *)

LEMMA LockStays ==
    ASSUME LockInv, Shrinks,
           \A c \in Companies : c \notin item' => c \notin item \/ lock[c] = "erased",
           \A c \in Companies :
              lock'[c] = "erased" => lock[c] = "erased" \/ (Settled(c) /\ Clean(c)),
           \A j \in Jobs : Working(j)' => lock'[JobOf[j]] = "active" \/ JobOf[j] \in fresh'
    PROVE  LockInv'
<1>1. ASSUME NEW c \in Companies, lock'[c] = "erased" PROVE c \notin fresh' /\ Clean(c)'
  <2>1. Settled(c) /\ Clean(c)
    BY <1>1 DEF LockInv, Settled
  <2> QED BY <2>1 DEF Shrinks, Settled, Clean
<1>2. ASSUME NEW c \in Companies, c \notin item' PROVE lock'[c] = "erased"
  BY <1>2 DEF LockInv, Shrinks
<1> QED BY <1>1, <1>2 DEF LockInv

\* The index is unchanged, but for items of companies already erased.
LEMMA IndexStays ==
    ASSUME LockInv, IndexInv, UNCHANGED <<rows, objects, named, claims>>, item' \subseteq item,
           \A c \in Companies : c \notin item' => c \notin item \/ lock[c] = "erased"
    PROVE  IndexInv'
BY DEF IndexInv, Reachable, LockInv, Clean

LEMMA ProgressKept ==
    ASSUME TypeOK, ErasureInv, Shrinks, NEW p \in Consumers, NEW r \in PurgeRecords,
           Step(p, r), Progress(r)'
    PROVE  \A q \in Consumers : Progress(purge[q])'
<1> SUFFICES ASSUME NEW q \in Consumers PROVE Progress(purge[q])'
  OBVIOUS
<1>1. PICK s \in PurgeRecords : s = purge'[q] /\ Progress(s)'
  <2>1. CASE q = p
    BY <2>1, StepMoves
  <2>2. CASE q # p
    <3>1. purge'[q] = purge[q] /\ purge[q] \in PurgeRecords
      BY <2>2, StepMoves, PurgeTypes
    <3>2. PICK s \in PurgeRecords : s = purge[q]
      BY <3>1
    <3>3. Progress(s)
      BY <3>2 DEF ErasureInv
    <3>4. Progress(s)'
      BY <3>3, ProgressStays
    <3> QED BY <3>1, <3>2, <3>4
  <2> QED BY <2>1, <2>2
<1> QED BY <1>1 DEF Progress, StageInv, Settled, Clean

LEMMA DeliveryKeeps ==
    ASSUME TypeOK, ErasureInv, Shrinks, NEW p \in Consumers, NEW r \in PurgeRecords,
           Step(p, r), Progress(r)', IndexInv', job' = job,
           \A c \in Companies : c \notin item' => c \notin item \/ lock[c] = "erased",
           \A c \in Companies :
              /\ lock'[c] = "erased" => lock[c] = "erased" \/ (Settled(c) /\ Clean(c))
              /\ Settled(c)' => Settled(c),
           msg' = "acked" => msg = "acked" \/ (item' = {} /\ billing' = {} /\ ~person')
    PROVE  ErasureInv'
<1>1. \A j \in Jobs : Working(j)' => lock'[JobOf[j]] = "active" \/ JobOf[j] \in fresh'
  <2> SUFFICES ASSUME NEW j \in Jobs, Working(j)'
               PROVE  lock'[JobOf[j]] = "active" \/ JobOf[j] \in fresh'
    OBVIOUS
  <2>1. Working(j) /\ JobOf[j] \in Companies
    BY ErasureAssumption DEF Working
  <2>2. ~Settled(JobOf[j])
    BY <2>1 DEF ErasureInv, LockInv, Settled
  <2> QED BY <2>1, <2>2 DEF Settled
<1>2. LockInv'
  BY <1>1, LockStays DEF ErasureInv
<1>3. \A q \in Consumers : Progress(purge[q])'
  BY ProgressKept
<1>4. AckedMeansDone'
  BY <1>2 DEF ErasureInv, AckedMeansDone, Shrinks, LockInv
<1> QED BY <1>2, <1>3, <1>4 DEF ErasureInv

\* A step that moves the delivery and nothing else of the organization.
LEMMA OnlyMoves ==
    ASSUME TypeOK, ErasureInv, NEW p \in Consumers, NEW r \in PurgeRecords,
           Step(p, r), Progress(r), UNCHANGED <<lock, fresh, data, job>>,
           msg' = "acked" => msg = "acked" \/ (item = {} /\ billing = {} /\ ~person)
    PROVE  ErasureInv'
<1> USE DEF data
<1>1. Shrinks
  BY TakesAway DEF Settled
<1>2. IndexInv'
  BY IndexStays DEF ErasureInv
<1>3. Progress(r)'
  BY <1>1, ProgressStays
<1> QED BY <1>1, <1>2, <1>3, DeliveryKeeps DEF Settled

LEMMA IdleProgress ==
    ASSUME NEW r, r.pc = "idle"
    PROVE  Progress(r)
BY DEF Progress

LEMMA JobKeeps ==
    ASSUME TypeOK, ErasureInv, NEW j \in Jobs, JobStep(j)
    PROVE  ErasureInv'
<1>1. JobUnchanged /\ Shrinks
  BY JobWrites, JobShrinks DEF ErasureInv
<1>2. UNCHANGED <<lock, fresh, item, claims, billing, person, msg, purge>>
  BY <1>1 DEF JobUnchanged
<1>3. LockInv'
  <2>1. \A i \in Jobs : Working(i)' => lock'[JobOf[i]] = "active" \/ JobOf[i] \in fresh'
    BY <1>2, JobWrites DEF ErasureInv, LockInv
  <2> QED BY <1>1, <1>2, <2>1, LockStays DEF ErasureInv
<1>4. IndexInv'
  <2> SUFFICES ASSUME NEW c \in Companies
               PROVE  /\ c \in claims' => c \in item' /\ "config" \in rows'[c]
                      /\ "old" \in objects'[c] => "old" \in rows'[c]
                      /\ rows'[c] # {} => c \in item'
                      /\ "old" \in rows'[c] => "old" \in named'[c]
    BY DEF IndexInv, Reachable
  <2>1. /\ c \in claims => c \in item /\ "config" \in rows[c]
        /\ "old" \in objects[c] => "old" \in rows[c]
        /\ rows[c] # {} => c \in item
        /\ "old" \in rows[c] => "old" \in named[c]
    BY DEF ErasureInv, IndexInv, Reachable
  <2>2. CASE rows'[c] = rows[c] /\ objects'[c] = objects[c] /\ named'[c] = named[c]
    BY <1>2, <2>1, <2>2
  <2>3. CASE /\ Working(j) /\ c = JobOf[j]
             /\ rows[c] \subseteq rows'[c] /\ named[c] \subseteq named'[c]
             /\ rows'[c] \subseteq rows[c] \cup {"config", "distributions"}
             /\ objects'[c] \subseteq objects[c] \cup {"new", "folder"}
    <3>1. c \in item
      BY <2>3 DEF ErasureInv, LockInv
    <3> QED BY <1>2, <2>1, <2>3, <3>1
  <2> QED BY <2>2, <2>3, JobWrites
<1>5. \A q \in Consumers : Progress(purge[q])'
  <2> SUFFICES ASSUME NEW q \in Consumers PROVE Progress(purge[q])'
    OBVIOUS
  <2>1. PICK s \in PurgeRecords : s = purge[q]
    BY PurgeTypes
  <2>2. Progress(s)
    BY <2>1 DEF ErasureInv
  <2>3. Progress(s)' /\ s = purge'[q]
    BY <1>1, <1>2, <2>1, <2>2, ProgressStays
  <2> QED BY <2>3 DEF Progress, StageInv, Settled, Clean
<1>6. AckedMeansDone'
  BY <1>2 DEF ErasureInv, AckedMeansDone
<1> QED BY <1>3, <1>4, <1>5, <1>6 DEF ErasureInv

LEMMA OutsideKeeps ==
    ASSUME TypeOK, ErasureInv, (\E c \in Companies : WindowPasses(c)) \/ Redeliver
    PROVE  ErasureInv'
<1>1. /\ UNCHANGED <<lock, data, purge, job>> /\ (msg' = "acked" => msg = "acked")
      /\ Shrinks
      /\ \A j \in Jobs : Working(j) => lock'[JobOf[j]] = "active" \/ JobOf[j] \in fresh'
  <2>1. ASSUME NEW c \in Companies, WindowPasses(c)
        PROVE  /\ UNCHANGED <<lock, data, purge, job>> /\ (msg' = "acked" => msg = "acked")
               /\ Shrinks
               /\ \A j \in Jobs : Working(j) => lock'[JobOf[j]] = "active" \/ JobOf[j] \in fresh'
    BY <2>1, WindowShrinks DEF WindowPasses, data, ErasureInv, LockInv
  <2>2. CASE Redeliver
    <3>1. UNCHANGED <<lock, fresh, data, purge, job>> /\ (msg' = "acked" => msg = "acked")
      BY <2>2 DEF Redeliver, data
    <3>2. Shrinks
      BY <3>1, TakesAway DEF data, Settled
    <3> QED BY <3>1, <3>2 DEF ErasureInv, LockInv
  <2> QED BY <2>1, <2>2
<1>2. LockInv'
  <2>1. \A j \in Jobs : Working(j)' => Working(j)
    BY <1>1 DEF Working
  <2> QED BY <1>1, <2>1, LockStays DEF ErasureInv, data
<1>3. IndexInv'
  BY <1>1, IndexStays DEF ErasureInv, data
<1>4. \A q \in Consumers : Progress(purge[q])'
  <2> SUFFICES ASSUME NEW q \in Consumers PROVE Progress(purge[q])'
    OBVIOUS
  <2>1. PICK s \in PurgeRecords : s = purge[q]
    BY PurgeTypes
  <2>2. Progress(s)
    BY <2>1 DEF ErasureInv
  <2>3. Progress(s)' /\ s = purge'[q]
    BY <1>1, <2>1, <2>2, ProgressStays
  <2> QED BY <2>3 DEF Progress, StageInv, Settled, Clean
<1>5. AckedMeansDone'
  BY <1>1 DEF ErasureInv, AckedMeansDone, data
<1> QED BY <1>2, <1>3, <1>4, <1>5 DEF ErasureInv

\* The stage a delivery runs leaves of its company what the next one needs.
LEMMA StageDone ==
    ASSUME TypeOK, ErasureInv, NEW p \in Consumers, PurgeStage(p),
           NEW c, c = Current(p), NEW n, n = purge[p].stage,
           NEW r \in PurgeRecords, r.stage = n + 1, n # 7, r.settled = purge[p].settled,
           n = 3 => r.page = rows[c] \cap Documents /\ r.keys = r.page \cap named[c],
           n # 3 => r.page = purge[p].page /\ r.keys = purge[p].keys
    PROVE  StageInv(r, c)'
<1>1. /\ c \in purge[p].left /\ c \in Companies /\ n \in 1..7
      /\ claims' = IF n = 1 /\ c \in item /\ "config" \in rows[c] THEN claims \ {c} ELSE claims
      /\ rows' = [rows EXCEPT ![c] = rows[c] \ DeletedRows(p, Stages[n])]
      /\ objects' = [objects EXCEPT ![c] = objects[c] \ DeletedObjects(p, Stages[n])]
  BY PurgeStageMoves
<1>2. /\ rows'[c] = rows[c] \ DeletedRows(p, Stages[n])
      /\ objects'[c] = objects[c] \ DeletedObjects(p, Stages[n])
  BY <1>1 DEF TypeOK
<1>3. StageInv(purge[p], c) /\ One(purge[p].left) = Current(p)
  <2>1. One(purge[p].left) = Current(p)
    BY DEF One, Current
  <2> QED BY <1>1, <2>1 DEF ErasureInv, Progress, PurgeStage, At
<1>4. /\ c \in claims => c \in item /\ "config" \in rows[c]
      /\ "old" \in objects[c] => "old" \in rows[c]
      /\ "old" \in rows[c] => "old" \in named[c]
  BY <1>1 DEF ErasureInv, IndexInv, Reachable
<1>5. /\ n = 2 => rows'[c] = rows[c] \ {"config"}
      /\ n = 5 => rows'[c] = rows[c] \ purge[p].page
      /\ n = 6 => rows'[c] = rows[c] \ {"distributions"}
      /\ n = 3 => rows'[c] = rows[c]
      /\ rows'[c] \subseteq rows[c] /\ objects'[c] \subseteq objects[c]
      /\ n = 4 => objects'[c] = objects[c] \ purge[p].keys
  <2>1. /\ n = 2 => DeletedRows(p, Stages[n]) = {"config"}
        /\ n = 5 => DeletedRows(p, Stages[n]) = purge[p].page
        /\ n = 6 => DeletedRows(p, Stages[n]) = {"distributions"}
        /\ n = 3 => DeletedRows(p, Stages[n]) = {}
        /\ n = 4 => DeletedObjects(p, Stages[n]) = purge[p].keys
    BY <1>1, DeletedAre
  <2> QED BY <1>2, <2>1
<1>6. r.stage > 1 => c \notin claims'
  BY <1>1, <1>3, <1>4 DEF StageInv
<1>7. r.stage > 2 /\ r.settled => "config" \notin rows'[c]
  BY <1>1, <1>3, <1>5 DEF StageInv
<1>8. r.stage > 3 => /\ rows'[c] \cap Documents \subseteq r.page
                     /\ "old" \in objects'[c] => "old" \in r.keys
  <2>1. CASE n = 3
    BY <1>1, <1>4, <1>5, <2>1 DEF Documents
  <2>2. CASE n > 3
    BY <1>1, <1>3, <1>5, <2>2 DEF StageInv
  <2> QED BY <1>1, <2>1, <2>2
<1>9. r.stage > 4 => "old" \notin objects'[c]
  BY <1>1, <1>3, <1>5 DEF StageInv
<1>10. r.stage > 5 => rows'[c] \cap Documents = {}
  BY <1>1, <1>3, <1>5 DEF StageInv
<1>11. r.stage > 6 /\ r.settled => "distributions" \notin rows'[c]
  BY <1>1, <1>3, <1>5 DEF StageInv
<1> QED BY <1>6, <1>7, <1>8, <1>9, <1>10, <1>11 DEF StageInv

\* The last stage of a company that was settled leaves it clean.
LEMMA LastStageCleans ==
    ASSUME TypeOK, ErasureInv, NEW p \in Consumers, PurgeStage(p),
           NEW c, c = Current(p), purge[p].stage = 7, purge[p].settled
    PROVE  Clean(c)'
<1>1. /\ c \in purge[p].left /\ c \in Companies /\ claims' = claims
      /\ rows' = [rows EXCEPT ![c] = rows[c] \ DeletedRows(p, Stages[7])]
      /\ objects' = [objects EXCEPT ![c] = objects[c] \ DeletedObjects(p, Stages[7])]
  BY PurgeStageMoves
<1>2. rows'[c] = rows[c] /\ objects'[c] = objects[c] \ {"folder"}
  BY <1>1, DeletedAre DEF TypeOK
<1>3. StageInv(purge[p], c)
  <2>1. One(purge[p].left) = Current(p)
    BY DEF One, Current
  <2> QED BY <1>1, <2>1 DEF ErasureInv, Progress, PurgeStage, At
<1>4. /\ c \notin claims /\ "config" \notin rows[c] /\ "old" \notin objects[c]
      /\ rows[c] \cap Documents = {} /\ "distributions" \notin rows[c]
  BY <1>3 DEF StageInv
<1>5. rows[c] \subseteq Tables /\ objects[c] \subseteq Objects
  BY <1>1 DEF TypeOK
<1> QED BY <1>1, <1>2, <1>4, <1>5 DEF Clean, Tables, Objects, Documents

LEMMA StageKeepsIndex ==
    ASSUME TypeOK, ErasureInv, NEW p \in Consumers, PurgeStage(p)
    PROVE  IndexInv'
<1>1. PICK c, n : c = Current(p) /\ n = purge[p].stage
  OBVIOUS
<1>2. /\ c \in purge[p].left /\ c \in Companies /\ n \in 1..7 /\ claims' \subseteq claims
      /\ rows' = [rows EXCEPT ![c] = rows[c] \ DeletedRows(p, Stages[n])]
      /\ objects' = [objects EXCEPT ![c] = objects[c] \ DeletedObjects(p, Stages[n])]
      /\ named' = [named EXCEPT ![c] = named[c] \ DeletedRows(p, Stages[n])]
      /\ item' = item
  BY <1>1, PurgeStageMoves DEF PurgeStage
<1>3. StageInv(purge[p], c)
  <2>1. One(purge[p].left) = Current(p)
    BY DEF One, Current
  <2> QED BY <1>1, <1>2, <2>1 DEF ErasureInv, Progress, PurgeStage, At
<1> SUFFICES ASSUME NEW d \in Companies
             PROVE  /\ d \in claims' => d \in item' /\ "config" \in rows'[d]
                    /\ "old" \in objects'[d] => "old" \in rows'[d]
                    /\ rows'[d] # {} => d \in item'
                    /\ "old" \in rows'[d] => "old" \in named'[d]
  BY DEF IndexInv, Reachable
<1>4. /\ d \in claims => d \in item /\ "config" \in rows[d]
      /\ "old" \in objects[d] => "old" \in rows[d]
      /\ rows[d] # {} => d \in item
      /\ "old" \in rows[d] => "old" \in named[d]
  BY DEF ErasureInv, IndexInv, Reachable
<1>5. CASE d # c
  BY <1>2, <1>4, <1>5 DEF TypeOK
<1>6. CASE d = c
  <2>1. /\ rows'[c] = rows[c] \ DeletedRows(p, Stages[n])
        /\ objects'[c] = objects[c] \ DeletedObjects(p, Stages[n])
        /\ named'[c] = named[c] \ DeletedRows(p, Stages[n])
    BY <1>2 DEF TypeOK
  <2>2. /\ n # 2 => "config" \notin DeletedRows(p, Stages[n])
        /\ n # 5 => "old" \notin DeletedRows(p, Stages[n])
    BY <1>2, DeletedAre, PurgeTypes DEF Documents
  <2>3. (n = 2 => c \notin claims) /\ (n = 5 => "old" \notin objects[c])
    BY <1>1, <1>3 DEF StageInv
  <2> QED BY <1>2, <1>4, <1>6, <2>1, <2>2, <2>3
<1> QED BY <1>5, <1>6

LEMMA PurgeStageKeeps ==
    ASSUME TypeOK, ErasureInv, NEW p \in Consumers, PurgeStage(p)
    PROVE  ErasureInv'
<1>1. PICK c, n : c = Current(p) /\ n = purge[p].stage
  OBVIOUS
<1>2. PICK r \in PurgeRecords :
         /\ Step(p, r) /\ r.pc = "purge" /\ r.todo = purge[p].todo
         /\ r.settled = purge[p].settled
         /\ n = 7 => r.stage = 1 /\ r.left = purge[p].left \ {c}
         /\ n # 7 => r.stage = n + 1 /\ r.left = purge[p].left
         /\ n = 3 => r.page = rows[c] \cap Documents /\ r.keys = r.page \cap named[c]
         /\ n # 3 => r.page = purge[p].page /\ r.keys = purge[p].keys
  BY <1>1, PurgeStageMoves
<1>3. Shrinks
  BY PurgeShrinks DEF PurgeStep
<1>4. PICK s \in PurgeRecords : s = purge[p] /\ Progress(s)'
  <2>1. PICK s \in PurgeRecords : s = purge[p]
    BY PurgeTypes
  <2>2. Progress(s)
    BY <2>1 DEF ErasureInv
  <2> QED BY <1>3, <2>1, <2>2, ProgressStays
<1>5. s.pc = "purge" /\ c = One(s.left) /\ c \in s.left
  BY <1>1, <1>4, PurgeStageMoves DEF PurgeStage, At, Current, One
<1>6. ASSUME n = 7 PROVE Progress(r)'
  <2>1. r.settled => Clean(c)'
    BY <1>1, <1>2, <1>6, LastStageCleans
  <2>2. /\ r.left \subseteq r.todo /\ item' \subseteq r.todo
        /\ r.settled => \A d \in r.todo : Settled(d)' /\ (d \notin r.left => Clean(d)')
    BY <1>2, <1>4, <1>5, <1>6, <2>1 DEF Progress
  <2>3. StageInv(r, One(r.left))'
    BY <1>2, <1>6 DEF StageInv
  <2> QED BY <1>2, <2>2, <2>3 DEF Progress
<1>7. ASSUME n # 7 PROVE Progress(r)'
  <2>1. StageInv(r, c)'
    BY <1>1, <1>2, <1>7, StageDone
  <2>2. /\ r.left \subseteq r.todo /\ item' \subseteq r.todo
        /\ r.settled => \A d \in r.todo : Settled(d)' /\ (d \notin r.left => Clean(d)')
    BY <1>2, <1>4, <1>5, <1>7 DEF Progress
  <2>3. One(r.left) = c
    BY <1>2, <1>4, <1>5, <1>7
  <2> QED BY <1>2, <2>1, <2>2, <2>3 DEF Progress
<1>8. UNCHANGED <<lock, fresh, item, msg, job>>
  BY DEF PurgeStage
<1> QED
  BY <1>2, <1>3, <1>6, <1>7, <1>8, StageKeepsIndex, DeliveryKeeps DEF Settled

LEMMA TombstoneKeeps ==
    ASSUME TypeOK, ErasureInv, NEW p \in Consumers, Tombstone(p) \/ DeleteItem(p)
    PROVE  ErasureInv'
<1>1. Shrinks
  BY PurgeShrinks DEF PurgeStep
<1>2. PICK s \in PurgeRecords : s = purge[p] /\ Progress(s) /\ Progress(s)'
  <2>1. PICK s \in PurgeRecords : s = purge[p]
    BY PurgeTypes
  <2>2. Progress(s)
    BY <2>1 DEF ErasureInv
  <2> QED BY <1>1, <2>1, <2>2, ProgressStays
<1>3. PICK c : c = Current(p)
  OBVIOUS
<1>4. s.left # {} => c = One(s.left) /\ c \in s.left /\ c \in Companies
  BY <1>2, <1>3, CurrentIsLeft DEF Current, One
<1>5. ASSUME Tombstone(p) PROVE ErasureInv'
  <2>1. /\ s.pc = "tombstone" /\ s.left # {} /\ "delete" \in PCs
        /\ lock' = [lock EXCEPT ![c] = "erased"]
        /\ UNCHANGED <<fresh, item, rows, objects, named, claims, billing, person, msg, job>>
    BY <1>2, <1>3, <1>5 DEF Tombstone, At, data, PCs
  <2>2. PICK r \in PurgeRecords :
           /\ Step(p, r) /\ r.pc = "delete" /\ r.todo = s.todo /\ r.left = s.left
    BY <1>2, <1>5, <2>1, GoesOn DEF Tombstone
  <2>3. lock'[c] = "erased" /\ \A d \in Companies : d # c => lock'[d] = lock[d]
    BY <1>4, <2>1 DEF TypeOK
  <2>4. Settled(c) /\ Clean(c)
    BY <1>4, <2>1, <1>2 DEF Progress
  <2>5. Progress(r)'
    BY <1>2, <1>4, <2>1, <2>2, <2>3 DEF Progress
  <2>6. IndexInv'
    BY <2>1, IndexStays DEF ErasureInv
  <2>7. \A d \in Companies :
           /\ lock'[d] = "erased" => lock[d] = "erased" \/ (Settled(d) /\ Clean(d))
           /\ Settled(d)' => Settled(d)
    BY <2>1, <2>3, <2>4 DEF Settled
  <2> QED BY <1>1, <2>1, <2>2, <2>5, <2>6, <2>7, DeliveryKeeps
<1>6. ASSUME DeleteItem(p) PROVE ErasureInv'
  <2>1. /\ s.pc = "delete" /\ "tombstone" \in PCs /\ item' = item \ {c}
        /\ UNCHANGED <<lock, fresh, rows, objects, named, claims, billing, person, msg, job>>
        /\ s.left \ {c} \in SUBSET Companies
        /\ Step(p, [purge[p] EXCEPT !.pc = "tombstone", !.left = s.left \ {c}])
    BY <1>2, <1>3, <1>6, PurgeTypes DEF DeleteItem, At, PCs
  <2>2. PICK r \in PurgeRecords :
           /\ Step(p, r) /\ r.pc = "tombstone" /\ r.todo = s.todo /\ r.left = s.left \ {c}
    <3>1. PICK left \in SUBSET Companies : left = s.left \ {c}
      BY <2>1
    <3>2. PICK r : r = [purge[p] EXCEPT !.pc = "tombstone", !.left = left]
      OBVIOUS
    <3>3. Step(p, r)
      BY <2>1, <3>1, <3>2
    <3>4. /\ r \in PurgeRecords /\ r.pc = "tombstone" /\ r.todo = purge[p].todo
          /\ r.left = left
      BY <3>2, PurgeTypes DEF PurgeRecords
    <3> QED BY <1>2, <3>1, <3>3, <3>4
  <2>3. s.left # {} /\ lock[c] = "erased"
    BY <1>2, <1>4, <2>1 DEF Progress
  <2>4. Progress(r)'
    BY <1>2, <1>4, <2>1, <2>2, <2>3 DEF Progress
  <2>5. \A d \in Companies : d \notin item' => d \notin item \/ lock[d] = "erased"
    BY <2>1, <2>3
  <2>6. IndexInv'
    BY <2>1, <2>5, IndexStays DEF ErasureInv
  <2> QED BY <1>1, <2>1, <2>2, <2>4, <2>5, <2>6, DeliveryKeeps DEF Settled
<1> QED BY <1>5, <1>6

LEMMA LastStepsKeep ==
    ASSUME TypeOK, ErasureInv, NEW p \in Consumers,
           \/ CompaniesErased(p) \/ EraseOrganizationBilling(p)
           \/ PurgePerson(p) \/ Ack(p)
    PROVE  ErasureInv'
<1>1. Shrinks
  BY PurgeShrinks DEF PurgeStep
<1>2. PICK s \in PurgeRecords : s = purge[p] /\ Progress(s) /\ Progress(s)'
  <2>1. PICK s \in PurgeRecords : s = purge[p]
    BY PurgeTypes
  <2>2. Progress(s)
    BY <2>1 DEF ErasureInv
  <2> QED BY <1>1, <2>1, <2>2, ProgressStays
<1>3. CASE CompaniesErased(p)
  <2>1. /\ s.pc = "tombstone" /\ s.left = {} /\ "billing" \in PCs
        /\ UNCHANGED <<lock, fresh, data, msg, job>>
    BY <1>2, <1>3 DEF CompaniesErased, At, PCs
  <2>2. PICK r \in PurgeRecords :
           /\ Step(p, r) /\ r.pc = "billing" /\ r.todo = s.todo /\ r.left = s.left
    BY <1>2, <1>3, <2>1, GoesOn DEF CompaniesErased
  <2>3. Progress(r)
    BY <1>2, <2>1, <2>2 DEF Progress
  <2> QED BY <2>1, <2>2, <2>3, OnlyMoves
<1>4. CASE EraseOrganizationBilling(p)
  <2>1. /\ s.pc = "billing" /\ "person" \in PCs /\ billing' = {}
        /\ UNCHANGED <<lock, fresh, item, rows, objects, named, claims, person, msg, job>>
    BY <1>2, <1>4 DEF EraseOrganizationBilling, At, PCs
  <2>2. PICK r \in PurgeRecords :
           /\ Step(p, r) /\ r.pc = "person" /\ r.todo = s.todo /\ r.left = s.left
    BY <1>2, <1>4, <2>1, GoesOn DEF EraseOrganizationBilling
  <2>3. Progress(r)'
    BY <1>2, <2>1, <2>2 DEF Progress
  <2>4. IndexInv'
    BY <2>1, IndexStays DEF ErasureInv
  <2> QED BY <1>1, <2>1, <2>2, <2>3, <2>4, DeliveryKeeps DEF Settled
<1>5. CASE PurgePerson(p)
  <2>1. /\ s.pc = "person" /\ "ack" \in PCs /\ person' = FALSE
        /\ UNCHANGED <<lock, fresh, item, rows, objects, named, claims, billing, msg, job>>
    BY <1>2, <1>5 DEF PurgePerson, At, PCs
  <2>2. PICK r \in PurgeRecords :
           /\ Step(p, r) /\ r.pc = "ack" /\ r.todo = s.todo /\ r.left = s.left
    BY <1>2, <1>5, <2>1, GoesOn DEF PurgePerson
  <2>3. Progress(r)'
    BY <1>2, <2>1, <2>2 DEF Progress
  <2>4. IndexInv'
    BY <2>1, IndexStays DEF ErasureInv
  <2> QED BY <1>1, <2>1, <2>2, <2>3, <2>4, DeliveryKeeps DEF Settled
<1>6. CASE Ack(p)
  <2>1. s.pc = "ack" /\ Step(p, Idle) /\ UNCHANGED <<lock, fresh, data, job>>
    BY <1>2, <1>6 DEF Ack, At
  <2>2. item = {} /\ billing = {} /\ ~person
    BY <1>2, <2>1 DEF Progress
  <2> QED BY <2>1, <2>2, IdleTypes, IdleProgress, OnlyMoves
<1> QED BY <1>3, <1>4, <1>5, <1>6

LEMMA FirstStepsKeep ==
    ASSUME TypeOK, ErasureInv, NEW p \in Consumers,
           \/ Receive(p) \/ (\E c \in Companies : LockCompany(p, c)) \/ Locked(p)
           \/ Purged(p) \/ PurgeFails(p)
    PROVE  ErasureInv'
<1>1. Progress(purge[p])
  BY DEF ErasureInv
<1>2. CASE Receive(p)
  <2>1. PICK r \in PurgeRecords :
           /\ Step(p, r) /\ r.pc = "lock" /\ r.todo = item /\ r.left = item
           /\ r.settled = TRUE /\ r.stage = 1
    BY <1>2, ReceiveMoves
  <2>2. Progress(r)
    BY <2>1 DEF Progress
  <2> QED BY <1>2, <2>1, <2>2, OnlyMoves DEF Receive
<1>3. ASSUME NEW c \in Companies, LockCompany(p, c) PROVE ErasureInv'
  <2>1. Shrinks
    BY <1>3, PurgeShrinks DEF PurgeStep
  <2>2. PICK r \in PurgeRecords :
           /\ Step(p, r) /\ r.pc = "lock" /\ r.todo = purge[p].todo
           /\ r.left = purge[p].left \ {c} /\ r.stage = purge[p].stage
           /\ r.settled => purge[p].settled /\ lock[c] # "active" /\ c \notin fresh
    BY <1>3, LockCompanyMoves
  <2>3. Progress(r)
    BY <1>1, <1>3, <2>2 DEF Progress, LockCompany, At, Settled
  <2>4. Progress(r)'
    BY <2>1, <2>3, ProgressStays
  <2>5. /\ UNCHANGED <<item, rows, objects, named, claims, billing, person, msg, job>>
        /\ \A d \in Companies :
              /\ lock'[d] = "erased" => lock[d] = "erased"
              /\ Settled(d)' => Settled(d)
    BY <1>3 DEF LockCompany, data, Settled, TypeOK
  <2>6. IndexInv'
    BY <2>5, IndexStays DEF ErasureInv
  <2> QED BY <2>1, <2>2, <2>4, <2>5, <2>6, DeliveryKeeps
<1>4. CASE Locked(p)
  <2>1. /\ purge[p].pc = "lock" /\ purge[p].left = {} /\ "purge" \in PCs
        /\ purge[p].todo \in SUBSET Companies /\ UNCHANGED <<lock, fresh, data, msg, job>>
    BY <1>4, PurgeTypes DEF Locked, At, PCs
  <2>2. PICK r \in PurgeRecords :
           /\ Step(p, r) /\ r.pc = "purge" /\ r.todo = purge[p].todo /\ r.left = purge[p].todo
           /\ r.settled = purge[p].settled /\ r.stage = purge[p].stage
    <3>1. PICK left \in SUBSET Companies : left = purge[p].todo
      BY <2>1
    <3>2. PICK r : r = [purge[p] EXCEPT !.pc = "purge", !.left = left]
      OBVIOUS
    <3>3. Step(p, r)
      BY <1>4, <3>1, <3>2 DEF Locked
    <3>4. /\ r \in PurgeRecords /\ r.pc = "purge" /\ r.todo = purge[p].todo
          /\ r.left = left /\ r.settled = purge[p].settled /\ r.stage = purge[p].stage
      BY <3>2, PurgeTypes DEF PurgeRecords
    <3> QED BY <3>1, <3>3, <3>4
  <2>3. r.stage = 1 /\ StageInv(r, One(r.left))
    BY <1>1, <2>1, <2>2 DEF Progress, StageInv
  <2>4. Progress(r)
    BY <1>1, <2>1, <2>2, <2>3 DEF Progress
  <2> QED BY <2>1, <2>2, <2>4, OnlyMoves
<1>5. CASE Purged(p)
  <2>1. purge[p].pc = "purge" /\ purge[p].left = {} /\ UNCHANGED <<lock, fresh, data, job>>
    BY <1>5 DEF Purged, At
  <2>2. CASE purge[p].settled
    <3>1. "tombstone" \in PCs /\ purge[p].todo \in SUBSET Companies
      BY PurgeTypes DEF PCs
    <3>2. PICK r \in PurgeRecords :
             /\ Step(p, r) /\ r.pc = "tombstone" /\ r.todo = purge[p].todo
             /\ r.left = purge[p].todo
      <4>1. PICK left \in SUBSET Companies : left = purge[p].todo
        BY <3>1
      <4>2. PICK r : r = [purge[p] EXCEPT !.pc = "tombstone", !.left = left]
        OBVIOUS
      <4>3. Step(p, r)
        BY <1>5, <2>2, <4>1, <4>2 DEF Purged
      <4>4. /\ r \in PurgeRecords /\ r.pc = "tombstone" /\ r.todo = purge[p].todo
            /\ r.left = left
        BY <4>2, PurgeTypes DEF PurgeRecords
      <4> QED BY <4>1, <4>3, <4>4
    <3>3. Progress(r)
      BY <1>1, <2>1, <2>2, <3>2 DEF Progress
    <3> QED BY <1>5, <2>1, <2>2, <3>2, <3>3, OnlyMoves DEF Purged
  <2>3. CASE ~purge[p].settled
    BY <1>5, <2>1, <2>3, IdleTypes, IdleProgress, OnlyMoves DEF Purged, GivenBack
  <2> QED BY <2>2, <2>3
<1>6. CASE PurgeFails(p)
  <2>1. /\ Step(p, Idle) /\ UNCHANGED <<lock, fresh, data, job>>
        /\ msg' = "acked" => msg = "acked"
    BY <1>6 DEF PurgeFails, GivenBack
  <2> QED BY <2>1, IdleTypes, IdleProgress, OnlyMoves
<1> QED BY <1>2, <1>3, <1>4, <1>5, <1>6

LEMMA ErasureKept == TypeOK /\ ErasureInv /\ [Next]_vars => ErasureInv'
<1> SUFFICES ASSUME TypeOK, ErasureInv, [Next]_vars PROVE ErasureInv'
  OBVIOUS
<1>1. ASSUME NEW j \in Jobs, JobStep(j) PROVE ErasureInv'
  BY <1>1, JobKeeps
<1>2. ASSUME NEW p \in Consumers, Receive(p) \/ PurgeStep(p) \/ PurgeFails(p) PROVE ErasureInv'
  BY <1>2, FirstStepsKeep, PurgeStageKeeps, TombstoneKeeps, LastStepsKeep DEF PurgeStep
<1>3. CASE (\E c \in Companies : WindowPasses(c)) \/ Redeliver
  BY <1>3, OutsideKeeps
<1>4. CASE UNCHANGED vars
  BY <1>4 DEF vars, ErasureInv, LockInv, IndexInv, Reachable, AckedMeansDone, Progress, StageInv,
     Settled, Clean, Working
<1> QED BY <1>1, <1>2, <1>3, <1>4 DEF Next

LEMMA InitialErasure == Init => ErasureInv
<1> SUFFICES ASSUME Init PROVE ErasureInv
  OBVIOUS
<1>1. LockInv
  BY ErasureAssumption DEF Init, LockInv, Working
<1>2. IndexInv
  BY DEF Init, IndexInv, Reachable, Tables, Documents
<1>3. \A p \in Consumers : Progress(purge[p])
  BY IdleTypes DEF Init, Progress
<1>4. AckedMeansDone
  BY DEF Init, AckedMeansDone
<1> QED BY <1>1, <1>2, <1>3, <1>4 DEF ErasureInv

\* An erased company stays empty for ever, but for the object of a document that
\* was in flight: whatever jobs, deliveries, failures and redeliveries overlap.
THEOREM ErasedForGoodHolds == Spec => []ErasedForGood
<1>1. ErasureInv => ErasedForGood
  BY DEF ErasureInv, LockInv, Clean, ErasedForGood
<1> QED BY <1>1, InitialErasure, ErasureKept, TypeCorrect, PTL DEF Spec

\* The account is only told of a deletion that is complete.
THEOREM AckedMeansDoneHolds == Spec => []AckedMeansDone
<1>1. ErasureInv => AckedMeansDone
  BY DEF ErasureInv
<1> QED BY <1>1, InitialErasure, ErasureKept, TypeCorrect, PTL DEF Spec

\* Wherever a delivery stops, the next finds what is left.
THEOREM ReachableHolds == Spec => []Reachable
<1>1. ErasureInv => Reachable
  BY DEF ErasureInv, IndexInv
<1> QED BY <1>1, InitialErasure, ErasureKept, TypeCorrect, PTL DEF Spec

-----------------------------------------------------------------------------
(* Erasure implements AccountErasure *)

\* Only company c's holdings change.
LEMMA HoldingsOf ==
    ASSUME NEW c \in Companies, \A d \in Companies : d # c => Held(d)' = Held(d)
    PROVE  Holdings' = [Holdings EXCEPT ![c] = Held(c)']
BY DEF Holdings

LEMMA HoldingsStay ==
    ASSUME \A d \in Companies : Held(d)' = Held(d)
    PROVE  Holdings' = Holdings
BY DEF Holdings

LEMMA HeldFollows ==
    ASSUME NEW c
    PROVE  /\ rows'[c] = rows[c] /\ objects'[c] = objects[c] /\ (c \in claims' <=> c \in claims)
                 => Held(c)' = Held(c)
           /\ rows[c] \subseteq rows'[c] /\ objects[c] \subseteq objects'[c] /\ claims' = claims
                 => Held(c) \subseteq Held(c)'
           /\ rows'[c] \subseteq rows[c] /\ objects'[c] \subseteq objects[c] /\ claims' \subseteq claims
                 => Held(c)' \subseteq Held(c)
           /\ Clean(c) <=> Held(c) = {}
           /\ Held(c) \subseteq {"rows", "objects", "claims"}
BY DEF Held, Clean

\* A step that leaves what is held, listed, sealed and answered alone.
LEMMA NothingSeen ==
    ASSUME UNCHANGED data, Erased' = Erased, Answered' = Answered
    PROVE  UNCHANGED Deletion!vars
<1>1. \A d \in Companies : Held(d)' = Held(d)
  BY HeldFollows DEF data
<1>2. Holdings' = Holdings
  BY <1>1, HoldingsStay
<1>3. item' = item /\ AccountRows' = AccountRows
  BY DEF data, AccountRows
<1> QED BY <1>2, <1>3 DEF Deletion!vars

LEMMA JobImplements ==
    ASSUME TypeOK, ErasureInv, NEW j \in Jobs, JobStep(j)
    PROVE  Deletion!Next \/ UNCHANGED Deletion!vars
<1>1. JobUnchanged
  BY JobWrites
<1>2. item' = item /\ Erased' = Erased /\ AccountRows' = AccountRows /\ Answered' = Answered
      /\ claims' = claims
  BY <1>1 DEF JobUnchanged, Erased, AccountRows, Answered
<1>3. PICK c \in Companies : c = JobOf[j]
  BY ErasureAssumption
<1>4. ASSUME NEW d \in Companies, d # c \/ ~Working(j) PROVE Held(d)' = Held(d)
  BY <1>2, <1>3, <1>4, JobWrites, HeldFollows
<1>5. CASE Working(j)
  <2>1. c \notin Erased
    BY <1>3, <1>5 DEF ErasureInv, LockInv, Erased
  <2>2. rows[c] \subseteq rows'[c] /\ objects[c] \subseteq objects'[c]
    BY JobWrites
  <2>3. PICK kinds \in SUBSET Deletion!Kinds : kinds = Held(c)' /\ Held(c) \subseteq kinds
    <3>1. Held(c) \subseteq Held(c)' /\ Held(c)' \subseteq {"rows", "objects", "claims"}
      BY <1>2, <2>2, HeldFollows DEF Held
    <3> QED BY <3>1 DEF Deletion!Kinds
  <2>4. Holdings' = [Holdings EXCEPT ![c] = Holdings[c] \union kinds]
    <3>1. Holdings' = [Holdings EXCEPT ![c] = kinds]
      BY <1>4, <2>3, HoldingsOf
    <3>2. Holdings[c] \union kinds = kinds
      BY <2>3 DEF Holdings
    <3> QED BY <3>1, <3>2
  <2>5. Deletion!Write(c, kinds)
    BY <1>2, <2>1, <2>4 DEF Deletion!Write
  <2> QED BY <2>5 DEF Deletion!Next
<1>6. CASE ~Working(j)
  <2>1. Holdings' = Holdings
    BY <1>4, <1>6, HoldingsStay
  <2> QED BY <1>2, <2>1 DEF Deletion!vars
<1> QED BY <1>5, <1>6

\* A stage removes of a company that is listed, or finds nothing of one that is not.
LEMMA StageImplements ==
    ASSUME TypeOK, ErasureInv, NEW p \in Consumers, PurgeStage(p)
    PROVE  Deletion!Next \/ UNCHANGED Deletion!vars
<1>1. PICK c, n : c = Current(p) /\ n = purge[p].stage
  OBVIOUS
<1>2. /\ c \in Companies
      /\ claims' = IF n = 1 /\ c \in item /\ "config" \in rows[c] THEN claims \ {c} ELSE claims
      /\ rows' = [rows EXCEPT ![c] = rows[c] \ DeletedRows(p, Stages[n])]
      /\ objects' = [objects EXCEPT ![c] = objects[c] \ DeletedObjects(p, Stages[n])]
  BY <1>1, PurgeStageMoves
<1>3. item' = item /\ Erased' = Erased /\ AccountRows' = AccountRows /\ Answered' = Answered
  BY DEF PurgeStage, Erased, AccountRows, Answered
<1>4. ASSUME NEW d \in Companies, d # c PROVE Held(d)' = Held(d)
  <2>1. rows'[d] = rows[d] /\ objects'[d] = objects[d] /\ (d \in claims' <=> d \in claims)
    BY <1>2, <1>4 DEF TypeOK
  <2> QED BY <2>1, HeldFollows
<1>5. Held(c)' \subseteq Held(c)
  <2>1. rows'[c] \subseteq rows[c] /\ objects'[c] \subseteq objects[c] /\ claims' \subseteq claims
    BY <1>2 DEF TypeOK
  <2> QED BY <2>1, HeldFollows
<1>6. CASE c \in item
  <2>1. PICK kinds \in SUBSET Deletion!Kinds : kinds = Held(c) \ Held(c)'
    <3>1. Held(c) \subseteq Deletion!Kinds
      BY HeldFollows DEF Deletion!Kinds
    <3> QED BY <3>1
  <2>2. Holdings[c] \ kinds = Held(c)'
    BY <1>2, <1>5, <2>1 DEF Holdings
  <2>3. Holdings' = [Holdings EXCEPT ![c] = Holdings[c] \ kinds]
    BY <1>2, <1>4, <2>2, HoldingsOf
  <2>4. Deletion!Remove(c, kinds)
    BY <1>3, <1>6, <2>3 DEF Deletion!Remove
  <2> QED BY <1>2, <2>4 DEF Deletion!Next
<1>7. CASE c \notin item
  <2>1. Held(c) = {}
    BY <1>2, <1>7, HeldFollows DEF ErasureInv, LockInv
  <2>2. Holdings' = Holdings
    BY <1>4, <1>5, <2>1, HoldingsStay
  <2> QED BY <1>3, <2>2 DEF Deletion!vars
<1> QED BY <1>6, <1>7

\* The tombstone seals what is empty; the item goes of what is sealed.
LEMMA TombstoneImplements ==
    ASSUME TypeOK, ErasureInv, NEW p \in Consumers, Tombstone(p) \/ DeleteItem(p)
    PROVE  Deletion!Next
<1>1. PICK s \in PurgeRecords : s = purge[p] /\ Progress(s)
  <2>1. PICK s \in PurgeRecords : s = purge[p]
    BY PurgeTypes
  <2> QED BY <2>1 DEF ErasureInv
<1>2. PICK c : c = Current(p)
  OBVIOUS
<1>3. s.left # {} => c = One(s.left) /\ c \in s.left /\ c \in Companies
  BY <1>1, <1>2, CurrentIsLeft DEF Current, One
<1>4. CASE Tombstone(p)
  <2>1. /\ s.pc = "tombstone" /\ s.left # {} /\ lock' = [lock EXCEPT ![c] = "erased"]
        /\ UNCHANGED <<data, msg>>
    BY <1>1, <1>2, <1>4 DEF Tombstone, At
  <2>2. Holdings[c] = {}
    <3>1. Clean(c)
      BY <1>1, <1>3, <2>1 DEF Progress
    <3>2. Held(c) = {}
      BY <3>1, HeldFollows
    <3> QED BY <1>3, <2>1, <3>2 DEF Holdings
  <2>3. Erased' = Erased \union {c}
    BY <1>3, <2>1 DEF Erased, TypeOK
  <2>4. Holdings' = Holdings
    <3>1. \A d \in Companies : Held(d)' = Held(d)
      BY <2>1, HeldFollows DEF data
    <3> QED BY <3>1, HoldingsStay
  <2>5. item' = item /\ AccountRows' = AccountRows /\ Answered' = Answered
    BY <2>1 DEF data, AccountRows, Answered
  <2>6. Deletion!Seal(c)
    BY <2>2, <2>3, <2>4, <2>5 DEF Deletion!Seal
  <2> QED BY <1>3, <2>1, <2>6 DEF Deletion!Next
<1>5. CASE DeleteItem(p)
  <2>1. /\ s.pc = "delete" /\ item' = item \ {c}
        /\ UNCHANGED <<lock, rows, objects, claims, billing, person, msg>>
    BY <1>1, <1>2, <1>5 DEF DeleteItem, At
  <2>2. c \in Companies /\ c \in Erased
    BY <1>1, <1>3, <2>1 DEF Progress, Erased
  <2>3. Holdings' = Holdings
    <3>1. \A d \in Companies : Held(d)' = Held(d)
      BY <2>1, HeldFollows
    <3> QED BY <3>1, HoldingsStay
  <2>4. Erased' = Erased /\ AccountRows' = AccountRows /\ Answered' = Answered
    BY <2>1 DEF Erased, AccountRows, Answered
  <2>5. Deletion!Delist(c)
    BY <2>1, <2>2, <2>3, <2>4 DEF Deletion!Delist
  <2> QED BY <2>2, <2>5 DEF Deletion!Next
<1> QED BY <1>4, <1>5

\* The account's own rows go when no company is listed, and then the answer.
LEMMA AccountImplements ==
    ASSUME TypeOK, ErasureInv, NEW p \in Consumers,
           EraseOrganizationBilling(p) \/ PurgePerson(p) \/ Ack(p)
    PROVE  Deletion!Next
<1>1. PICK s \in PurgeRecords : s = purge[p] /\ Progress(s)
  <2>1. PICK s \in PurgeRecords : s = purge[p]
    BY PurgeTypes
  <2> QED BY <2>1 DEF ErasureInv
<1>2. s.pc \in {"billing", "person", "ack"} /\ item = {}
  BY <1>1 DEF EraseOrganizationBilling, PurgePerson, Ack, At, Progress
<1>3. Holdings' = Holdings /\ item' = item /\ Erased' = Erased
  <2>1. UNCHANGED <<lock, item, rows, objects, claims>>
    BY DEF EraseOrganizationBilling, PurgePerson, Ack, data
  <2>2. \A d \in Companies : Held(d)' = Held(d)
    BY <2>1, HeldFollows
  <2> QED BY <2>1, <2>2, HoldingsStay DEF Erased
<1>4. CASE EraseOrganizationBilling(p)
  <2>1. AccountRows' = AccountRows \ {"billing"} /\ Answered' = Answered
    BY <1>4 DEF EraseOrganizationBilling, AccountRows, Answered
  <2>2. Deletion!Forget("billing")
    BY <1>2, <1>3, <2>1 DEF Deletion!Forget
  <2> QED BY <2>2 DEF Deletion!Next
<1>5. CASE PurgePerson(p)
  <2>1. AccountRows' = AccountRows \ {"person"} /\ Answered' = Answered
    BY <1>5 DEF PurgePerson, AccountRows, Answered
  <2>2. "billing" \notin AccountRows
    BY <1>1, <1>5 DEF PurgePerson, At, Progress, AccountRows
  <2>3. Deletion!Forget("person")
    BY <1>2, <1>3, <2>1, <2>2 DEF Deletion!Forget
  <2> QED BY <2>3 DEF Deletion!Next
<1>6. CASE Ack(p)
  <2>1. AccountRows = {} /\ AccountRows' = AccountRows
    BY <1>1, <1>6 DEF Ack, At, Progress, AccountRows, data
  <2>2. Answered' = TRUE
    BY <1>6 DEF Ack, Answered
  <2>3. Deletion!Answer
    BY <1>2, <1>3, <2>1, <2>2 DEF Deletion!Answer
  <2> QED BY <2>3 DEF Deletion!Next
<1> QED BY <1>4, <1>5, <1>6

\* The rest of a delivery, the settle window and the queue are not seen.
LEMMA RestUnseen ==
    ASSUME TypeOK,
           \/ \E p \in Consumers : \/ Receive(p) \/ Locked(p) \/ Purged(p)
                                   \/ CompaniesErased(p) \/ PurgeFails(p)
                                   \/ \E c \in Companies : LockCompany(p, c)
           \/ \E c \in Companies : WindowPasses(c)
           \/ Redeliver
    PROVE  UNCHANGED Deletion!vars
<1>1. UNCHANGED data
  BY DEF Receive, Locked, Purged, CompaniesErased, PurgeFails, LockCompany, WindowPasses, Redeliver
<1>2. Answered' = Answered
  BY DEF Receive, Locked, Purged, CompaniesErased, PurgeFails, LockCompany, WindowPasses, Redeliver,
     Answered, GivenBack
<1>3. Erased' = Erased
  <2>1. ASSUME NEW p \in Consumers, NEW c \in Companies, LockCompany(p, c)
        PROVE  Erased' = Erased
    BY <2>1 DEF LockCompany, Erased, TypeOK
  <2>2. ASSUME lock' = lock PROVE Erased' = Erased
    BY <2>2 DEF Erased
  <2> QED BY <2>1, <2>2 DEF Receive, Locked, Purged, CompaniesErased, PurgeFails, WindowPasses,
     Redeliver
<1> QED BY <1>1, <1>2, <1>3, NothingSeen

LEMMA StepImplements ==
    TypeOK /\ ErasureInv /\ [Next]_vars => [Deletion!Next]_(Deletion!vars)
<1> SUFFICES ASSUME TypeOK, ErasureInv, [Next]_vars
             PROVE  Deletion!Next \/ UNCHANGED Deletion!vars
  OBVIOUS
<1>1. ASSUME NEW j \in Jobs, JobStep(j) PROVE Deletion!Next \/ UNCHANGED Deletion!vars
  BY <1>1, JobImplements
<1>2. ASSUME NEW p \in Consumers, Receive(p) \/ PurgeStep(p) \/ PurgeFails(p)
      PROVE  Deletion!Next \/ UNCHANGED Deletion!vars
  BY <1>2, StageImplements, TombstoneImplements, AccountImplements, RestUnseen DEF PurgeStep
<1>3. CASE (\E c \in Companies : WindowPasses(c)) \/ Redeliver
  BY <1>3, RestUnseen
<1>4. CASE UNCHANGED vars
  BY <1>4, NothingSeen DEF vars, data, Erased, Answered
<1> QED BY <1>1, <1>2, <1>3, <1>4 DEF Next

LEMMA InitialImplements == Init => Deletion!Init
<1> SUFFICES ASSUME Init PROVE Deletion!Init
  OBVIOUS
<1>1. \A c \in Companies : Held(c) = Deletion!Kinds
  BY DEF Init, Held, Deletion!Kinds, Tables
<1>2. Holdings = [c \in Companies |-> Deletion!Kinds]
  BY <1>1 DEF Holdings
<1>3. item = Companies /\ Erased = {} /\ Answered = FALSE
  BY DEF Init, Erased, Answered
<1>4. AccountRows = {"billing", "person"}
  BY DEF Init, AccountRows, BillingRows
<1> QED BY <1>2, <1>3, <1>4 DEF Deletion!Init

\* The saga implements the abstract deletion: data grows only on a company that
\* is not sealed and shrinks only on one that can be found, only an empty company
\* is sealed, only a sealed one is forgotten, and the account's rows and the answer
\* come last, in this order, for any deliveries, failures and jobs at once.
THEOREM ImplementsDeletion == Spec => DeletionSpec
BY InitialErasure, ErasureKept, TypeCorrect, InitialImplements, StepImplements, PTL
   DEF Spec, DeletionSpec, Deletion!Spec

\* The invariant of the abstract deletion is inductive.
LEMMA ConsistentKept ==
    Deletion!Consistent /\ [Deletion!Next]_(Deletion!vars) => Deletion!Consistent'
<1> SUFFICES ASSUME Deletion!Consistent, [Deletion!Next]_(Deletion!vars)
             PROVE  Deletion!Consistent'
  OBVIOUS
<1>1. DOMAIN Holdings = Companies /\ AccountRows \subseteq {"billing", "person"}
      /\ Erased \subseteq Companies /\ Erased' \subseteq Companies
  BY DEF Holdings, AccountRows, Erased
<1>2. /\ \A c \in Erased : Holdings[c] = {}
      /\ \A c \in Companies : c \in item \/ c \in Erased
      /\ AccountRows # {"billing", "person"} => item = {}
      /\ Answered => AccountRows = {} /\ \A c \in Companies : Holdings[c] = {}
  BY DEF Deletion!Consistent
<1> DEFINE Goal == /\ \A c \in Erased' : Holdings'[c] = {}
                   /\ \A c \in Companies : c \in item' \/ c \in Erased'
                   /\ AccountRows' # {"billing", "person"} => item' = {}
                   /\ Answered' => AccountRows' = {} /\ \A c \in Companies : Holdings'[c] = {}
<1>3. ASSUME NEW c \in Companies, NEW kinds \in SUBSET Deletion!Kinds, Deletion!Write(c, kinds)
      PROVE  Goal
  <2>1. /\ c \notin Erased /\ item' = item /\ Erased' = Erased /\ AccountRows' = AccountRows
        /\ Answered' = Answered /\ \A d \in Companies : d # c => Holdings'[d] = Holdings[d]
    BY <1>1, <1>3 DEF Deletion!Write
  <2>2. ~Answered
    BY <1>2, <2>1
  <2> QED BY <1>1, <1>2, <2>1, <2>2
<1>4. ASSUME NEW c \in Companies, NEW kinds \in SUBSET Deletion!Kinds, Deletion!Remove(c, kinds)
      PROVE  Goal
  <2>1. /\ item' = item /\ Erased' = Erased /\ AccountRows' = AccountRows
        /\ Answered' = Answered /\ \A d \in Companies : Holdings'[d] \subseteq Holdings[d]
    BY <1>1, <1>4 DEF Deletion!Remove
  <2> QED BY <1>1, <1>2, <2>1
<1>5. ASSUME NEW c \in Companies, Deletion!Seal(c) PROVE Goal
  <2>1. /\ Holdings[c] = {} /\ Erased' = Erased \union {c} /\ UNCHANGED <<Holdings, item>>
        /\ AccountRows' = AccountRows /\ (Answered' <=> Answered)
    BY <1>5 DEF Deletion!Seal
  <2> QED BY <1>2, <2>1
<1>6. ASSUME NEW c \in Companies, Deletion!Delist(c) PROVE Goal
  <2>1. /\ c \in Erased /\ item' = item \ {c} /\ Holdings' = Holdings /\ Erased' = Erased
        /\ AccountRows' = AccountRows /\ (Answered' <=> Answered)
    BY <1>6 DEF Deletion!Delist
  <2> QED BY <1>2, <2>1
<1>7. ASSUME NEW part, Deletion!Forget(part) PROVE Goal
  <2>1. /\ item = {} /\ AccountRows' = AccountRows \ {part}
        /\ UNCHANGED <<Holdings, item, Erased>> /\ (Answered' <=> Answered)
    BY <1>7 DEF Deletion!Forget
  <2> QED BY <1>2, <2>1
<1>8. ASSUME Deletion!Answer PROVE Goal
  <2>1. item = {} /\ AccountRows = {} /\ UNCHANGED <<Holdings, item, Erased, AccountRows>>
    BY <1>8 DEF Deletion!Answer
  <2> QED BY <1>2, <2>1
<1>9. ASSUME UNCHANGED Deletion!vars PROVE Goal
  <2>1. UNCHANGED <<Holdings, item, Erased, AccountRows>> /\ (Answered' <=> Answered)
    BY <1>9 DEF Deletion!vars
  <2> QED BY <1>2, <2>1
<1> HIDE DEF Goal
<1>10. Goal
  BY <1>3, <1>4, <1>5, <1>6, <1>7, <1>8, <1>9 DEF Deletion!Next
<1> QED BY <1>10 DEF Goal, Deletion!Consistent

\* What follows of the saga: nothing is held of an erased company, no company that
\* is not erased loses its entry, the account's rows outlive its companies, and an
\* answered request has left nothing behind.
THEOREM DeletionConsistent == Spec => []Deletion!Consistent
<1>1. Deletion!Init => Deletion!Consistent
  BY DEF Deletion!Init, Deletion!Consistent
<1>2. Spec => Deletion!Init /\ [][Deletion!Next]_(Deletion!vars)
  BY ImplementsDeletion DEF DeletionSpec, Deletion!Spec
<1> QED BY <1>1, <1>2, ConsistentKept, PTL

=============================================================================
