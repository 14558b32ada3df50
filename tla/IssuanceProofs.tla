--------------------------- MODULE IssuanceProofs ---------------------------
(***************************************************************************)
(* Theorems about Issuance, for every number of companies, requests and    *)
(* saves, every limit and every number of periods.                         *)
(***************************************************************************)
EXTENDS Issuance, FiniteSetTheorems, TLAPS

USE DEF configVars, quotaVars, history

\* Every step of an emission request, a save or a settlement keeps the types.
THEOREM TypeCorrect == Spec => []TypeOK
<1>1. Init => TypeOK
  BY NormalAssumption, MaxPeriodAssumption
     DEF Init, TypeOK, Periods, FreshNumber, NoPeriod, Request, RequestStates, Save, SaveStates
<1>2. TypeOK /\ [Next]_vars => TypeOK'
  <2> SUFFICES ASSUME TypeOK, [Next]_vars
               PROVE  TypeOK'
    OBVIOUS
  <2> USE DEF TypeOK
  <2>1. ASSUME NEW e \in Emissions, ReadConfig(e)
        PROVE  TypeOK'
    <3>1. req[e] \in Request /\ serie[req[e].company] \in Series /\ number[req[e].company] \in Nat
      BY <2>1 DEF ReadConfig, Request
    <3>2. req' \in [Emissions -> Request]
      BY <2>1, <3>1 DEF ReadConfig, Request, RequestStates
    <3>3. UNCHANGED <<configVars, quotaVars, save, docs, results, history>>
      BY <2>1 DEF ReadConfig
    <3> QED
      BY <3>2, <3>3
  <2>2. ASSUME NEW e \in Emissions, Admit(e)
        PROVE  TypeOK'
    <3>1. req[e] \in Request /\ period \in 0..MaxPeriod
      BY <2>2 DEF Admit, Periods
    <3>2. req' \in [Emissions -> Request]
      BY <2>2, <3>1 DEF Admit, Request, RequestStates
    <3>3. UNCHANGED <<configVars, quotaVars, save, docs, results, history>>
      BY <2>2 DEF Admit
    <3> QED
      BY <3>2, <3>3
  <2>3. ASSUME NEW e \in Emissions, Commit(e)
        PROVE  TypeOK'
    <3>0. req[e] \in Request /\ req[e].number + 1 \in Nat
      BY DEF Request
    <3>1. req' \in [Emissions -> Request]
      <4>1. req' = [req EXCEPT ![e].pc = "created"]
        BY <2>3 DEF Commit
      <4> QED
        BY <3>0, <4>1 DEF Request, RequestStates
    <3>2. used' \in [Periods -> Nat]
      <4>1. used' = [used EXCEPT ![ReservedPeriod(e)] = @ + 1]
        BY <2>3 DEF Commit
      <4>2. \A p \in Periods : used[p] + 1 \in Nat
        OBVIOUS
      <4> QED
        BY <4>1, <4>2
    <3>3. number' \in [Companies -> Nat]
      BY <2>3, <3>0 DEF Commit, NextNumber
    <3> QED
      BY <2>3, <3>1, <3>2, <3>3 DEF Commit
  <2>4. ASSUME NEW e \in Emissions, CommitConflict(e)
        PROVE  TypeOK'
    <3>1. req[e] \in Request 
      BY <2>4 DEF CommitConflict
    <3>2. req' \in [Emissions -> Request]
      BY <2>4, <3>1 DEF CommitConflict, Request, RequestStates
    <3>3. UNCHANGED <<configVars, quotaVars, save, docs, results, history>>
      BY <2>4 DEF CommitConflict
    <3> QED
      BY <3>2, <3>3
  <2>5. ASSUME NEW s \in Saves, LoadForm(s)
        PROVE  TypeOK'
    <3>1. save[s] \in Save /\ number[save[s].company] \in Nat /\ emission[save[s].company] \in EmissionTypes
      BY DEF Save
    <3>2. save' \in [Saves -> Save]
      BY <2>5, <3>1 DEF LoadForm, Save, SaveStates, FreshNumber
    <3>3. UNCHANGED <<configVars, quotaVars, req, docs, results, history>>
      BY <2>5 DEF LoadForm
    <3> QED
      BY <3>2, <3>3
  <2>6. ASSUME NEW s \in Saves, SubmitSave(s)
        PROVE  TypeOK'
    <3>1. save[s] \in Save /\ number[save[s].company] \in Nat /\ emission[save[s].company] \in EmissionTypes
      BY DEF Save
    <3>2. save' \in [Saves -> Save]
      <4>1. PICK ser \in Series, num \in {save[s].number} \union Edits :
              save' = [save EXCEPT ![s] =
                         [@ EXCEPT !.pc = "submitted", !.serie = ser, !.number = num,
                                   !.emission = IF save[s].company \in configured
                                                THEN emission[save[s].company] ELSE Normal]]
        BY <2>6 DEF SubmitSave
      <4>2. num \in Nat
        BY <3>1, EditsAssumption DEF Save
      <4> QED
        BY <3>1, <4>1, <4>2, NormalAssumption DEF Save, SaveStates
    <3>3. UNCHANGED <<configVars, quotaVars, req, docs, results, history>>
      BY <2>6 DEF SubmitSave
    <3> QED
      BY <3>2, <3>3
  <2>7. ASSUME NEW s \in Saves, WriteSave(s)
        PROVE  TypeOK'
    <3>1. save[s] \in Save
      OBVIOUS
    <3> QED
      BY <2>7, <3>1 DEF WriteSave, Save, SaveStates
  <2>8. ASSUME NEW c \in Companies, NEW t \in EmissionTypes, SetEmission(c, t)
        PROVE  TypeOK'
    BY <2>8 DEF SetEmission
  <2>9. CASE NextPeriod
    BY <2>9, MaxPeriodAssumption DEF NextPeriod, Periods
  <2>10. ASSUME NEW d \in Emissions, NEW status \in ResultStatuses, PublishResult(d, status)
         PROVE  TypeOK'
    BY <2>10 DEF PublishResult
  <2>11. ASSUME NEW d \in Emissions, NEW status \in ResultStatuses, Settle(d, status)
         PROVE  TypeOK'
    <3>1. d \in docs
      BY <2>11 DEF Settle
    <3>2. CASE ReportReservedUsage(d)
      BY <2>11, <3>1, <3>2 DEF Settle, ReportReservedUsage
    <3>3. CASE RefundReservedUsage(d)
      <4>1. used' \in [Periods -> Nat]
        <5>1. CASE ReservedPeriod(d) \in Periods
          BY <3>3, <5>1 DEF RefundReservedUsage, RefundDue
        <5>2. CASE ReservedPeriod(d) \notin Periods
          BY <3>3, <5>2 DEF RefundReservedUsage
        <5> QED
          BY <5>1, <5>2
      <4> QED
        BY <2>11, <3>1, <3>3, <4>1 DEF Settle, RefundReservedUsage
    <3> QED
      BY <2>11, <3>2, <3>3 DEF Settle
  <2>12. CASE UNCHANGED vars
    BY <2>12 DEF vars
  <2> QED
    BY <2>1, <2>2, <2>3, <2>4, <2>5, <2>6, <2>7, <2>8, <2>9, <2>10, <2>11, <2>12
       DEF Next, EmissionStep, SaveStep, ResultStep
<1> QED
  BY <1>1, <1>2, PTL DEF Spec

-----------------------------------------------------------------------------
\* How far a request has come bounds what the rest of the state holds: only
\* created requests are documents, a request that read a configuration belongs
\* to a configured company, and an admitted one captured a period.
RequestsSound ==
    /\ \A d \in docs : req[d].pc = "created"
    /\ \A e \in Emissions :
          /\ req[e].pc # "idle" => req[e].company \in configured
          /\ req[e].pc \in {"admitted", "created"} => req[e].period \in Periods

\* The first step of every invariant below.
LEMMA RequestsSoundInit == Init => RequestsSound
BY DEF Init, RequestsSound

LEMMA RequestsSoundStep == TypeOK /\ RequestsSound /\ [Next]_vars => RequestsSound'
<1> SUFFICES ASSUME TypeOK, RequestsSound, [Next]_vars
             PROVE  RequestsSound'
  OBVIOUS
<1> USE DEF RequestsSound
<1>1. ASSUME NEW e \in Emissions, ReadConfig(e)
      PROVE  RequestsSound'
  BY <1>1 DEF ReadConfig, TypeOK, Request
<1>2. ASSUME NEW e \in Emissions, Admit(e)
      PROVE  RequestsSound'
  BY <1>2 DEF Admit, TypeOK, Request
<1>3. ASSUME NEW e \in Emissions, Commit(e)
      PROVE  RequestsSound'
  <2>1. /\ req' = [req EXCEPT ![e].pc = "created"]
        /\ docs' = docs \union {e}
        /\ configured' = configured
        /\ req[e].pc = "admitted"
    BY <1>3 DEF Commit
  <2> QED
    BY <2>1 DEF TypeOK, Request
<1>4. ASSUME NEW e \in Emissions, CommitConflict(e)
      PROVE  RequestsSound'
  BY <1>4 DEF CommitConflict, TypeOK, Request
<1>5. ASSUME NEW s \in Saves, LoadForm(s) \/ SubmitSave(s)
      PROVE  RequestsSound'
  BY <1>5 DEF LoadForm, SubmitSave
<1>6. ASSUME NEW s \in Saves, WriteSave(s)
      PROVE  RequestsSound'
  <2>1. configured \subseteq configured' /\ UNCHANGED <<req, docs>>
    BY <1>6 DEF WriteSave
  <2> QED
    BY <2>1
<1>7. ASSUME NEW c \in Companies, NEW t \in EmissionTypes, SetEmission(c, t)
      PROVE  RequestsSound'
  BY <1>7 DEF SetEmission
<1>8. CASE NextPeriod
  BY <1>8 DEF NextPeriod
<1>9. ASSUME NEW d \in Emissions, NEW status \in ResultStatuses,
             PublishResult(d, status) \/ Settle(d, status)
      PROVE  RequestsSound'
  BY <1>9 DEF PublishResult, Settle
<1>10. CASE UNCHANGED vars
  BY <1>10 DEF vars
<1> QED
  BY <1>1, <1>2, <1>3, <1>4, <1>5, <1>6, <1>7, <1>8, <1>9, <1>10
     DEF Next, EmissionStep, SaveStep, ResultStep

-----------------------------------------------------------------------------
(* Numbering *)

\* A step that touches neither the counters nor the documents.
LEMMA NumberingUntouched ==
    ASSUME UNCHANGED <<number, docs, lowered>>,
           \A d \in docs : req'[d] = req[d]
    PROVE  /\ IssuedBelowCounter => IssuedBelowCounter'
           /\ NumbersUnique => NumbersUnique'
BY DEF IssuedBelowCounter, NumbersUnique, SameNumber

LEMMA NumberingStep ==
    TypeOK /\ RequestsSound /\ IssuedBelowCounter /\ NumbersUnique /\ [Next]_vars
        => IssuedBelowCounter' /\ NumbersUnique'
<1> SUFFICES ASSUME TypeOK, RequestsSound, IssuedBelowCounter, NumbersUnique, [Next]_vars
             PROVE  IssuedBelowCounter' /\ NumbersUnique'
  OBVIOUS
<1>1. ASSUME NEW e \in Emissions, ReadConfig(e) \/ Admit(e) \/ CommitConflict(e)
      PROVE  IssuedBelowCounter' /\ NumbersUnique'
  <2>1. e \notin docs
    BY <1>1 DEF RequestsSound, ReadConfig, Admit, CommitConflict
  <2>2. UNCHANGED <<number, docs, lowered>> /\ \A d \in docs : req'[d] = req[d]
    BY <1>1, <2>1 DEF ReadConfig, Admit, CommitConflict, TypeOK
  <2> QED
    BY <2>2, NumberingUntouched
<1>2. ASSUME NEW e \in Emissions, Commit(e)
      PROVE  IssuedBelowCounter' /\ NumbersUnique'
  <2> DEFINE c == req[e].company
  <2>1. /\ req[e].number = number[c]
        /\ number' = [number EXCEPT ![c] = req[e].number + 1]
        /\ docs' = docs \union {e}
        /\ req' = [req EXCEPT ![e].pc = "created"]
        /\ lowered' = lowered
    BY <1>2 DEF Commit, NumberUnmoved, NextNumber
  <2>2. /\ c \in Companies
        /\ number[c] \in Nat
        /\ \A x \in Emissions : /\ req[x].company \in Companies
                                /\ req[x].number \in Nat
    BY DEF TypeOK, Request
  <2>3. \A x \in Emissions : /\ req'[x].company = req[x].company
                             /\ req'[x].serie = req[x].serie
                             /\ req'[x].number = req[x].number
    BY <2>1 DEF TypeOK, Request
  <2>4. number'[c] = number[c] + 1 /\ \A k \in Companies \ {c} : number'[k] = number[k]
    BY <2>1, <2>2 DEF TypeOK
  <2>5. IssuedBelowCounter'
    <3> SUFFICES ASSUME NEW d \in docs', req'[d].company \notin lowered'
                 PROVE  req'[d].number < number'[req'[d].company]
      BY DEF IssuedBelowCounter
    <3>1. d \in Emissions
      BY <2>1 DEF TypeOK
    <3>2. CASE d = e
      BY <2>1, <2>2, <2>3, <2>4, <3>2
    <3>3. CASE d # e
      <4>1. req[d].number < number[req[d].company]
        BY <2>1, <2>3, <3>1, <3>3 DEF IssuedBelowCounter
      <4> QED
        BY <2>2, <2>3, <2>4, <3>1, <4>1
    <3> QED
      BY <3>2, <3>3
  <2>6. NumbersUnique'
    <3> SUFFICES ASSUME NEW d \in docs', NEW x \in docs', SameNumber(d, x)',
                        req'[d].company \notin lowered'
                 PROVE  d = x
      BY DEF NumbersUnique
    <3>1. d \in Emissions /\ x \in Emissions
      BY <2>1 DEF TypeOK
    <3>2. SameNumber(d, x) /\ req[d].company \notin lowered
      BY <2>1, <2>3, <3>1 DEF SameNumber
    <3>3. CASE d \in docs /\ x \in docs
      BY <3>2, <3>3 DEF NumbersUnique
    <3>4. ASSUME NEW y \in docs, SameNumber(y, e), req[y].company \notin lowered
          PROVE  FALSE
      <4>1. y \in Emissions /\ req[y].number < number[req[y].company]
        BY <3>4 DEF IssuedBelowCounter, TypeOK
      <4> QED
        BY <2>1, <2>2, <3>4, <4>1 DEF SameNumber
    <3> QED
      BY <2>1, <3>2, <3>3, <3>4 DEF SameNumber
  <2> QED
    BY <2>5, <2>6
<1>3. ASSUME NEW s \in Saves, LoadForm(s) \/ SubmitSave(s)
      PROVE  IssuedBelowCounter' /\ NumbersUnique'
  BY <1>3, NumberingUntouched DEF LoadForm, SubmitSave
<1>4. ASSUME NEW s \in Saves, WriteSave(s)
      PROVE  IssuedBelowCounter' /\ NumbersUnique'
  <2> DEFINE c == save[s].company
  <2>1. /\ UNCHANGED <<req, docs>>
        /\ number' = [number EXCEPT ![c] = save[s].number]
        /\ lowered' = IF Lowers(s) THEN lowered \union {c} ELSE lowered
    BY <1>4 DEF WriteSave
  <2>2. c \in Companies /\ save[s].number \in Nat
    BY DEF TypeOK, Save
  <2>3. NumbersUnique'
    BY <2>1 DEF NumbersUnique, SameNumber
  <2>4. IssuedBelowCounter'
    <3> SUFFICES ASSUME NEW d \in docs, req[d].company \notin lowered'
                 PROVE  req[d].number < number'[req[d].company]
      BY <2>1 DEF IssuedBelowCounter
    <3>1. /\ req[d].company \in Companies
          /\ req[d].company \in configured
          /\ req[d].number \in Nat
          /\ number[req[d].company] \in Nat
      BY DEF TypeOK, Request, RequestsSound
    <3>2. req[d].company \notin lowered /\ req[d].number < number[req[d].company]
      BY <2>1 DEF IssuedBelowCounter
    <3>3. CASE req[d].company = c
      <4>1. ~Lowers(s)
        BY <2>1, <3>3
      <4>2. save[s].number >= number[c]
        BY <2>2, <3>1, <3>3, <4>1 DEF Lowers, Moves
      <4> QED
        BY <2>1, <2>2, <3>1, <3>2, <3>3, <4>2 DEF TypeOK
    <3>4. CASE req[d].company # c
      BY <2>1, <3>1, <3>2, <3>4 DEF TypeOK
    <3> QED
      BY <3>3, <3>4
  <2> QED
    BY <2>3, <2>4
<1>5. ASSUME NEW k \in Companies, NEW t \in EmissionTypes, SetEmission(k, t)
      PROVE  IssuedBelowCounter' /\ NumbersUnique'
  BY <1>5, NumberingUntouched DEF SetEmission
<1>6. CASE NextPeriod
  BY <1>6, NumberingUntouched DEF NextPeriod
<1>7. ASSUME NEW d \in Emissions, NEW status \in ResultStatuses,
             PublishResult(d, status) \/ Settle(d, status)
      PROVE  IssuedBelowCounter' /\ NumbersUnique'
  BY <1>7, NumberingUntouched DEF PublishResult, Settle
<1>8. CASE UNCHANGED vars
  BY <1>8, NumberingUntouched DEF vars
<1> QED
  BY <1>1, <1>2, <1>3, <1>4, <1>5, <1>6, <1>7, <1>8
     DEF Next, EmissionStep, SaveStep, ResultStep

\* Every number a company issued is below its counter unless a save lowered it.
THEOREM IssuedBelowCounterHolds == Spec => []IssuedBelowCounter
<1>1. Init => RequestsSound /\ IssuedBelowCounter /\ NumbersUnique
  BY RequestsSoundInit DEF Init, IssuedBelowCounter, NumbersUnique
<1> QED
  BY <1>1, TypeCorrect, RequestsSoundStep, NumberingStep, PTL DEF Spec

\* No two documents of a company share (série, number) unless a save lowered
\* its counter, for any number of concurrent requests and saves.
THEOREM NumbersUniqueHolds == Spec => []NumbersUnique
<1>1. Init => RequestsSound /\ IssuedBelowCounter /\ NumbersUnique
  BY RequestsSoundInit DEF Init, IssuedBelowCounter, NumbersUnique
<1> QED
  BY <1>1, TypeCorrect, RequestsSoundStep, NumberingStep, PTL DEF Spec

-----------------------------------------------------------------------------
(* The quota *)

\* The part of the usage invariant the properties do not state.
UsageInv ==
    /\ IsFiniteSet(docs)
    /\ UsageExact
    /\ UsageWithinLimit

\* A step that creates no document, refunds none and leaves the counters.
LEMMA UsageUntouched ==
    ASSUME UNCHANGED <<used, docs, refundMarks>>,
           \A d \in docs : req'[d] = req[d],
           UsageInv
    PROVE  UsageInv' /\ \A p \in Periods : Holding(p)' = Holding(p)
<1>1. \A p \in Periods : Holding(p)' = Holding(p)
  BY DEF Holding
<1> QED
  BY <1>1 DEF UsageInv, UsageExact, UsageWithinLimit

\* What a commit does to the sets of unit holders.
LEMMA CommitHolding ==
    ASSUME TypeOK, RequestsSound, UsageInv, NEW e \in Emissions, Commit(e)
    PROVE  /\ req[e].period \in Periods
           /\ e \notin docs
           /\ \A p \in Periods :
                 Holding(p)' = IF p = req[e].period THEN Holding(p) \union {e} ELSE Holding(p)
<1>1. /\ req' = [req EXCEPT ![e].pc = "created"]
      /\ docs' = docs \union {e}
      /\ refundMarks' = refundMarks
      /\ req[e].pc = "admitted"
  BY DEF Commit
<1>2. e \notin docs /\ e \notin refundMarks /\ req[e].period \in Periods
  BY <1>1 DEF RequestsSound, TypeOK
<1>3. \A d \in Emissions : req'[d].period = req[d].period
  BY <1>1 DEF TypeOK, Request
<1>4. docs \subseteq Emissions
  BY DEF TypeOK
<1> QED
  BY <1>1, <1>2, <1>3, <1>4 DEF Holding

\* What a refund does to them.
LEMMA RefundHolding ==
    ASSUME TypeOK, RequestsSound, NEW d \in docs, RefundReservedUsage(d), UNCHANGED <<req, docs>>
    PROVE  /\ req[d].period \in Periods
           /\ d \in Holding(req[d].period)
           /\ \A p \in Periods :
                 Holding(p)' = IF p = req[d].period THEN Holding(p) \ {d} ELSE Holding(p)
<1>1. d \notin refundMarks /\ refundMarks' = refundMarks \union {d}
  BY DEF RefundReservedUsage, RefundDue
<1>2. req[d].period \in Periods /\ d \in Emissions
  BY DEF RequestsSound, TypeOK
<1> QED
  BY <1>1, <1>2 DEF Holding

LEMMA UsageStep ==
    TypeOK /\ RequestsSound /\ UsageInv /\ [Next]_vars => UsageInv'
<1> SUFFICES ASSUME TypeOK, RequestsSound, UsageInv, [Next]_vars
             PROVE  UsageInv'
  OBVIOUS
<1>a. /\ IsFiniteSet(docs)
      /\ \A p \in Periods : /\ IsFiniteSet(Holding(p))
                            /\ Cardinality(Holding(p)) \in Nat
                            /\ used[p] \in Nat
                            /\ used[p] = Cardinality(Holding(p))
  <2>1. IsFiniteSet(docs) /\ UsageExact
    BY DEF UsageInv
  <2>2. \A p \in Periods : Holding(p) \subseteq docs
    BY DEF Holding
  <2>3. \A p \in Periods : IsFiniteSet(Holding(p))
    BY <2>1, <2>2, FS_Subset
  <2> QED
    BY <2>1, <2>3, FS_CardinalityType DEF UsageExact, TypeOK
<1>1. ASSUME NEW e \in Emissions, ReadConfig(e) \/ Admit(e) \/ CommitConflict(e)
      PROVE  UsageInv'
  <2>1. e \notin docs
    BY <1>1 DEF RequestsSound, ReadConfig, Admit, CommitConflict
  <2>2. UNCHANGED <<used, docs, refundMarks>> /\ \A d \in docs : req'[d] = req[d]
    BY <1>1, <2>1 DEF ReadConfig, Admit, CommitConflict, TypeOK
  <2> QED
    BY <2>2, UsageUntouched
<1>2. ASSUME NEW e \in Emissions, Commit(e)
      PROVE  UsageInv'
  <2> DEFINE q == req[e].period
  <2>1. /\ q \in Periods
        /\ e \notin docs
        /\ \A p \in Periods : Holding(p)' = IF p = q THEN Holding(p) \union {e} ELSE Holding(p)
    BY <1>2, CommitHolding
  <2>2. /\ used' = [used EXCEPT ![q] = used[q] + 1]
        /\ docs' = docs \union {e}
        /\ Limit < 0 \/ used[q] < Limit
    BY <1>2 DEF Commit, ReservedPeriod, UnitClaimable
  <2>3. e \notin Holding(q)
    BY <2>1 DEF Holding
  <2>4. Cardinality(Holding(q) \union {e}) = Cardinality(Holding(q)) + 1
    BY <1>a, <2>1, <2>3, FS_AddElement
  <2>5. IsFiniteSet(docs')
    BY <1>a, <2>2, FS_AddElement
  <2>6. UsageExact'
    BY <1>a, <2>1, <2>2, <2>4 DEF UsageExact, TypeOK
  <2>7. UsageWithinLimit'
    <3>1. \A p \in Periods : used'[p] = IF p = q THEN used[p] + 1 ELSE used[p]
      BY <2>1, <2>2 DEF TypeOK
    <3>2. Limit >= 0 => \A p \in Periods : used[p] <= Limit
      BY DEF UsageInv, UsageWithinLimit
    <3>3. Limit >= 0 => used[q] < Limit
      BY <2>2, LimitAssumption
    <3> QED
      BY <1>a, <2>1, <3>1, <3>2, <3>3, LimitAssumption DEF UsageWithinLimit
  <2> QED
    BY <2>5, <2>6, <2>7 DEF UsageInv
<1>3. ASSUME NEW s \in Saves, SaveStep(s)
      PROVE  UsageInv'
  BY <1>3, UsageUntouched DEF SaveStep, LoadForm, SubmitSave, WriteSave
<1>4. ASSUME NEW c \in Companies, NEW t \in EmissionTypes, SetEmission(c, t)
      PROVE  UsageInv'
  BY <1>4, UsageUntouched DEF SetEmission
<1>5. CASE NextPeriod
  BY <1>5, UsageUntouched DEF NextPeriod
<1>6. ASSUME NEW d \in Emissions, NEW status \in ResultStatuses, PublishResult(d, status)
      PROVE  UsageInv'
  BY <1>6, UsageUntouched DEF PublishResult
<1>7. ASSUME NEW d \in Emissions, NEW status \in ResultStatuses, Settle(d, status)
      PROVE  UsageInv'
  <2>0. d \in docs /\ UNCHANGED <<req, docs>>
    BY <1>7 DEF Settle, TypeOK
  <2>1. CASE ReportReservedUsage(d)
    BY <2>0, <2>1, UsageUntouched DEF ReportReservedUsage
  <2>2. CASE RefundReservedUsage(d)
    <3> DEFINE q == req[d].period
    <3>1. /\ q \in Periods
          /\ d \in Holding(q)
          /\ \A p \in Periods : Holding(p)' = IF p = q THEN Holding(p) \ {d} ELSE Holding(p)
      BY <2>0, <2>2, RefundHolding
    <3>2. used' = [used EXCEPT ![q] = used[q] - 1] /\ used[q] > 0
      BY <2>2 DEF RefundReservedUsage, RefundDue, ReservedPeriod
    <3>3. Cardinality(Holding(q) \ {d}) = Cardinality(Holding(q)) - 1
      BY <1>a, <3>1, FS_RemoveElement
    <3>4. UsageExact'
      BY <1>a, <3>1, <3>2, <3>3 DEF UsageExact, TypeOK
    <3>5. UsageWithinLimit'
      <4>1. \A p \in Periods : used'[p] <= used[p] /\ used'[p] \in Int
        BY <1>a, <3>1, <3>2 DEF TypeOK
      <4> QED
        BY <1>a, <4>1, LimitAssumption DEF UsageInv, UsageWithinLimit
    <3> QED
      BY <1>a, <2>0, <3>4, <3>5 DEF UsageInv
  <2> QED
    BY <1>7, <2>1, <2>2 DEF Settle
<1>8. CASE UNCHANGED vars
  BY <1>8, UsageUntouched DEF vars
<1> QED
  BY <1>1, <1>2, <1>3, <1>4, <1>5, <1>6, <1>7, <1>8 DEF Next, EmissionStep, ResultStep

LEMMA UsageInit == Init => UsageInv
<1> SUFFICES ASSUME Init PROVE UsageInv
  OBVIOUS
<1>1. docs = {} /\ \A p \in Periods : Holding(p) = {} /\ used[p] = 0
  BY DEF Init, Holding
<1> QED
  BY <1>1, FS_EmptySet, LimitAssumption DEF UsageInv, UsageExact, UsageWithinLimit

\* The usage counter of every period counts exactly the documents holding a
\* unit of it.
THEOREM UsageExactHolds == Spec => []UsageExact
<1>1. UsageInv => UsageExact
  BY DEF UsageInv
<1> QED
  BY <1>1, UsageInit, UsageStep, TypeCorrect, RequestsSoundInit, RequestsSoundStep, PTL DEF Spec

\* No interleaving of emissions passes the plan's limit.
THEOREM UsageWithinLimitHolds == Spec => []UsageWithinLimit
<1>1. UsageInv => UsageWithinLimit
  BY DEF UsageInv
<1> QED
  BY <1>1, UsageInit, UsageStep, TypeCorrect, RequestsSoundInit, RequestsSoundStep, PTL DEF Spec

-----------------------------------------------------------------------------
(* The counters implement the ledger *)

LEMMA LedgerInit == Init => Ledger!Init
BY DEF Init, Ledger!Init, Holding

LEMMA LedgerStep ==
    TypeOK /\ RequestsSound /\ UsageInv /\ [Next]_vars => [Ledger!Next]_(Ledger!vars)
<1> SUFFICES ASSUME TypeOK, RequestsSound, UsageInv, [Next]_vars
             PROVE  [Ledger!Next]_(Ledger!vars)
  OBVIOUS
<1>a. ASSUME UNCHANGED <<used, docs, refundMarks>>, \A d \in docs : req'[d] = req[d]
      PROVE  UNCHANGED Ledger!vars
  BY <1>a, UsageUntouched DEF Ledger!vars
<1>1. ASSUME NEW e \in Emissions, ReadConfig(e) \/ Admit(e) \/ CommitConflict(e)
      PROVE  UNCHANGED Ledger!vars
  <2>1. e \notin docs
    BY <1>1 DEF RequestsSound, ReadConfig, Admit, CommitConflict
  <2> QED
    BY <1>1, <1>a, <2>1 DEF ReadConfig, Admit, CommitConflict, TypeOK
<1>2. ASSUME NEW e \in Emissions, Commit(e)
      PROVE  Ledger!Next
  <2> DEFINE q == req[e].period
  <2>1. /\ q \in Periods
        /\ e \notin docs
        /\ \A p \in Periods : Holding(p)' = IF p = q THEN Holding(p) \union {e} ELSE Holding(p)
    BY <1>2, CommitHolding
  <2>2. e \notin refundMarks /\ \A p \in Periods : e \notin Holding(p)
    BY <2>1 DEF TypeOK, Holding
  <2>3. refundMarks' = refundMarks /\ (Limit < 0 \/ used[q] < Limit)
    BY <1>2 DEF Commit, ReservedPeriod, UnitClaimable
  <2>4. used[q] = Cardinality(Holding(q))
    BY <2>1 DEF UsageInv, UsageExact
  <2>5. Ledger!Grant(e, q)
    <3>1. [p \in Periods |-> Holding(p)]' =
             [[p \in Periods |-> Holding(p)] EXCEPT ![q] = @ \union {e}]
      BY <2>1
    <3>2. Ledger!Cardinality(Holding(q)) = Cardinality(Holding(q))
      BY DEF Ledger!Cardinality, Cardinality
    <3> QED
      BY <2>1, <2>2, <2>3, <2>4, <3>1, <3>2 DEF Ledger!Grant
  <2> QED
    BY <2>1, <2>5 DEF Ledger!Next
<1>3. ASSUME NEW s \in Saves, SaveStep(s)
      PROVE  UNCHANGED Ledger!vars
  BY <1>3, <1>a DEF SaveStep, LoadForm, SubmitSave, WriteSave
<1>4. ASSUME NEW c \in Companies, NEW t \in EmissionTypes, SetEmission(c, t)
      PROVE  UNCHANGED Ledger!vars
  BY <1>4, <1>a DEF SetEmission
<1>5. CASE NextPeriod
  BY <1>5, <1>a DEF NextPeriod
<1>6. ASSUME NEW d \in Emissions, NEW status \in ResultStatuses, PublishResult(d, status)
      PROVE  UNCHANGED Ledger!vars
  BY <1>6, <1>a DEF PublishResult
<1>7. ASSUME NEW d \in Emissions, NEW status \in ResultStatuses, Settle(d, status)
      PROVE  [Ledger!Next]_(Ledger!vars)
  <2>0. d \in docs /\ UNCHANGED <<req, docs>>
    BY <1>7 DEF Settle, TypeOK
  <2>1. CASE ReportReservedUsage(d)
    BY <2>0, <2>1, <1>a DEF ReportReservedUsage
  <2>2. CASE RefundReservedUsage(d)
    <3> DEFINE q == req[d].period
    <3>1. /\ q \in Periods
          /\ d \in Holding(q)
          /\ \A p \in Periods : Holding(p)' = IF p = q THEN Holding(p) \ {d} ELSE Holding(p)
      BY <2>0, <2>2, RefundHolding
    <3>2. refundMarks' = refundMarks \union {d}
      BY <2>2 DEF RefundReservedUsage
    <3>3. Ledger!GiveBack(d, q)
      BY <3>1, <3>2 DEF Ledger!GiveBack
    <3> QED
      BY <2>0, <3>1, <3>3 DEF Ledger!Next, TypeOK
  <2> QED
    BY <1>7, <2>1, <2>2 DEF Settle
<1>8. CASE UNCHANGED vars
  BY <1>8, <1>a DEF vars
<1> QED
  BY <1>1, <1>2, <1>3, <1>4, <1>5, <1>6, <1>7, <1>8 DEF Next, EmissionStep, ResultStep

\* Issuance and settlement implement the abstract ledger of quota units: a
\* unit is granted within the limit, to a document that never had one, and
\* given back once, to the period it came from.
THEOREM ImplementsLedger == Spec => LedgerSpec
BY LedgerInit, LedgerStep, UsageInit, UsageStep, TypeCorrect, RequestsSoundInit,
   RequestsSoundStep, PTL DEF Spec, LedgerSpec, Ledger!Spec

-----------------------------------------------------------------------------
(* Gaps *)

\* The numbers a company has issued.
Issued(c) == {req[d].number : d \in {x \in docs : req[x].company = c}}

\* NoGaps with what its step needs: the counter never went below its base.
GapInv ==
    \A c \in Companies \ edited :
        /\ Issued(c) = base[c]..(number[c] - 1)
        /\ base[c] <= number[c]
        /\ c \notin configured => Issued(c) = {} /\ base[c] = number[c]

LEMMA GapStep == TypeOK /\ RequestsSound /\ GapInv /\ [Next]_vars => GapInv'
<1> SUFFICES ASSUME TypeOK, RequestsSound, GapInv, [Next]_vars
             PROVE  GapInv'
  OBVIOUS
<1>a. ASSUME UNCHANGED <<configured, number, docs, base, edited>>,
             \A d \in docs : req'[d] = req[d]
      PROVE  GapInv'
  <2>1. \A c \in Companies : Issued(c)' = Issued(c)
    BY <1>a DEF Issued
  <2> QED
    BY <1>a, <2>1 DEF GapInv
<1>1. ASSUME NEW e \in Emissions, ReadConfig(e) \/ Admit(e) \/ CommitConflict(e)
      PROVE  GapInv'
  <2>1. e \notin docs
    BY <1>1 DEF RequestsSound, ReadConfig, Admit, CommitConflict
  <2> QED
    BY <1>1, <1>a, <2>1 DEF ReadConfig, Admit, CommitConflict, TypeOK
<1>2. ASSUME NEW e \in Emissions, Commit(e)
      PROVE  GapInv'
  <2> DEFINE k == req[e].company
  <2>1. /\ req[e].number = number[k]
        /\ number' = [number EXCEPT ![k] = req[e].number + 1]
        /\ docs' = docs \union {e}
        /\ req' = [req EXCEPT ![e].pc = "created"]
        /\ req[e].pc = "admitted"
        /\ UNCHANGED <<configured, base, edited>>
    BY <1>2 DEF Commit, NumberUnmoved, NextNumber
  <2>2. k \in Companies /\ k \in configured
    BY <2>1 DEF TypeOK, Request, RequestsSound
  <2>3. \A x \in Emissions : req'[x].company = req[x].company /\ req'[x].number = req[x].number
    BY <2>1 DEF TypeOK, Request
  <2>4. \A c \in Companies :
           Issued(c)' = IF c = k THEN Issued(c) \union {number[k]} ELSE Issued(c)
    BY <2>1, <2>3 DEF Issued, TypeOK
  <2> SUFFICES ASSUME NEW c \in Companies \ edited
               PROVE  /\ Issued(c)' = base[c]..(number'[c] - 1)
                      /\ base[c] <= number'[c]
                      /\ c \notin configured => Issued(c)' = {} /\ base[c] = number'[c]
    BY <2>1 DEF GapInv
  <2>5. /\ Issued(c) = base[c]..(number[c] - 1)
        /\ base[c] <= number[c]
        /\ c \notin configured => Issued(c) = {} /\ base[c] = number[c]
    BY DEF GapInv
  <2>6. base[c] \in Nat /\ number[c] \in Nat
    BY DEF TypeOK
  <2>7. CASE c = k
    <3>1. number'[c] = number[c] + 1
      BY <2>1, <2>2, <2>7 DEF TypeOK
    <3>2. (base[c]..(number[c] - 1)) \union {number[c]} = base[c]..(number'[c] - 1)
      BY <2>5, <2>6, <3>1
    <3>3. Issued(c)' = Issued(c) \union {number[c]}
      BY <2>2, <2>4, <2>7
    <3>4. Issued(c)' = base[c]..(number'[c] - 1)
      BY <2>5, <3>2, <3>3
    <3> QED
      BY <2>2, <2>5, <2>6, <2>7, <3>1, <3>4
  <2>8. CASE c # k
    BY <2>1, <2>4, <2>5, <2>8 DEF TypeOK
  <2> QED
    BY <2>7, <2>8
<1>3. ASSUME NEW s \in Saves, LoadForm(s) \/ SubmitSave(s)
      PROVE  GapInv'
  BY <1>3, <1>a DEF LoadForm, SubmitSave
<1>4. ASSUME NEW s \in Saves, WriteSave(s)
      PROVE  GapInv'
  <2> DEFINE k == save[s].company
  <2>1. /\ UNCHANGED <<req, docs>>
        /\ configured' = configured \union {k}
        /\ number' = [number EXCEPT ![k] = save[s].number]
        /\ edited' = IF Moves(s) THEN edited \union {k} ELSE edited
        /\ base' = IF k \in configured THEN base ELSE [base EXCEPT ![k] = save[s].number]
    BY <1>4 DEF WriteSave
  <2>2. k \in Companies /\ save[s].number \in Nat
    BY DEF TypeOK, Save
  <2>3. \A c \in Companies : Issued(c)' = Issued(c)
    BY <2>1 DEF Issued
  <2> SUFFICES ASSUME NEW c \in Companies \ edited'
               PROVE  /\ Issued(c) = base'[c]..(number'[c] - 1)
                      /\ base'[c] <= number'[c]
                      /\ c \notin configured' => Issued(c) = {} /\ base'[c] = number'[c]
    BY <2>3 DEF GapInv
  <2>4. /\ Issued(c) = base[c]..(number[c] - 1)
        /\ base[c] <= number[c]
        /\ c \notin configured => Issued(c) = {} /\ base[c] = number[c]
    BY <2>1 DEF GapInv
  <2>5. CASE c # k
    BY <2>1, <2>4, <2>5 DEF TypeOK
  <2>6. CASE c = k /\ k \in configured
    BY <2>1, <2>2, <2>4, <2>6 DEF Moves, TypeOK
  <2>7. CASE c = k /\ k \notin configured
    <3>1. base'[c] = save[s].number /\ number'[c] = save[s].number
      BY <2>1, <2>2, <2>7 DEF TypeOK
    <3>2. Issued(c) = {}
      BY <2>4, <2>7
    <3>3. save[s].number..(save[s].number - 1) = {}
      BY <2>2
    <3> QED
      BY <2>1, <2>2, <2>7, <3>1, <3>2, <3>3
  <2> QED
    BY <2>5, <2>6, <2>7
<1>5. ASSUME NEW k \in Companies, NEW t \in EmissionTypes, SetEmission(k, t)
      PROVE  GapInv'
  BY <1>5, <1>a DEF SetEmission
<1>6. CASE NextPeriod
  BY <1>6, <1>a DEF NextPeriod
<1>7. ASSUME NEW d \in Emissions, NEW status \in ResultStatuses,
             PublishResult(d, status) \/ Settle(d, status)
      PROVE  GapInv'
  BY <1>7, <1>a DEF PublishResult, Settle
<1>8. CASE UNCHANGED vars
  BY <1>8, <1>a DEF vars
<1> QED
  BY <1>1, <1>2, <1>3, <1>4, <1>5, <1>6, <1>7, <1>8
     DEF Next, EmissionStep, SaveStep, ResultStep

\* Until a save moves the counter, the numbers a company issued are exactly
\* those between its first one and the counter.
THEOREM NoGapsHolds == Spec => []NoGaps
<1>1. Init => GapInv
  <2> SUFFICES ASSUME Init PROVE GapInv
    OBVIOUS
  <2>1. \A c \in Companies : Issued(c) = {} /\ base[c] = number[c] /\ number[c] = FreshNumber
    BY DEF Init, Issued
  <2>2. FreshNumber..(FreshNumber - 1) = {} /\ FreshNumber <= FreshNumber
    BY DEF FreshNumber
  <2> QED
    BY <2>1, <2>2 DEF GapInv
<1>2. GapInv => NoGaps
  BY DEF GapInv, NoGaps, Issued
<1> QED
  BY <1>1, <1>2, GapStep, TypeCorrect, RequestsSoundInit, RequestsSoundStep, PTL DEF Spec

-----------------------------------------------------------------------------
(* What a guard on the save would establish *)

\* Faulty behaviour is possible only through a save that lowers a counter: the
\* condition an Upsert would need is that its Put never does.
SavesKeepCounters == [][\A s \in Saves : WriteSave(s) => ~Lowers(s)]_vars

\* History: no save has lowered a counter.
NoneLowered == lowered = {}

LEMMA NoneLoweredStep ==
    NoneLowered /\ [Next]_vars /\ [\A s \in Saves : WriteSave(s) => ~Lowers(s)]_vars
        => NoneLowered'
<1> SUFFICES ASSUME NoneLowered, [Next]_vars,
                    [\A s \in Saves : WriteSave(s) => ~Lowers(s)]_vars
             PROVE  NoneLowered'
  OBVIOUS
<1>1. ASSUME NEW s \in Saves, WriteSave(s) PROVE NoneLowered'
  <2>1. CASE ~Lowers(s)
    BY <1>1, <2>1 DEF WriteSave, NoneLowered
  <2>2. CASE UNCHANGED vars
    BY <2>2 DEF vars, history, NoneLowered
  <2> QED
    BY <1>1, <2>1, <2>2
<1>2. ASSUME NEW s \in Saves, LoadForm(s) \/ SubmitSave(s) PROVE NoneLowered'
  <2>1. UNCHANGED history
    BY <1>2, Zenon DEF LoadForm, SubmitSave
  <2> QED
    BY <2>1 DEF history, NoneLowered
<1>3. ASSUME NEW e \in Emissions, EmissionStep(e) \/ ResultStep(e) PROVE NoneLowered'
  <2>1. CASE ReadConfig(e) \/ Admit(e) \/ Commit(e) \/ CommitConflict(e)
    BY <2>1 DEF ReadConfig, Admit, Commit, CommitConflict, history, NoneLowered
  <2>2. ASSUME NEW status \in ResultStatuses, PublishResult(e, status) \/ Settle(e, status)
        PROVE  NoneLowered'
    BY <2>2 DEF PublishResult, Settle, history, NoneLowered
  <2> QED
    BY <1>3, <2>1, <2>2 DEF EmissionStep, ResultStep
<1>4. ASSUME NEW c \in Companies, NEW t \in EmissionTypes, SetEmission(c, t)
      PROVE  NoneLowered'
  BY <1>4 DEF SetEmission, history, NoneLowered
<1>5. CASE NextPeriod
  BY <1>5 DEF NextPeriod, history, NoneLowered
<1>6. CASE UNCHANGED vars
  BY <1>6 DEF vars, history, NoneLowered
<1> QED
  BY <1>1, <1>2, <1>3, <1>4, <1>5, <1>6 DEF Next, SaveStep

\* What the repository says of a (série, number) pair holds without exception as
\* soon as no save lowers a counter: the unconditional Put of a form loaded
\* before other requests committed is the only way two documents of a company
\* come to share one.
THEOREM NumbersUniqueUnlessLowered == Spec /\ SavesKeepCounters => []NumbersUniqueAlways
<1>1. Init => NoneLowered
  BY DEF Init, NoneLowered
<1>2. NumbersUnique /\ NoneLowered => NumbersUniqueAlways
  BY DEF NumbersUnique, NoneLowered, NumbersUniqueAlways
<1> QED
  BY <1>1, <1>2, NoneLoweredStep, NumbersUniqueHolds, PTL DEF Spec, SavesKeepCounters

-----------------------------------------------------------------------------
(* What keeps the emission type *)

\* No switch of the emission type falls between the read and the write of a save
\* of the same company.
SwitchesAreSerial ==
    [][\A c \in Companies, t \in EmissionTypes, s \in Saves :
          SetEmission(c, t) => ~(save[s].pc = "submitted" /\ save[s].company = c)]_vars

\* What a submitted save carries is what the row holds.
CarriesCurrent ==
    /\ \A s \in Saves : save[s].pc = "submitted" => save[s].emission = emission[save[s].company]
    /\ \A c \in Companies \ configured : emission[c] = Normal

LEMMA CarriesCurrentKept ==
    TypeOK /\ CarriesCurrent /\ [Next]_vars
    /\ [\A c \in Companies, t \in EmissionTypes, s \in Saves :
          SetEmission(c, t) => ~(save[s].pc = "submitted" /\ save[s].company = c)]_vars
        => CarriesCurrent'
<1> SUFFICES ASSUME TypeOK, CarriesCurrent, [Next]_vars,
                    [\A c \in Companies, t \in EmissionTypes, s \in Saves :
                        SetEmission(c, t)
                           => ~(save[s].pc = "submitted" /\ save[s].company = c)]_vars
             PROVE  CarriesCurrent'
  OBVIOUS
<1>1. ASSUME UNCHANGED <<save, emission, configured>> PROVE CarriesCurrent'
  BY <1>1 DEF CarriesCurrent
<1>2. ASSUME NEW s \in Saves, LoadForm(s) PROVE CarriesCurrent'
  <2>1. UNCHANGED <<emission, configured>>
    BY <1>2, Zenon DEF LoadForm, configVars
  <2>2. \A i \in Saves : save'[i].pc = "submitted" => save'[i] = save[i]
    BY <1>2 DEF LoadForm, TypeOK
  <2> QED
    BY <2>1, <2>2 DEF CarriesCurrent
<1>3. ASSUME NEW s \in Saves, SubmitSave(s) PROVE CarriesCurrent'
  <2>1. UNCHANGED <<emission, configured>>
    BY <1>3, Zenon DEF SubmitSave, configVars
  <2>2. /\ \A i \in Saves : i # s => save'[i] = save[i]
        /\ save'[s].company = save[s].company
        /\ save'[s].emission =
              IF save[s].company \in configured THEN emission[save[s].company] ELSE Normal
    BY <1>3 DEF SubmitSave, TypeOK, Save
  <2>3. save[s].company \in Companies
    BY DEF TypeOK, Save
  <2> QED
    BY <2>1, <2>2, <2>3 DEF CarriesCurrent
<1>4. ASSUME NEW s \in Saves, WriteSave(s) PROVE CarriesCurrent'
  <2>1. save[s].company \in Companies /\ save[s].emission = emission[save[s].company]
    BY <1>4 DEF TypeOK, Save, WriteSave, CarriesCurrent
  <2>2. emission' = emission /\ configured \subseteq configured'
    BY <1>4, <2>1 DEF WriteSave, TypeOK
  <2>3. \A i \in Saves : save'[i].pc = "submitted" => save'[i] = save[i]
    BY <1>4 DEF WriteSave, TypeOK
  <2> QED
    BY <2>2, <2>3 DEF CarriesCurrent
<1>5. ASSUME NEW c \in Companies, NEW t \in EmissionTypes, SetEmission(c, t)
      PROVE  CarriesCurrent'
  <2>1. /\ c \in configured /\ UNCHANGED <<save, configured>>
        /\ \A d \in Companies : d # c => emission'[d] = emission[d]
    BY <1>5 DEF SetEmission, TypeOK
  <2>2. \A s \in Saves : save[s].pc = "submitted" => save[s].company # c
    <3>1. emission' # emission
      BY <1>5 DEF SetEmission, TypeOK
    <3> QED
      BY <1>5, <3>1 DEF vars, configVars
  <2>3. \A s \in Saves : save[s].company \in Companies
    BY DEF TypeOK, Save
  <2> QED
    BY <2>1, <2>2, <2>3 DEF CarriesCurrent
<1>6. ASSUME NEW e \in Emissions, EmissionStep(e) \/ ResultStep(e)
      PROVE  UNCHANGED <<save, emission, configured>>
  <2>1. CASE ReadConfig(e) \/ Admit(e) \/ Commit(e) \/ CommitConflict(e)
    BY <2>1 DEF ReadConfig, Admit, Commit, CommitConflict, configVars
  <2>2. ASSUME NEW status \in ResultStatuses, PublishResult(e, status) \/ Settle(e, status)
        PROVE  UNCHANGED <<save, emission, configured>>
    BY <2>2 DEF PublishResult, Settle, configVars
  <2> QED
    BY <1>6, <2>1, <2>2 DEF EmissionStep, ResultStep
<1>7. CASE NextPeriod \/ UNCHANGED vars
  BY <1>1, <1>7 DEF NextPeriod, vars, configVars
<1> QED
  BY <1>1, <1>2, <1>3, <1>4, <1>5, <1>6, <1>7 DEF Next, SaveStep

\* "A configuration PUT never changes the emission type" (fiscal_config.go:171):
\* the save carries forward what it read, so this is true of every behaviour in
\* which the type is not switched between that read and the write.
THEOREM EmissionKeptIfSwitchesAreSerial ==
    Spec /\ SwitchesAreSerial => [][\A s \in Saves : WriteSave(s) => emission' = emission]_vars
<1>1. Init => CarriesCurrent
  <2> SUFFICES ASSUME Init PROVE CarriesCurrent
    OBVIOUS
  <2>1. \A s \in Saves : save[s].pc = "idle"
    BY DEF Init
  <2> QED
    BY <2>1 DEF Init, CarriesCurrent
<1>2. TypeOK /\ CarriesCurrent
        => [\A s \in Saves : WriteSave(s) => emission' = emission]_vars
  <2> SUFFICES ASSUME TypeOK, CarriesCurrent, NEW s \in Saves, WriteSave(s)
               PROVE  emission' = emission
    OBVIOUS
  <2>1. save[s].company \in Companies /\ save[s].emission = emission[save[s].company]
    BY DEF TypeOK, Save, WriteSave, CarriesCurrent
  <2> QED
    BY <2>1 DEF WriteSave, TypeOK
<1> QED
  BY <1>1, <1>2, CarriesCurrentKept, TypeCorrect, PTL DEF Spec, SwitchesAreSerial

-----------------------------------------------------------------------------
(* What the worker's one decision gives the quota *)

\* Of document d one result at most was published.  OneDecisionHolds, in
\* DfeWorkerOwnershipProofs, says it of every document that was not
\* dead-lettered and of which no event was asked.
DecidedOnce(d) ==
    \A s, t \in ResultStatuses : <<d, s>> \in results /\ <<d, t>> \in results => s = t

\* Billing and the counters only learn what was published.
SettledInv ==
    /\ \A d \in reported : <<d, "authorized">> \in results
    /\ \A d \in refundMarks : <<d, "rejected">> \in results \/ <<d, "failed">> \in results

LEMMA SettledKept == SettledInv /\ [Next]_vars => SettledInv'
<1> SUFFICES ASSUME SettledInv, [Next]_vars PROVE SettledInv'
  OBVIOUS
<1>1. ASSUME UNCHANGED <<reported, refundMarks>>, results \subseteq results' PROVE SettledInv'
  BY <1>1 DEF SettledInv
<1>2. ASSUME NEW e \in Emissions, EmissionStep(e) PROVE SettledInv'
  BY <1>1, <1>2 DEF EmissionStep, ReadConfig, Admit, Commit, CommitConflict, quotaVars
<1>3. ASSUME NEW s \in Saves, SaveStep(s) PROVE SettledInv'
  <2>1. UNCHANGED <<quotaVars, results>>
    BY <1>3, Zenon DEF SaveStep, LoadForm, SubmitSave, WriteSave
  <2> QED
    BY <1>1, <2>1 DEF quotaVars
<1>4. ASSUME NEW d \in Emissions, ResultStep(d) PROVE SettledInv'
  <2>1. ASSUME NEW status \in ResultStatuses, PublishResult(d, status) PROVE SettledInv'
    BY <1>1, <2>1 DEF PublishResult
  <2>2. ASSUME NEW status \in ResultStatuses, Settle(d, status) PROVE SettledInv'
    BY <2>2 DEF Settle, ReportReservedUsage, RefundReservedUsage, SettledInv, ResultStatuses
  <2> QED
    BY <1>4, <2>1, <2>2 DEF ResultStep
<1>5. CASE (\E c \in Companies, t \in EmissionTypes : SetEmission(c, t)) \/ NextPeriod
           \/ UNCHANGED vars
  BY <1>1, <1>5 DEF SetEmission, NextPeriod, vars, quotaVars
<1> QED
  BY <1>2, <1>3, <1>4, <1>5 DEF Next

\* The documents of period p that billing was told of.
Billed(p) == {d \in reported : req[d].period = p}

\* A document billing was told of holds its unit; so, if every one was decided
\* once, no period bills more documents than its counter counts.
BilledIsCounted ==
    /\ \A d \in reported : DecidedOnce(d) => d \in Holding(req[d].period)
    /\ (\A d \in reported : DecidedOnce(d))
          => \A p \in Periods : Cardinality(Billed(p)) <= used[p]

LEMMA SettledCounts ==
    ASSUME TypeOK, UsageInv, SettledInv
    PROVE  BilledIsCounted
<1>1. ASSUME NEW d \in reported, DecidedOnce(d) PROVE d \in Holding(req[d].period)
  <2>1. d \notin refundMarks
    BY <1>1 DEF SettledInv, DecidedOnce, ResultStatuses
  <2> QED
    BY <2>1 DEF Holding, TypeOK
<1>2. ASSUME \A d \in reported : DecidedOnce(d), NEW p \in Periods
      PROVE  Cardinality(Billed(p)) <= used[p]
  <2>1. Billed(p) \subseteq Holding(p)
    BY <1>1, <1>2 DEF Billed
  <2>2. IsFiniteSet(Holding(p))
    <3>1. Holding(p) \subseteq docs
      BY DEF Holding
    <3> QED
      BY <3>1, FS_Subset DEF UsageInv
  <2>3. Cardinality(Billed(p)) <= Cardinality(Holding(p))
    BY <2>1, <2>2, FS_Subset
  <2> QED
    BY <2>3 DEF UsageInv, UsageExact
<1> QED
  BY <1>1, <1>2 DEF BilledIsCounted

\* The unit of a document that billing counts is not given back: a repeated,
\* late or reordered result refunds no document of which only one was published,
\* and the account pays for no more than its counter holds.
THEOREM BilledIsCountedHolds == Spec => []BilledIsCounted
<1>1. Init => SettledInv
  BY DEF Init, SettledInv
<1> QED
  BY <1>1, SettledKept, SettledCounts, UsageInit, UsageStep, TypeCorrect, RequestsSoundInit,
     RequestsSoundStep, PTL DEF Spec
=============================================================================
