------------------------------ MODULE Issuance ------------------------------
(***************************************************************************)
(* Issuing a document in the API: an emission request reads the company's  *)
(* fiscal configuration (série and next number) and the account's usage,   *)
(* then commits the number, the document and the quota unit in one         *)
(* DynamoDB transaction.  Between the reads and the transaction other      *)
(* requests commit, users save the fiscal configuration (a read followed   *)
(* by an unconditional Put of the whole row), and the emission type is     *)
(* switched.  Results of the worker come back later, possibly twice and    *)
(* in any order, and give the unit back or report the usage.               *)
(*                                                                         *)
(* One fiscal model and the production environment: the other models and   *)
(* the homologation counter are separate attributes with the same code,    *)
(* and homologation documents take no quota.                               *)
(***************************************************************************)
EXTENDS Integers, FiniteSets

CONSTANTS
    Companies,      \* the companies of one billing account
    Emissions,      \* emission requests; also the document each one creates
    Saves,          \* PUT requests of a fiscal configuration
    Series,         \* séries a configuration may declare
    EmissionTypes,  \* normal, svc, epec, offline
    Normal,         \* the emission type of a row that names none
    Edits,          \* numbers a user may type over the form's counter
    Limit,          \* the plan's quota per period; negative: unlimited
    MaxPeriod       \* bound: periods are 1..MaxPeriod

ASSUME NormalAssumption == Normal \in EmissionTypes
ASSUME EditsAssumption == Edits \subseteq Nat
ASSUME LimitAssumption == Limit \in Int
ASSUME MaxPeriodAssumption == MaxPeriod \in Nat \ {0}

Periods == 1..MaxPeriod

\* The number the form shows for a company without a configuration row.
FreshNumber == 1

VARIABLES
    configured,   \* companies that have a configuration row
    serie,        \* the row's prod_current_serie
    number,       \* the row's prod_current_number: the next number to issue
    emission,     \* the row's emission_type
    period,       \* the account's current usage period
    used,         \* the usage counter of each period
    req,          \* what each emission request has read, and how far it is
    save,         \* the same for each configuration PUT
    docs,         \* requests whose document exists
    results,      \* result messages published so far: <<document, status>>
    refundMarks,  \* documents with a refund marker row
    reported,     \* documents whose usage billing has recorded
    edited,       \* history: companies whose counter a save has changed
    lowered,      \* history: companies whose counter a save has lowered
    base          \* history: the counter the company started from

configVars == <<configured, serie, number, emission>>
quotaVars == <<period, used, refundMarks, reported>>
history == <<edited, lowered, base>>
vars == <<configVars, quotaVars, req, save, docs, results, history>>

NoPeriod == 0
RequestStates == {"idle", "read", "admitted", "created", "conflict", "refused"}
SaveStates == {"idle", "loaded", "submitted", "written"}
ResultStatuses == {"authorized", "rejected", "failed"}

Request == [pc : RequestStates, company : Companies, serie : Series,
            number : Nat, period : 0..MaxPeriod]
Save == [pc : SaveStates, company : Companies, serie : Series,
         number : Nat, emission : EmissionTypes]

Init ==
    /\ configured \in SUBSET Companies
    /\ serie \in [Companies -> Series]
    /\ number = [c \in Companies |-> FreshNumber]
    /\ emission = [c \in Companies |-> Normal]
    /\ period = 1
    /\ used = [p \in Periods |-> 0]
    /\ \E who \in [Emissions -> Companies] :
          req = [e \in Emissions |-> [pc |-> "idle", company |-> who[e],
                    serie |-> serie[who[e]], number |-> FreshNumber, period |-> NoPeriod]]
    /\ \E who \in [Saves -> Companies] :
          save = [s \in Saves |-> [pc |-> "idle", company |-> who[s],
                    serie |-> serie[who[s]], number |-> FreshNumber, emission |-> Normal]]
    /\ docs = {}
    /\ results = {}
    /\ refundMarks = {}
    /\ reported = {}
    /\ edited = {}
    /\ lowered = {}
    /\ base = [c \in Companies |-> FreshNumber]

-----------------------------------------------------------------------------
(* Emission requests *)

\* Emit's read of the configuration row: the série and the next number.
\* A company without a row is told to configure first.
ReadConfig(e) ==
    LET c == req[e].company IN
    /\ req[e].pc = "idle"
    /\ c \in configured
    /\ req' = [req EXCEPT ![e] = [@ EXCEPT !.pc = "read",
                                           !.serie = serie[c],
                                           !.number = number[c]]]
    /\ UNCHANGED <<configVars, quotaVars, save, docs, results, history>>

\* PrepareUsageReservation: the period and its counter are read now.
UnitLeft(p) == Limit < 0 \/ used[p] < Limit

Admit(e) ==
    /\ req[e].pc = "read"
    /\ req' = IF UnitLeft(period)
              THEN [req EXCEPT ![e] = [@ EXCEPT !.pc = "admitted", !.period = period]]
              ELSE [req EXCEPT ![e].pc = "refused"]
    /\ UNCHANGED <<configVars, quotaVars, save, docs, results, history>>

\* Faulty variants of the next definition.
MutantNumberUnchecked(e) == e \in Emissions
\* TransactReserveAndCreate's condition on the counter.  The attribute always
\* exists in a row a configuration PUT wrote.
NumberUnmoved(e) == number[req[e].company] = req[e].number

\* Faulty variants of the next definition.
MutantNextNumberSkips(e) == req[e].number + 2
\* The counter after an emission.
NextNumber(e) == req[e].number + 1

\* The period whose counter the transaction increments.
ReservedPeriod(e) == req[e].period

\* Faulty variants of the next definition.
MutantUnitUnchecked(p) == p \in Periods
MutantUnitUpToLimit(p) == Limit < 0 \/ used[p] <= Limit
\* BuildReserveUsageTx's condition on the counter, evaluated by the transaction.
UnitClaimable(p) == Limit < 0 \/ used[p] < Limit

\* The transaction: counter, document and quota unit, all or none.
Commit(e) ==
    /\ req[e].pc = "admitted"
    /\ NumberUnmoved(e)
    /\ UnitClaimable(ReservedPeriod(e))
    /\ number' = [number EXCEPT ![req[e].company] = NextNumber(e)]
    /\ used' = [used EXCEPT ![ReservedPeriod(e)] = @ + 1]
    /\ docs' = docs \union {e}
    /\ req' = [req EXCEPT ![e].pc = "created"]
    /\ UNCHANGED <<configured, serie, emission, period, refundMarks, reported,
                   save, results, history>>

\* The transaction is cancelled: 409, and nothing is written.
CommitConflict(e) ==
    /\ req[e].pc = "admitted"
    /\ ~(NumberUnmoved(e) /\ UnitClaimable(ReservedPeriod(e)))
    /\ req' = [req EXCEPT ![e].pc = "conflict"]
    /\ UNCHANGED <<configVars, quotaVars, save, docs, results, history>>

-----------------------------------------------------------------------------
(* Configuration saves *)

\* The form loads the row (or the defaults of a company without one).
LoadForm(s) ==
    LET c == save[s].company IN
    /\ save[s].pc = "idle"
    /\ save' = [save EXCEPT ![s] = [@ EXCEPT !.pc = "loaded",
                                             !.number = IF c \in configured THEN number[c] ELSE FreshNumber]]
    /\ UNCHANGED <<configVars, quotaVars, req, docs, results, history>>

\* The user submits a série and the form's number, or one typed over it;
\* Upsert reads the current row and carries its emission type forward.
SubmitSave(s) ==
    LET c == save[s].company IN
    /\ save[s].pc = "loaded"
    /\ \E ser \in Series, num \in {save[s].number} \union Edits :
          save' = [save EXCEPT ![s] =
                     [@ EXCEPT !.pc = "submitted", !.serie = ser, !.number = num,
                               !.emission = IF c \in configured THEN emission[c] ELSE Normal]]
    /\ UNCHANGED <<configVars, quotaVars, req, docs, results, history>>

\* Whether the save moves the counter of a company that already has one.
Moves(s) == save[s].company \in configured /\ save[s].number # number[save[s].company]
Lowers(s) == Moves(s) /\ save[s].number < number[save[s].company]

\* Upsert's transaction: an unconditional Put of the whole row.
WriteSave(s) ==
    LET c == save[s].company IN
    /\ save[s].pc = "submitted"
    /\ configured' = configured \union {c}
    /\ serie' = [serie EXCEPT ![c] = save[s].serie]
    /\ number' = [number EXCEPT ![c] = save[s].number]
    /\ emission' = [emission EXCEPT ![c] = save[s].emission]
    /\ save' = [save EXCEPT ![s].pc = "written"]
    /\ edited' = IF Moves(s) THEN edited \union {c} ELSE edited
    /\ lowered' = IF Lowers(s) THEN lowered \union {c} ELSE lowered
    /\ base' = IF c \in configured THEN base ELSE [base EXCEPT ![c] = save[s].number]
    /\ UNCHANGED <<quotaVars, req, docs, results>>

\* SetEmission: an Update of the emission attributes of an existing row.
SetEmission(c, t) ==
    /\ c \in configured
    /\ emission[c] # t
    /\ emission' = [emission EXCEPT ![c] = t]
    /\ UNCHANGED <<configured, serie, number, quotaVars, req, save, docs, results, history>>

-----------------------------------------------------------------------------
(* Time, results and settlement *)

\* A new usage period of the subscription begins.
NextPeriod ==
    /\ period < MaxPeriod
    /\ period' = period + 1
    /\ UNCHANGED <<configVars, used, refundMarks, reported, req, save, docs, results, history>>

\* The worker, or the DLQ processor after it, publishes a document's result.
\* Nothing here limits a document to one status: DfeWorker says which it gets.
PublishResult(d, status) ==
    /\ d \in docs
    /\ <<d, status>> \notin results
    /\ results' = results \union {<<d, status>>}
    /\ UNCHANGED <<configVars, quotaVars, req, save, docs, history>>

\* Faulty variants of the next definition.
MutantRefundDueAlways(d) == d \in docs
MutantRefundDueUnmarked(d) == used[ReservedPeriod(d)] > 0
MutantRefundDueAboveOne(d) == d \notin refundMarks /\ used[ReservedPeriod(d)] > 1
\* RefundUsageOnce: marker and decrement in one transaction, refused when the
\* marker exists or the counter is zero.
RefundDue(d) == d \notin refundMarks /\ used[ReservedPeriod(d)] > 0

RefundReservedUsage(d) ==
    /\ RefundDue(d)
    /\ refundMarks' = refundMarks \union {d}
    /\ used' = [used EXCEPT ![ReservedPeriod(d)] = @ - 1]
    /\ UNCHANGED <<period, reported>>

\* ReportUsage is idempotent on the document's key.
ReportReservedUsage(d) ==
    /\ reported' = reported \union {d}
    /\ UNCHANGED <<period, used, refundMarks>>

\* settleBilling on one delivery of a result message; messages stay in
\* "results", so a delivery may be repeated, late or out of order.
Settle(d, status) ==
    /\ <<d, status>> \in results
    /\ IF status = "authorized" THEN ReportReservedUsage(d) ELSE RefundReservedUsage(d)
    /\ UNCHANGED <<configVars, req, save, docs, results, history>>

-----------------------------------------------------------------------------
EmissionStep(e) == ReadConfig(e) \/ Admit(e) \/ Commit(e) \/ CommitConflict(e)
SaveStep(s) == LoadForm(s) \/ SubmitSave(s) \/ WriteSave(s)
ResultStep(d) == \E status \in ResultStatuses : PublishResult(d, status) \/ Settle(d, status)

Next ==
    \/ \E e \in Emissions : EmissionStep(e)
    \/ \E s \in Saves : SaveStep(s)
    \/ \E c \in Companies, t \in EmissionTypes : SetEmission(c, t)
    \/ NextPeriod
    \/ \E d \in Emissions : ResultStep(d)

Spec == Init /\ [][Next]_vars

\* The results consumer keeps polling its queue, and a message it could not
\* settle is delivered again.
Fairness == \A d \in Emissions, status \in ResultStatuses : WF_vars(Settle(d, status))

FairSpec == Spec /\ Fairness

-----------------------------------------------------------------------------
(* Properties *)

\* Every variable has its type: the one type invariant of the module.
TypeOK ==
    /\ configured \subseteq Companies
    /\ serie \in [Companies -> Series]
    /\ number \in [Companies -> Nat]
    /\ emission \in [Companies -> EmissionTypes]
    /\ period \in Periods
    /\ used \in [Periods -> Nat]
    /\ req \in [Emissions -> Request]
    /\ save \in [Saves -> Save]
    /\ docs \subseteq Emissions
    /\ results \subseteq docs \X ResultStatuses
    /\ refundMarks \subseteq docs
    /\ reported \subseteq docs
    /\ edited \subseteq Companies
    /\ lowered \subseteq Companies
    /\ base \in [Companies -> Nat]

\* The documents that hold a unit of period p: created under it, not refunded.
Holding(p) == {d \in docs : req[d].period = p} \ refundMarks

\* The usage counter of every period is exactly the number of documents that
\* hold a unit of it, whatever the order of commits, period changes and
\* repeated results: a quota claim never exists without the document it paid
\* for, and a refund lands once, in the period the unit was taken from.
UsageExact == \A p \in Periods : used[p] = Cardinality(Holding(p))

\* The limit cannot be passed by two requests that both read a free unit.
UsageWithinLimit == Limit >= 0 => \A p \in Periods : used[p] <= Limit

\* As long as no save has lowered a company's counter, every number it issued
\* is below the counter, so no later request can be given it again.
IssuedBelowCounter ==
    \A d \in docs : req[d].company \notin lowered =>
        req[d].number < number[req[d].company]

SameNumber(d, e) ==
    /\ req[d].company = req[e].company
    /\ req[d].serie = req[e].serie
    /\ req[d].number = req[e].number

\* Concurrent requests, and saves that move the counter forward or change the
\* série, never give two documents of a company one (série, number).
NumbersUnique ==
    \A d, e \in docs : SameNumber(d, e) /\ req[d].company \notin lowered => d = e

\* While no save has moved the counter the issued numbers have no gap, so the
\* company has nothing to inutilize: a failed request consumes no number.
NoGaps ==
    \A c \in Companies \ edited :
        {req[d].number : d \in {x \in docs : req[x].company = c}} = base[c]..(number[c] - 1)

\* A rejected or failed document gets its unit back, even when its result is
\* delivered after the period it was reserved in.
RefundArrives ==
    \A d \in Emissions, status \in {"rejected", "failed"} :
        <<d, status>> \in results ~> d \in refundMarks

\* The counters implement the abstract ledger of quota units.
Ledger == INSTANCE QuotaLedger WITH
    Docs <- Emissions,
    granted <- [p \in Periods |-> Holding(p)],
    returned <- refundMarks

LedgerSpec == Ledger!Spec

\* What the repository says of a (série, number) pair, without the exception
\* of NumbersUnique: two documents never share one.
NumbersUniqueAlways == \A d, e \in docs : SameNumber(d, e) => d = e
=============================================================================
