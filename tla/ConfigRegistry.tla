--------------------------- MODULE ConfigRegistry ---------------------------
(***************************************************************************)
(* A save of a company's fiscal configuration, and the three shared        *)
(* tables it touches: the série claims that keep two companies of one CNPJ *)
(* apart, the guard row that serializes the company quota of an            *)
(* organization, and the marker from which the number of enabled companies *)
(* is reported to billing.  One document model: the keys of another model  *)
(* are other keys.  Every call to DynamoDB or to billing is a step, and    *)
(* the handler may stop, or get an error, between any two of them.         *)
(***************************************************************************)
EXTENDS Integers, FiniteSets

CONSTANTS Companies, Orgs, TaxIds,
          OrgOf,            \* the organization of a company
          TaxIdOf,          \* the CNPJ of a company; several companies may share it
          Limit,            \* the plan's enabled companies, or Unlimited
          Series,           \* séries a form can declare
          Forms,            \* forms of a company: séries per environment, 0 for none
          Before,           \* séries declared by the companies already configured
          Saves,            \* PUT requests that may run at once
          Sweepers,         \* API instances sweeping the dirty markers
          MaxPuts,          \* bound: PUTs in all
          MaxMarks,         \* bound: a plan selection marks a level younger than this
          Late,             \* companies organization-index may not show yet
          Nobody

Ambientes == {"prod", "hom"}
Unlimited == -1

ASSUME RegistryAssumption ==
    /\ IsFiniteSet(Companies) /\ Companies # {}
    /\ OrgOf \in [Companies -> Orgs] /\ TaxIdOf \in [Companies -> TaxIds]
    /\ Limit \in [Orgs -> Nat \cup {Unlimited}]
    /\ Series \subseteq Nat \ {0}
    /\ Forms \in [Companies -> SUBSET [Ambientes -> Series \cup {0}]]
    /\ Nobody \notin Companies
    /\ Saves \cap Sweepers = {}
    /\ MaxPuts \in Nat /\ MaxMarks \in [Orgs -> Nat]
    /\ Late \subseteq Companies

\* What was configured before kept the rules.
ASSUME BeforeAssumption ==
    /\ DOMAIN Before \subseteq Companies
    /\ \A c \in DOMAIN Before : Before[c] \in [Ambientes -> Series \cup {0}]
    /\ \A c, d \in DOMAIN Before, a \in Ambientes :
          c # d /\ TaxIdOf[c] = TaxIdOf[d] /\ Before[c][a] > 0 => Before[d][a] # Before[c][a]
    /\ \A o \in Orgs : Limit[o] # Unlimited =>
          Cardinality({c \in DOMAIN Before : OrgOf[c] = o}) <= Limit[o]

VARIABLES
    configured,   \* companies with a configuration row
    serie,        \* serie[c][a]: the série the row declares, 0 when none
    holder,       \* the série claim table: who holds (CNPJ, ambiente, série)
    guard,        \* version of an organization's quota guard row
    version,      \* version of its companies-level marker
    dirty,        \* the marker is in the dirty index
    recorded,     \* what billing recorded: <<organization, version, level>>
    indexed,      \* companies organization-index shows
    save,         \* the requests
    flush,        \* deliveries of a level, by a request or a sweeper
    raced,        \* history: companies a save of which released a claim while
                  \* another save of the company overlapped it
    puts          \* PUTs so far

vars == <<configured, serie, holder, guard, version, dirty, recorded, indexed,
          save, flush, raced, puts>>

Keys == TaxIds \X Ambientes \X Series
Key(c, a, n) == <<TaxIdOf[c], a, n>>
Blank == [a \in Ambientes |-> 0]

Flushers == Saves \cup Sweepers

\* Where a request stands.
Places == {"idle", "reserve", "count", "previous", "claim", "flush", "release"}
Active(s) == save[s].pc # "idle"

SaveRecords ==
    [pc : Places, company : Companies, form : [Ambientes -> Series \cup {0}],
     reserved : BOOLEAN, guard : Nat, left : SUBSET Ambientes,
     abandoned : [Ambientes -> Series \cup {0}]]

FlushRecords ==
    [pc : {"idle", "count", "report", "clear"}, org : Orgs, version : Nat, count : Nat]

Org(s) == OrgOf[save[s].company]
Goto(s, pc) == save' = [save EXCEPT ![s].pc = pc]

\* A request that ended keeps nothing, nor does a delivery.
AtRest ==
    [pc |-> "idle", company |-> CHOOSE c \in Companies : TRUE, form |-> Blank,
     reserved |-> FALSE, guard |-> 0, left |-> {}, abandoned |-> Blank]
NoFlush ==
    [pc |-> "idle", org |-> CHOOSE o \in Orgs : TRUE, version |-> 0, count |-> 0]

End(s) == save' = [save EXCEPT ![s] = AtRest]

\* The companies of an organization that count: membership comes from the
\* index, enablement from a consistent read of the configuration tables.
Counted(o, include) ==
    {c \in configured : OrgOf[c] = o /\ (c \in indexed \/ c \in include)}

Enabled(o) == {c \in configured : OrgOf[c] = o}

\* Organizations all of whose companies the index shows.
Visible(o) == \A c \in Late : OrgOf[c] # o

\* The environments of a loop are taken in this order.
First(left) == IF "prod" \in left THEN "prod" ELSE "hom"

Declared(form) == {a \in Ambientes : form[a] > 0}
\* Mutant: all of the previous configuration.
AbandonedAll(before, form) == before

\* What the previous configuration declared and the form does not.
Abandoned(before, form) == [a \in Ambientes |-> IF before[a] # form[a] THEN before[a] ELSE 0]

\* Company c declared the série of claim k.
Declares(c, k) == \E a \in Ambientes : Before[c][a] > 0 /\ Key(c, a, Before[c][a]) = k

Init ==
    /\ configured = DOMAIN Before
    /\ serie = [c \in Companies |-> IF c \in DOMAIN Before THEN Before[c] ELSE Blank]
    /\ holder = [k \in Keys |-> IF \E c \in DOMAIN Before : Declares(c, k)
                              THEN CHOOSE c \in DOMAIN Before : Declares(c, k)
                              ELSE Nobody]
    /\ guard = [o \in Orgs |-> 0]
    /\ version = [o \in Orgs |-> 0]
    /\ dirty = [o \in Orgs |-> FALSE]
    /\ recorded = {}
    /\ indexed = Companies \ Late
    /\ save = [s \in Saves |-> AtRest]
    /\ flush = [f \in Flushers |-> NoFlush]
    /\ raced = {}
    /\ puts = 0

-----------------------------------------------------------------------------
(* The quota *)

StartSave(s, c, form) ==
    /\ save[s].pc = "idle" /\ puts < MaxPuts
    /\ puts' = puts + 1
    /\ save' = [save EXCEPT ![s] = [@ EXCEPT !.pc = "reserve", !.company = c, !.form = form]]
    /\ UNCHANGED <<configured, serie, holder, guard, version, dirty, recorded, indexed, flush, raced>>

\* A configured company reserves nothing.  For the others the guard's version
\* is read before the count.
ReserveCompany(s) ==
    /\ save[s].pc = "reserve"
    /\ LET first == save[s].company \notin configured
           limited == first /\ Limit[Org(s)] # Unlimited
       IN save' = [save EXCEPT ![s] = [@ EXCEPT !.reserved = first,
                                                !.guard = IF limited THEN guard[Org(s)] ELSE 0,
                                                !.pc = IF limited THEN "count" ELSE "previous"]]
    /\ UNCHANGED <<configured, serie, holder, guard, version, dirty, recorded, indexed, flush, raced, puts>>

CompaniesUsed(s) ==
    /\ save[s].pc = "count"
    /\ IF Cardinality(Counted(Org(s), {})) < Limit[Org(s)]
       THEN Goto(s, "previous") ELSE End(s)
    /\ UNCHANGED <<configured, serie, holder, guard, version, dirty, recorded, indexed, flush, raced, puts>>

-----------------------------------------------------------------------------
(* The série claims *)

\* The configuration this save replaces; unreadable, it releases nothing.
ReadPrevious(s) ==
    /\ save[s].pc = "previous"
    /\ \E before \in {serie[save[s].company], Blank} :
          save' = [save EXCEPT ![s] = [@ EXCEPT !.abandoned = Abandoned(before, save[s].form),
                                                !.left = Declared(save[s].form),
                                                !.pc = "claim"]]
    /\ UNCHANGED <<configured, serie, holder, guard, version, dirty, recorded, indexed, flush, raced, puts>>

\* Mutant: a put without a condition.
ClaimableAlways(k, c) == TRUE

\* The conditional put: free, or already this company's own.
Claimable(k, c) == holder[k] \in {Nobody, c}

\* Mutant: the claim names the CNPJ, which companies share, and not the company.
ClaimForTaxId(s) ==
    /\ save[s].pc = "claim" /\ save[s].left # {}
    /\ LET a == First(save[s].left)
           c == save[s].company
           k == Key(c, a, save[s].form[a])
       IN IF Claimable(k, c)
          THEN /\ holder' = [holder EXCEPT ![k] = TaxIdOf[c]]
               /\ save' = [save EXCEPT ![s].left = @ \ {a}]
          ELSE End(s) /\ UNCHANGED holder
    /\ UNCHANGED <<configured, serie, guard, version, dirty, recorded, indexed, flush, raced, puts>>

Claim(s) ==
    /\ save[s].pc = "claim" /\ save[s].left # {}
    /\ LET a == First(save[s].left)
           c == save[s].company
           k == Key(c, a, save[s].form[a])
       IN IF Claimable(k, c)
          THEN /\ holder' = [holder EXCEPT ![k] = c]
               /\ save' = [save EXCEPT ![s].left = @ \ {a}]
          ELSE End(s) /\ UNCHANGED holder
    /\ UNCHANGED <<configured, serie, guard, version, dirty, recorded, indexed, flush, raced, puts>>

\* Mutant: no guard item in the transaction.
Unguarded(s) == TRUE

\* What the guard item's condition checks; without a guard item, nothing.
GuardHolds(s) ==
    save[s].reserved /\ Limit[Org(s)] # Unlimited => guard[Org(s)] = save[s].guard

\* The row, its audit entry, the guard and the level marker in one transaction.
Upsert(s) ==
    /\ save[s].pc = "claim" /\ save[s].left = {}
    /\ LET c == save[s].company
           o == Org(s)
           reserved == save[s].reserved
       IN /\ GuardHolds(s)
          /\ configured' = configured \cup {c}
          /\ serie' = [serie EXCEPT ![c] = save[s].form]
          /\ guard' = IF reserved /\ Limit[o] # Unlimited
                      THEN [guard EXCEPT ![o] = save[s].guard + 1] ELSE guard
          /\ version' = IF reserved THEN [version EXCEPT ![o] = @ + 1] ELSE version
          /\ dirty' = IF reserved THEN [dirty EXCEPT ![o] = TRUE] ELSE dirty
          /\ save' = [save EXCEPT ![s] = [@ EXCEPT !.pc = IF reserved THEN "flush" ELSE "release",
                                                   !.reserved = FALSE,
                                                   !.guard = 0]]
    /\ UNCHANGED <<holder, recorded, indexed, flush, raced, puts>>

UpsertConflict(s) ==
    /\ save[s].pc = "claim" /\ save[s].left = {} /\ ~GuardHolds(s)
    /\ End(s)
    /\ UNCHANGED <<configured, serie, holder, guard, version, dirty, recorded, indexed, flush, raced, puts>>

\* Another save of the company is under way, or has written the row since.
Overtaken(s) ==
    \/ \E t \in Saves \ {s} : Active(t) /\ save[t].company = save[s].company
    \/ serie[save[s].company] # save[s].form

\* The conditional delete.  A failed one is logged, and the loop goes on.
Release(s) ==
    /\ save[s].pc = "release" /\ Declared(save[s].abandoned) # {}
    /\ LET a == First(Declared(save[s].abandoned))
           c == save[s].company
           k == Key(c, a, save[s].abandoned[a])
       IN /\ \/ /\ holder' = [holder EXCEPT ![k] = IF @ = c THEN Nobody ELSE @]
                /\ raced' = IF Overtaken(s) THEN raced \cup {c} ELSE raced
             \/ UNCHANGED <<holder, raced>>
          /\ save' = [save EXCEPT ![s].abandoned[a] = 0]
    /\ UNCHANGED <<configured, serie, guard, version, dirty, recorded, indexed, flush, puts>>

Answer(s) ==
    /\ save[s].pc = "release" /\ Declared(save[s].abandoned) = {}
    /\ End(s)
    /\ UNCHANGED <<configured, serie, holder, guard, version, dirty, recorded, indexed, flush, raced, puts>>

\* An error before the end, a commit whose answer was lost, or the process
\* stopping: what was done stays done.
Stop(s) ==
    /\ Active(s)
    /\ End(s)
    /\ flush' = [flush EXCEPT ![s] = NoFlush]
    /\ UNCHANGED <<configured, serie, holder, guard, version, dirty, recorded, indexed, raced, puts>>

-----------------------------------------------------------------------------
(* The level reporter *)

\* Choosing or changing the plan marks the level too; the flush that follows is
\* a sweep of this organization alone.
MarkCompaniesLevel(o) ==
    /\ version[o] < MaxMarks[o]
    /\ version' = [version EXCEPT ![o] = @ + 1]
    /\ dirty' = [dirty EXCEPT ![o] = TRUE]
    /\ UNCHANGED <<configured, serie, holder, guard, recorded, indexed, save, flush, raced, puts>>

\* The company a flush right after a save counts whatever the index shows.
Included(f) == IF f \in Saves THEN {save[f].company} ELSE {}

AfterFlush(f) ==
    /\ flush' = [flush EXCEPT ![f] = NoFlush]
    /\ IF f \in Saves THEN Goto(f, "release") ELSE UNCHANGED save

\* Mutant: no sweeper.
RequestFlushes(f, o) == f \in Saves /\ save[f].pc = "flush" /\ Org(f) = o

MayFlush(f, o) == f \in Saves => save[f].pc = "flush" /\ Org(f) = o

GetLevelMarker(f, o) ==
    /\ flush[f].pc = "idle" /\ MayFlush(f, o)
    /\ dirty[o]
    /\ flush' = [flush EXCEPT ![f] = [@ EXCEPT !.pc = "count",
                                               !.org = o,
                                               !.version = version[o]]]
    /\ UNCHANGED <<configured, serie, holder, guard, version, dirty, recorded, indexed, save, raced, puts>>

\* Another flush delivered the level first.
NothingDirty(s) ==
    /\ save[s].pc = "flush" /\ flush[s].pc = "idle" /\ ~dirty[Org(s)]
    /\ AfterFlush(s)
    /\ UNCHANGED <<configured, serie, holder, guard, version, dirty, recorded, indexed, raced, puts>>

CountLevel(f) ==
    /\ flush[f].pc = "count"
    /\ flush' = [flush EXCEPT ![f] = [@ EXCEPT !.pc = "report",
                                               !.count = Cardinality(Counted(flush[f].org, Included(f)))]]
    /\ UNCHANGED <<configured, serie, holder, guard, version, dirty, recorded, indexed, save, raced, puts>>

\* The idempotency key is the version: billing keeps the first body under it
\* and answers any other with a conflict the reporter reads as recorded.
ReportLevel(f) ==
    /\ flush[f].pc = "report"
    /\ LET o == flush[f].org  v == flush[f].version
       IN recorded' = IF \E r \in recorded : r[1] = o /\ r[2] = v THEN recorded
                      ELSE recorded \cup {<<o, v, flush[f].count>>}
    /\ flush' = [flush EXCEPT ![f].pc = "clear"]
    /\ UNCHANGED <<configured, serie, holder, guard, version, dirty, indexed, save, raced, puts>>

\* Mutant: the marker is cleared whatever version it carries.
ClearsAnyVersion(f) == TRUE

\* Only the version that was reported leaves the dirty index.
Clearable(f) == version[flush[f].org] = flush[f].version

ClearLevelDirty(f) ==
    /\ flush[f].pc = "clear"
    /\ dirty' = IF Clearable(f) THEN [dirty EXCEPT ![flush[f].org] = FALSE] ELSE dirty
    /\ AfterFlush(f)
    /\ UNCHANGED <<configured, serie, holder, guard, version, recorded, indexed, raced, puts>>

\* Any other error, of the tables or of billing, leaves the marker dirty.
FlushFails(f) ==
    /\ flush[f].pc # "idle"
    /\ AfterFlush(f)
    /\ UNCHANGED <<configured, serie, holder, guard, version, dirty, recorded, indexed, raced, puts>>

IndexCatchesUp(c) ==
    /\ c \notin indexed
    /\ indexed' = indexed \cup {c}
    /\ UNCHANGED <<configured, serie, holder, guard, version, dirty, recorded, save, flush, raced, puts>>

-----------------------------------------------------------------------------
SaveStep(s) ==
    \/ \E c \in Companies : \E form \in Forms[c] : StartSave(s, c, form)
    \/ ReserveCompany(s) \/ CompaniesUsed(s)
    \/ ReadPrevious(s) \/ Claim(s)
    \/ Upsert(s) \/ UpsertConflict(s)
    \/ NothingDirty(s) \/ Release(s) \/ Answer(s) \/ Stop(s)

FlushStep(f) ==
    \/ \E o \in Orgs : GetLevelMarker(f, o)
    \/ CountLevel(f) \/ ReportLevel(f) \/ ClearLevelDirty(f) \/ FlushFails(f)

Next ==
    \/ \E s \in Saves : SaveStep(s)
    \/ \E f \in Flushers : FlushStep(f)
    \/ \E o \in Orgs : MarkCompaniesLevel(o)
    \/ \E c \in Companies : IndexCatchesUp(c)

Spec == Init /\ [][Next]_vars

\* What the last step of a delivery would have cleared is left as it was.
LeftDirty(f) == Clearable(f) /\ dirty[flush[f].org]

\* The sweep runs every two minutes for ever, and its errors do not last for
\* ever.  A request ends; it owes nobody its release.
Fairness ==
    \A f \in Sweepers :
       /\ WF_vars(FlushStep(f))
       /\ <>[][FlushFails(f) => flush[f].pc = "clear" /\ ~LeftDirty(f)]_vars

FairSpec == Spec /\ Fairness

-----------------------------------------------------------------------------
(* Properties *)

\* Every variable has its type: the one type invariant of the module.
TypeOK ==
    /\ configured \subseteq Companies
    /\ serie \in [Companies -> [Ambientes -> Series \cup {0}]]
    /\ holder \in [Keys -> Companies \cup {Nobody}]
    /\ guard \in [Orgs -> Nat] /\ version \in [Orgs -> Nat]
    /\ dirty \in [Orgs -> BOOLEAN]
    /\ recorded \subseteq Orgs \X Nat \X Nat
    /\ indexed \subseteq Companies
    /\ save \in [Saves -> SaveRecords]
    /\ flush \in [Flushers -> FlushRecords]
    /\ raced \subseteq Companies /\ puts \in 0..MaxPuts

\* A série a configuration declares is claimed by its company, whatever fails
\* half way: "claim first, write second, release last" of registerFiscalConfig.
\* Except where a save released a claim while another save of the company
\* overlapped it: nothing serializes the PUTs of one company.
ClaimsCoverConfig ==
    \A c \in Companies \ raced, a \in Ambientes :
       serie[c][a] > 0 => holder[Key(c, a, serie[c][a])] = c

\* Two companies on one CNPJ do not declare the same série.
Distinct(c, d) ==
    c # d /\ TaxIdOf[c] = TaxIdOf[d] =>
       \A a \in Ambientes : serie[c][a] > 0 => serie[d][a] # serie[c][a]

\* Two companies on one CNPJ never declare the same série, whatever saves of
\* both interleave and fail, except where such a release took the claim.
SeriesUnique == \A c, d \in Companies \ raced : Distinct(c, d)

\* What fiscalConfigDeps says the claim table is for: it "keeps two companies
\* on one CNPJ off the same série".  It does not when two saves of one company
\* overlap.
SeriesUniqueAlways == \A c, d \in Companies : Distinct(c, d)

\* Two companies racing for the last slot of a plan do not both take it: the
\* guard row of ReserveCompany.  The count must be complete: the guard is
\* consistent, the index it lists the companies from is not.
EnabledWithinLimit ==
    \A o \in Orgs : Visible(o) /\ Limit[o] # Unlimited => Cardinality(Enabled(o)) <= Limit[o]

\* A marker leaves the dirty index only once billing holds the organization's
\* current number of enabled companies under its current version, whatever
\* flushes of it overlap.
LevelRecorded ==
    \A o \in Orgs :
       Visible(o) /\ version[o] > 0 /\ ~dirty[o] => <<o, version[o], Cardinality(Enabled(o))>> \in recorded

\* A level change is delivered: "a failure here is delivered by the sweeper,
\* never lost" of writeFiscalConfig.
LevelArrives == \A o \in Orgs : dirty[o] ~> ~dirty[o]

=============================================================================
