# A TLA+ model of ctech-dfe

ctech-dfe issues Brazilian fiscal documents (NF-e, NFC-e, CT-e, MDF-e, NFS-e)
for the companies of an organization. An API commits a document and its number
in DynamoDB, a worker sends it to the tax authority (SEFAZ) through an egress
Lambda, and a consumer of the worker's results settles the usage with a billing
system. Around that core, jobs fetch the documents issued against a company, a
saga deletes an account, and the API keeps a copy of the subscription that
another system owns. This directory holds TLA+ modules of the parts whose
correctness depends on order, failure or concurrency, the TLC configurations
that check small instances, and TLAPS proofs of what holds for every instance.

Paths below are relative to the repository root. `tlc -config X.cfg M` runs a
configuration; `tlapm M.tla`, with M one of the `*Proofs` modules, checks its
proofs.

## 1. Inventory

For each part: the state it keeps, its operations, who it talks to, what is
hard about it, and what makes it correct. `PROJECT.json` lists the same parts
with their status, and the hazards with the lines where they bite.

### Issuance (`api/internal/services/*/emit.go`, `repositories/documents.go`)

State: the fiscal configuration row of a company (série, next number, emission
type), the document rows, the account's usage counters, the `worker_outbox`
rows. `Emit` reads the configuration, prepares a usage reservation, builds the
document, and commits counter + document + outbox row + quota unit in one
`TransactWriteItems` (`TransactReserveAndCreate`). A cancelled transaction is a
409 and writes nothing. Hard: other emissions and configuration saves commit
between the reads and the transaction. Correct when no two documents of a
company share (série, number), no number is skipped by a failed request, and
the quota limit holds.

### Fiscal configuration (`services/fiscal_configs.go`, `repositories/fiscal_config.go`)

A PUT replaces the whole row unconditionally, with the number the user's form
loaded earlier (`ui/.../FiscalConfigForm.tsx`) and with the emission attributes
and the NSU bookkeeping of a row read just before; `SetEmission` updates only
the emission attributes. Hard: a read-modify-write that races with emissions,
with distribution jobs and with itself.

### Série claims (`repositories/serie_claim.go`, `services/serie.go`, `api/v1/helpers.go`)

One claim row per (CNPJ, modelo, ambiente, série), taken by a conditional Put
before a configuration is written; the séries the new configuration gave up are
released after. Hard: claim, write and release are separate calls, each may
fail, the previous configuration is read before the write, and nothing
serializes two saves of one company. Correct when a declared série is always
claimed by its company, so that two companies on one CNPJ never declare the same
one; overlapping saves of one company break that (section 3).

### Company quota and level reporter (`services/billing.go`, `services/levels.go`, `repositories/account_billing.go`)

A company counts against the plan once it has a configuration row. The first
save of a company reads the version of the organization's guard row, counts, and
writes its row together with guard + 1 and a level marker (version + 1, in the
dirty index) in one transaction. A flush reads the marker, counts, reports the
level to billing under the marker's version as idempotency key, and takes the
marker out of the index if the version is still the same; the request flushes
once, and a sweeper every two minutes. Hard: count and write are apart, flushes
overlap, the index the companies are listed from is eventually consistent.
Correct when the limit holds and billing ends up with the last level.

### Usage quota (`services/billing.go`, `repositories/account_billing.go`)

A counter per account and period, incremented under a condition inside the
issuing transaction, decremented once per document through a marker row
(`RefundUsageOnce`), and a usage report to ctech-billing keyed by the document.
Hard: the limit is checked twice (at preparation and in the transaction),
results are delivered at least once and in any order, the period may change
in between. Correct when a counter is exactly the number of units held.

### Results consumer (`api/internal/consumer/results.go`)

Polls the results queue, settles with billing (report / refund / nothing,
by status), broadcasts, deletes the message only after a settlement succeeded.
A settlement that fails is redelivered, and in the end dead-lettered.

### Outbox publisher (`worker/cmd/outbox-publisher`)

A DynamoDB stream consumer: publishes an outbox record's command to SNS, then
acknowledges it in the row. A failure repeats the record.

### DF-e worker (`worker/internal/service`)

State: `status`, `processing_owner` and `processing_lease_until` of a document
or event row; the processed XML in S3. One invocation claims the row under a
condition, calls SEFAZ through the egress Lambda, stores the XML, writes the
status under its ownership, publishes the result. A failure goes back to
`retryable_failed` and to Lambda, which retries twice. A 204 (duplicate) answer
is reconciled with a consulta. Hard: everything may stop between two steps, the
call outlives its caller, the same command is delivered several times, a lease
may end while its owner is still at work. Correct when SEFAZ is never asked
twice at once for one row, a decision once taken stays, a status only says what
SEFAZ and S3 hold, and every document ends.

### SEFAZ engine and egress (`go-dfe`, `go-dfe-egress`)

Builds, signs and posts a request, retries the post, and maps the outcome to an
HTTP-like status. Any failed exchange, a timeout included, comes back as a 400
(`go-dfe/dfe.go:145-147`): this is what makes lost answers look like invalid
requests.

### DLQ processor (`worker/cmd/dlq-processor`)

Receives a job whose tries ran out, writes `failed` (or `error`) with
`attribute_exists(pk)` as its only condition, publishes the failed result,
retries itself, and in the end parks the job.

### Document events (`services/nfes/service.go`, `services/mdfes/events.go`)

Cancel, close and correction requests check that the document is authorized,
create an event row, mark the document `cancel_pending`/`close_pending`, publish
straight to SNS: three calls, no transaction, no outbox.

### Distribution (`worker/internal/service/distribution.go`, `worker/cmd/distribution-*`, `services/distributions.go`)

SEFAZ numbers the documents issued against a CNPJ (NSU); the company's
configuration row keeps the cursor of the last one fetched, the time of the last
call and the end of a penalty. A job of the half-hourly dispatcher or of a
user's sync claims the hour's slot, asks for what follows the cursor, processes
the answer (documents, counterparties, cancellations), and moves the cursor. A
look-up fetches one document by its key. Hard: jobs, look-ups and configuration
saves overlap, an attempt dies half way through an answer and is repeated, the
cursor can go back. Correct when the cursor never passes what was not processed,
one job works at a time (SEFAZ punishes the second), a received cancellation
reaches its document, and the company catches up.

### Account deletion (`services/erasure*.go`, `worker/internal/service/erasure.go`)

A queue message starts a saga: lock every company (workers read the lock and
drop their jobs), purge each company stage by stage, and, once every lock is
older than the settle window, tombstone the companies, delete their items, the
billing rows and the person, and acknowledge to ctech-account. Hard: a delivery
stops anywhere and is repeated, two run at once, a job that passed the check
before the lock still writes. Correct when an erased company has nothing left
and nothing comes back, a stopped delivery leaves nothing its successor cannot
find, and the acknowledgement is true.

### Subscription (`services/billing.go`, `api/v1/billing.go`, `repositories/account_billing.go`)

Billing owns the subscriptions. The API keeps a snapshot row, rewritten whole
from a fresh read of billing by every sync, and a cache in front of it. A
webhook delivery syncs, then marks its event; choosing, changing or canceling a
plan decides on the snapshot, calls billing, syncs. Hard: syncs overtake each
other, a read fills the cache after an invalidation, a decision is taken on an
old snapshot, answers get lost. Correct when no answered event is lost, the gate
ends up with what billing says, and a second live subscription is not opened by
a request that could have known better.

### Memberships and invitations (`services/memberships.go`, `invitations.go`, `link.go`)

A membership row gives a role; a cache entry in front of it backs every
authorization; invitations are rows with a token; linking a company created in
ctech-account puts its item, when there is none, and makes the caller OWNER. Hard: the guard of the
last OWNER and its write are separate calls, a read of the row fills the cache
after it changed, an invitation is accepted twice or while it is revoked.
Correct when an organization keeps an OWNER, an invitation admits one person,
and access follows the row.

### Parts not modelled

| Part | Why |
| --- | --- |
| NFS-e worker path (`worker/.../nfse.go`) | the claim, lease and finalization it shares with the worker are `DfeWorker`'s; its own answer handler, over another service and without reconciliation, is listed as a hazard |
| Contingency (`worker/cmd/contingency-*`) | the retransmission is not wired yet in the code (`contingency-retransmit/main.go:2-5`): what exists marks an overdue row in one update. The emission type itself is in `Issuance` |
| Inutilization (`services/nfes/inutilization.go`) | one check of a range against the numbers in use, then an event; the hazard is listed |
| Idempotency keys (`middleware`) | the store is an external library |
| WebSocket, certificates, organizations' data, registries | single-row operations and best-effort notifications |
| Document bodies, XML, PDF, validation tables, migrations, UI, infrastructure | data, layout, configuration |

## 2. The modules

| Module | What it is |
| --- | --- |
| `QuotaLedger` | abstract: who holds a unit of the quota, in sets; no counter, no request |
| `FiscalDocument` | abstract: the life of an issued document, without queues, leases or attempts |
| `AccountErasure` | abstract: the deletion of an account, without locks, deliveries or a settle window |
| `Issuance` | emission requests, configuration saves, emission switch, periods, results and their settlement |
| `DfeWorker` | from the outbox row to the settlement: publisher, worker, SEFAZ, DLQ processor, consumer, event requests |
| `ConfigRegistry` | a configuration save beside others: série claims, company quota, level reporter |
| `Distribution` | the NSU cursor and slot, jobs, look-ups, saves |
| `Erasure` | the deletion saga against the background jobs |
| `Subscription` | billing, snapshot row, cache, webhook, plan requests, gate |
| `Membership` | roles, their cache, invitations, linking a company |
| `MC*` | instances of them for TLC |
| `*Proofs`, `DfeWorkerOwnershipProofs` | their theorems |

How they meet. `Issuance` ends where `DfeWorker` begins: `Commit` writes the
document and its outbox row, which is the initial state of `DfeWorker`.
`PublishResult` of `Issuance` lets any document get any sequence of results, so
whatever `DfeWorker` publishes is covered; the properties of the counters do not
lean on the worker. What they gain from it is a pair of theorems: `DfeWorker`
publishes one result of an undisturbed document (`OneDecisionHolds`), and
`Issuance` keeps the unit of a billed document of which one was published
(`BilledIsCountedHolds`). The configuration row is shared by three modules, each with
the attributes it is about: number and emission type (`Issuance`), série and
existence (`ConfigRegistry`), cursor, slot and penalty (`Distribution`); every
one of them has the PUT that reads before it replaces the row. `Erasure` has the
jobs of the worker and of the distribution as what they may still write, and
`Subscription`'s reader is the gate every emission passes.

### Issuance and the code

Each request is a small automaton whose position is where its handler is
between two database calls.

| State | Code |
| --- | --- |
| `configured, serie, number, emission` | the configuration row: its existence, `prod_current_serie`, `prod_current_number`, `emission_type` |
| `period`, `used` | the subscription's current period and the counter row of each |
| `req[e]` | what an emission has read: série, number, period; `pc` is how far it is |
| `save[s]` | what a form holds and what `Upsert` carries forward |
| `docs`, `results`, `refundMarks`, `reported` | document rows, published results, refund markers, usage known to billing |
| `edited`, `lowered`, `base` | history, used by properties only |

| Action | Code |
| --- | --- |
| `ReadConfig`, `Admit` | `Emit` up to `PrepareUsageReservation`; a full period refuses |
| `Commit`, `CommitConflict` | the transaction: all three writes, or none |
| `LoadForm`, `SubmitSave`, `WriteSave` | the form's GET; the PUT's read of the row; its Put |
| `SetEmission` | the emission endpoint's Update |
| `NextPeriod`, `PublishResult`, `Settle` | time; the worker; `settleBilling` on one delivery |

One fiscal model and the production environment are modelled: the other models
are separate attributes under the same code, and homologation documents take no
quota.

### DfeWorker and the code

A *row* is a document or an event; a *job* is one delivery of its command, which
Lambda runs as up to `MaxAttempts` *attempts*. `job[j].pc` is the attempt's
place in `Process`; `status`, `owner`, `lease` are the row's attributes; `calls`
are the requests the egress Lambda is working on, which live on after the
attempt that made them; `accepted` and `xml` are what SEFAZ and S3 hold.

| Action | Code |
| --- | --- |
| `PublishOutbox`, `AckOutbox`, `Redeliver` | `processRecord`; SNS at-least-once |
| `Claim`, `ClaimRefused`, `ReadBack`, `LeaseExpires`, `AgeOut` | `claimProcessing` and the read after a refused claim; `leaseFor`; the maximum event age |
| `Invoke`, `SefazDecides`, `EngineFails` | `invokeEgress`; SEFAZ and the engine (external); an answer may be lost on either leg, and the engine may post again |
| `HandleAnswer`, `Consult`, `WriteDoc`, `Finalize`, `Publish` | `handleSefazResponse`, `reconcileDuplicateAuthorization`, the status writes, `publishResult` |
| `StepFails`, `MarkRetryable`, `LostOwnership`, `Crash` | the error returns, `markRetryable`, a lost ownership condition, a timeout or a kill |
| `DlqWrite`, `DlqPublish`, `DlqFails` | the DLQ processor |
| `Settle` | the results consumer |
| `ApiRead`, `ApiCreateEvent`, `ApiMark`, `ApiPublish`, `ApiFails` | the three calls of an event request |

One timing fact of the code is a guard. `LeaseExpires`: without clock skew a
lease outlives its owner and its owner's call (`leaseFor`: the Lambda's deadline
and 10 s); `SkewedClocks = TRUE` drops that. Lambda tries a failed job again
after 60 s and then 120 s, at any moment in the model: a later try may find the
lease of an attempt of its own job that died early still held and be refused,
and the last one then ends in the dead letters.

An attempt that ended keeps nothing of what it learnt (`Goto`); the next one
starts from the row.

### ConfigRegistry and the code

| State | Code |
| --- | --- |
| `configured`, `serie` | the configuration rows of one document model: their existence, the série per environment; `Before` gives those there are at the start |
| `holder` | the claim table |
| `guard`, `version`, `dirty` | the organization's quota guard row; its level marker and whether it is in the dirty index |
| `recorded` | what billing accepted, by (organization, version); billing is external |
| `indexed` | companies `organization-index` shows; companies in `Late` appear at any time |
| `save[s]`, `flush[f]` | where `registerFiscalConfig`'s PUT and a level flush are, and what they read |
| `raced` | history: companies a save of which released a claim while another save of the company was under way or had written the row since (`Overtaken`) |
| `puts` | PUTs so far, up to the bound `MaxPuts` |

| Action | Code |
| --- | --- |
| `StartSave`, `ReserveCompany`, `CompaniesUsed` | the PUT up to the quota's answer; the guard's version is read before the count. Any company's PUT starts at any time, beside others of the same company |
| `ReadPrevious`, `Claim`, `Release`, `Answer` | the read of the replaced configuration, the conditional Put per environment, the conditional Delete per abandoned série |
| `Upsert`, `UpsertConflict` | the transaction: row, guard, marker, or nothing |
| `MarkCompaniesLevel` | choosing or changing a plan marks the level too |
| `GetLevelMarker`, `CountLevel`, `ReportLevel`, `ClearLevelDirty`, `NothingDirty`, `FlushFails` | `levels.go`, for the flush of a request and for the sweeper |
| `Stop`, `IndexCatchesUp` | a stop of the request anywhere; the index |

### Distribution and the code

| State | Code |
| --- | --- |
| `published` | SEFAZ: the last NSU handed out (external) |
| `cursor`, `taken`, `penalty` | `{env}_nsu`; the slot is under an hour old; `{env}_improper_usage_until` has not passed |
| `status` | the row of the one document and of its cancellation followed here |
| `kept` | history: NSUs processed without an error |
| `job[j]`, `save[s]` | a job's attempt: the cursor it read, what is left of the answer; a PUT's read |

| Action | Code |
| --- | --- |
| `Dispatch`, `EnqueueSync`, `EnqueueLookupByKey` | the dispatcher, the user's sync (which claims the slot for its job), the look-up |
| `LoadConfig`, `ClaimDistNSUSlot` | the attempt's one read, and the conditional update of the slot |
| `DocumentsFound`, `NoDocuments`, `Refused`, `LookedUp` | SEFAZ's answers |
| `PersistIncoming`, `PersistCounterparties`, `CancelDocument`, `ProcessOther` | `processDocZip`, one document at a time |
| `UpdateNSU`, `LookupDone`, `AttemptFails` | the move of the cursor and a second round; Lambda's retries |
| `ReadConfig`, `WriteConfig` | a configuration PUT, which carries the bookkeeping of its read |
| `HourPasses`, `Publish` | time: an hour outlives the attempts of a job; SEFAZ |

### Erasure and the code

| State | Code |
| --- | --- |
| `lock`, `fresh` | `erasure_state`; locks younger than the settle window |
| `item`, `rows`, `objects`, `named`, `claims` | what a company has: its item, its tables, its objects, the documents whose row names an object, its séries |
| `billing`, `person`, `msg`, `receives` | the organization's billing rows, the user's rows, the message and its deliveries |
| `purge[p]`, `job[j]` | a delivery's place in `ErasureService`; a background job |

| Action | Code |
| --- | --- |
| `Receive`, `LockCompany`, `Locked`, `WindowPasses` | the start of a delivery; the lock; the window, longer than a worker may run |
| `PurgeStage` | one stage of `purgeCompany`, in the order of `Stages` |
| `Purged`, `Tombstone`, `DeleteItem`, `CompaniesErased` | `ErrErasureSettling` or the end of the companies |
| `EraseOrganizationBilling`, `PurgePerson`, `Ack`, `PurgeFails`, `Redeliver` | the rest; a stop anywhere; the queue |
| `StartJob`, `UploadXML`, `WriteStatus`, `ClaimSlot`, `PutRecords`, `JobFails` | what an emission and a distribution job write after they passed the check |

The catalogue's many tables are one member of `Tables` per way of being found:
by the document rows, by the configuration, by the distribution records.

`AccountErasure` is read off this state: what is held of a company (`Held`: rows,
objects, claims; the object of a document in flight, which the plan accepts, is
not counted), the companies with an item, the erased locks, the account's rows
that are left, and whether the message was deleted.

### Subscription and the code

A snapshot is named by the number of changes billing had made when it was read,
so that "older" is a comparison of numbers.

| State | Code |
| --- | --- |
| `story`, `used`, `pending` | billing (external): its subscriptions after each change, the idempotency keys it knows, the events it still delivers |
| `row`, `cache`, `best` | the snapshot row, the cache, and, as history, the newest snapshot ever put |
| `proc[p]` | a request or a webhook delivery |

| Action | Code |
| --- | --- |
| `ReadCache`, `ReadRow`, `FillCache`, `CacheExpires` | `Snapshot` |
| `Refuse`, `Choose`, `Change`, `Cancel` | the gate or a refusal; the plan endpoints, on `pickSubscription`'s choice |
| `Deliver`, `MarkEventProcessed` | the webhook |
| `GetEntitlements`, `Put`, `Invalidate`, `Fails` | `Sync`, shared by requests and deliveries; a stop anywhere |
| `BillingMoves` | payments and ends of periods (external) |

### Membership and the code

| State | Code |
| --- | --- |
| `role`, `cache` | the rows of `organization_users`; the entries of `Get`, the tombstone included |
| `invitation`, `admitted` | the invitations' status; history of the acceptances |
| `req[r]` | a request of any kind and what it read |

| Action | Code |
| --- | --- |
| `ReadRow`, `Fill`, `CacheExpires` | `MembershipService.Get` on a miss |
| `EnsureOwner` | `LinkService.Link`: the one row it writes; no row depends on the item it finds or puts |
| `StartChange`, `GuardLastOwner`, `CountOwners`, `WriteMember`, `Invalidate` | `ChangeRole` and `Remove` with the OWNER gate of their routes |
| `StartAccept`, `Admit`, `Revoke`, `Expire` | `Accept` and its transaction; `Revoke` and `Decline` |
| `Fails` | an error or a stop between any two calls |

Reach (whether ctech-account lets the person act for the company at all) is
asked before all of this; `Users` are the people it lets through.

## 3. What is checked

| Run | Instance | Shows |
| --- | --- | --- |
| `issuance` | 2 emissions, 1 save, a plan of 1 unit, 2 periods | `NumbersUnique`, `NoGaps`: numbers under every interleaving of emissions and saves, as long as no save moves the counter back (gaps: moves it at all). `UsageExact`, `UsageWithinLimit`, `LedgerSpec`: counters under repeated, late and reordered results. `RefundArrives`: every unit owed comes back |
| `worker_live` | 1 document, 2 deliveries, 2 tries each | `OneWorkerPerRow`, `NoCallAfterFinal` and `DocumentSpec`, the refinement of `FiscalDocument`, with crashes, lost answers and dead-lettering; `EveryDocumentEnds`, `SettlementArrives` |
| `worker_event` | 1 document, 1 cancellation with 2 deliveries, skewed clocks | `StatusIsReal` of both rows, whatever the jobs and the event request do in between, and whoever loses the row to another delivery; `PendingHasRequest`: a document waits for an event only while a request for it can still end it, or was given up outside the worker |
| `registry` | 3 companies, 1 configured already, 2 on one CNPJ, 2 of an organization that may enable one; 3 saves, 2 at once, 1 sweeper | `ClaimsCoverConfig`, `SeriesUnique` except for a company a save of which released a claim under another save of it; `EnabledWithinLimit`, `LevelRecorded` where the index shows every company; `LevelArrives` |
| `distribution` | 4 NSUs in batches of 2; a dispatcher, a user's sync with 2 tries, a look-up, a save | `CursorCovered`, `OneJobAtATime` until a save put an old slot back, `CancellationApplied` while nothing else disturbs; `CatchesUp` whatever did |
| `erasure` | 1 company, an emission and a distribution job, 2 consumers, 3 deliveries | `ErasedForGood`, `AckedMeansDone`, `Reachable`; `DeletionSpec`, the refinement of `AccountErasure`; `RequestAnswered` |
| `subscription` | 2 plans, 1 request, 1 webhook delivery at a time, 2 subscriptions, 3 changes | `AnsweredMeansSynced`, `SecondOnlyWhenBehind`; `GateCatchesUp` unless an older snapshot stays put |
| `membership` | 2 people, 1 role to hand out, 1 invitation, 2 requests at once | `InvitationUsedOnce`, `LastOwnerLostOnlyToARace`; `AccessCatchesUp` whatever reads and failed invalidations overlap |

Four more runs check a sentence of the repository that the code does not keep;
TLC finds the trace, and `PROJECT.json` quotes the sentence.

| Run | What happens |
| --- | --- |
| `issuance_stale_form` | a form loaded before an emission and saved after it rewinds the counter; the next emission repeats a number |
| `worker_terminal_rewritten` | a job that failed against a held lease is dead-lettered after the owner decided, and `authorized` becomes `failed` |
| `worker_lost_answer` | SEFAZ's answer is lost between SEFAZ and the engine; the engine's 400 finalizes an authorized document as `failed` and its unit is refunded |
| `registry_overtaken` | two saves of one company overlap: the older one, which clears a série, releases its claim after the newer one has claimed and written the série again; a second company on the CNPJ takes it |

The exceptions the passing properties make are part of what they say.
`DocumentSpec` lets a dead-lettered message overrule a decision (`Overrule`) and
an event that a user asked for reopen one (`Revise`): nothing else changes what
is decided. `PendingHasRequest` excepts requests that failed in the API.
`ClaimsCoverConfig` and `SeriesUnique` except exactly the companies in `raced`,
where `registry_overtaken` shows what happens. `EnabledWithinLimit` and
`LevelRecorded` except organizations with a company the index does not show yet,
`CancellationApplied` excepts look-ups by key. `SecondOnlyWhenBehind` and
`LastOwnerLostOnlyToARace` name the one way to what they are about and do not
exclude it. `OneWorkerPerRow` and `NoCallAfterFinal`
are about *quiet* rows: an event's writes put its document back into a claimable
status, and a late delivery of the document may then claim it and call SEFAZ.
`lowered` and `edited` name exactly the saves that break numbering.

Other behaviours the models contain, which contradict no property checked here
and are worth knowing:

- two syncs of one organization read billing in one order and put in the other:
  both events are answered and the older snapshot stays, where `DOCS.md:788-790`
  says that concurrent deliveries produce the same state (`RowIsCurrent` of
  `Subscription`; section 4 says when it holds);
- a save undoes a `SetEmission` that ran between its read and its Put, although
  `fiscal_config.go:171` says that a PUT never changes the emission type (section
  4 says when it does not);
- an event request that stops after marking its document leaves it
  `cancel_pending`, with nothing under way;
- when publishing the result `authorized` fails and the document is cancelled
  before the retry, the retry publishes `cancelled`: the usage is not reported;
- a correction letter whose first answer was lost is recorded as rejected; a
  consulta that fails between the engine and SEFAZ leaves a rejection;
- a look-up by key answered before a cancellation writes the document after it
  and leaves it authorized; NSU 1 is never asked for;
- the idempotency keys of choosing and changing a plan name the plan: choosing
  it again after its cancellation replays the first answer;
- linking makes every person ctech-account lets act for the company an OWNER when
  they have no row, so there can be several OWNERs, where `roles.go:24-30` says
  there is exactly one; for a caller who has a row `ensureOwner`'s conditional put
  fails, so a repeated link answers with an error where `link.go:56-58` says it
  finds the record;
- two OWNERs may demote or remove each other at once and leave none: the guard's
  count and the write are separate calls (`LastOwnerLostOnlyToARace` says it takes
  such a race);
- a read of a membership row that started before a removal can replace its
  tombstone by the old role until the entry expires (`memberships.go:24-27` says
  it cannot); `AccessCatchesUp` bounds it by the entry's life;
- erasing an organization deletes the level marker under another key than the
  one it was written with, so a pending level outlives it (not in a model).

### Bounds

- `Issuance`: two emissions race for one number and one unit, and a save falls
  between any two of their steps; more of either repeat these races. The proofs
  cover every number of each. `Edits = {3}` is a number above and, after a few
  emissions, below the counter. `MaxPeriod = 2` puts a period change anywhere.
  `Limit = 9` in the violation run stands for a plan that is never full.
- `DfeWorker`: `DocDeliveries = 2` puts two jobs on one row, which is what
  claims, leases and ownership are about; no event disturbs the document
  there, so its row stays *quiet* (see above). The code's `MaxAttempts` is 3;
  `worker_live` has 2, a first and a last try. `worker_event` has one try, and a
  second delivery that claims what the first released or, with `SkewedClocks`,
  still works on; a closing or a correction letter takes the same path with fewer
  writes, and is covered by the proofs. One document is enough because rows share
  nothing; `worker_event` is the run where a document and an event meet. A lease
  expires at any moment its guard allows; there is no clock to bound.
- `ConfigRegistry`: two saves at once meet on one company, on its organization,
  on one CNPJ or on nothing, and a third may follow (`MaxPuts = 3`), which is what
  a released claim takes to reach another company. `c1` is configured in both
  environments (`Before`), gives one up or keeps it; `c3` wants that one; `c2`
  declares nothing and races `c3` for the one place of their plan. `MaxMarks` lets
  that plan be chosen or changed once, at any moment. `Late = {c1}` hides a
  company from the index for as long as TLC likes; its organization has no limit,
  so the organization the quota and the level are checked for is always shown
  whole. `MaxPuts` bounds the instance and not the code: the proofs hold for any
  value of it.
- `Distribution`: NSU 2 is the document and NSU 3 its cancellation, so that a
  batch of two can hold both or split them, and a second round exists. Jobs of
  the dispatcher start for ever; the user's one, the look-up and the save happen
  once each. Only the user's job is retried: a dispatcher's job starts again
  anyway, and the failed attempts of a look-up are look-ups again.
- `FiscalDocument` and `AccountErasure` are not run by themselves: `worker_live`
  and `erasure` check that the detailed modules implement them.
- `Erasure`: three receives let a first delivery meet the settle window, a second
  fail and a third finish, or two run at once; then the queue parks the message.
- `Subscription`: three changes are a first subscription, its end and a second
  one, or changes around them. In `subscription` one delivery runs at a time,
  which is what `GateCatchesUp` needs least: two may overtake each other, and
  then its hypothesis fails.
- `Membership`: requests of any kind start again for ever, two at once; two
  people can be two OWNERs, an OWNER and a member, or one person about whom both
  requests are.

Deadlock checking is off where the system rightly stops: `Issuance`, `DfeWorker`,
`ConfigRegistry` and `Erasure` end with every message delivered and settled.
`Distribution`, `Subscription` and `Membership` never stop, and TLC checks that
they do not.

### Fairness

`Issuance!Fairness`: weak fairness of settling each published result; the
consumer polls for ever and a failed settlement is redelivered.

`DfeWorker!Fairness`: the stream retries a record until it is published (WF of
`PublishOutbox`); Lambda runs every job it accepted and kills an attempt at its
deadline (WF of `WorkerStep`, whose `Crash` is that kill); a call ends by the
egress Lambda's timeout; leases end with time; an API request that started ends
somehow (WF of `ApiStep`, whose `ApiFails` is a stop). The DLQ processor is
retried a bounded number of times and then parked: strong fairness of
"published or parked" says it cannot start over for ever. Nothing says that
SEFAZ ever accepts, that a publication succeeds, or that a user requests
anything.

Three of the later modules have steps that fail for no reason of their own (a
network error, a refusal, a process that ends). That such failures do not go on
for ever is the only thing assumed beyond weak fairness, and it is written as
`<>[][...]_vars`: from some point on, a step of these actors is one that
succeeds. A failure may be the same step as a success (a flush that stops where
it would have found nothing to clear); the formulas allow it there, because to
forbid it would forbid the success too. The fairness of each run was tried
with properties it must violate, to see that behaviours satisfy it.

`ConfigRegistry!Fairness`: the sweeper runs every two minutes (weak fairness of
its flush), and from some point on its flush does not fail, except where nothing
is left dirty by it. Requests owe nothing.

`Distribution!Fairness`: the hour passes, the dispatcher starts jobs, a started
job goes on, and from some point on its step `Succeeds`: it does not die, SEFAZ
does not refuse it, and its write of the configuration row arrives. Users,
saves, look-ups and SEFAZ owe nothing, before or after.

`Erasure!Fairness`: the window passes, a running job ends, the queue redelivers, a
delivery goes on. It may fail for ever: then the message is parked.

`Subscription!Fairness`: entries expire, requests end, deliveries are made and go
on, and from some point on a delivery does not fail, except where its event is
marked already.

`Membership!Fairness`: a request ends, an entry expires (its time to live is a
minute).


## 4. What is proved

The theorems hold for every value of the constants that satisfies the named
`ASSUME`s of the module they are about, so for any number of companies,
documents, jobs, requests, deliveries and tries; none of them needs a fairness.
Every proof has one shape: an invariant that says where each actor is and what
it may rely on there, shown to survive every action, and the property drawn from
it.

A step that changes several fields of one record is written
`[f EXCEPT ![x] = [@ EXCEPT !.a = .., !.b = ..]]` throughout, with no `@` in the
inner one: tlapm 1.4.5 translates `[f EXCEPT ![x].a = .., ![x].b = ..]`, and an
inner `@`, to something else for its SMT backend.

### IssuanceProofs

| Theorem | Property |
| --- | --- |
| `TypeCorrect` | `TypeOK` |
| `NumbersUniqueHolds` | numbering; with `IssuedBelowCounterHolds`, an issued number is below the counter |
| `NumbersUniqueUnlessLowered` | `Spec /\ SavesKeepCounters => []NumbersUniqueAlways` |
| `BilledIsCountedHolds` | a billed document of which one result was published holds its unit; no period bills more than its counter counts |
| `EmissionKeptIfSwitchesAreSerial` | `Spec /\ SwitchesAreSerial =>` a save never changes the emission type |
| `NoGapsHolds` | numbering without a save that moves the counter |
| `UsageExactHolds`, `UsageWithinLimitHolds` | the counters |
| `ImplementsLedger` | `Spec => LedgerSpec` |

`Emissions` may be infinite: the cardinalities are of subsets of `docs`, which
starts empty and grows by one. `RequestsSound` ties a request's position to the
rest of the state: a document's request is `created`, a request past its read
belongs to a configured company, and one past its admission holds a period.
With it:

- numbering: `IssuedBelowCounter` together with `NumbersUnique` is inductive. A
  commit issues the counter's current value (`NumberUnmoved`), which is above
  every issued number, and moves the counter past it. A save either keeps or
  raises the counter, or puts the company in `lowered`;
- conditions: `NumbersUniqueUnlessLowered` follows because a behaviour without a
  lowering save never puts a company in `lowered`; the emission type because a
  submitted save carries what the row holds (`CarriesCurrent`), which every step
  but a switch in between keeps;
- gaps: `GapInv` says the issued numbers are the interval from `base` to the
  counter; a commit appends its upper end, and the first write of a row happens
  before any document exists;
- usage: `UsageInv` is `UsageExact` with the finiteness of the holders. A commit
  adds one holder to its period and one to its counter (`CommitHolding`); a
  refund takes one holder of that same period (`RefundHolding`). It needs that
  a holder's period never changes after its commit. The limit follows from the
  condition in the transaction, not from the check at preparation;
- billing: `SettledInv` says that billing and the refund markers only know of
  results that were published;
- refinement: with `granted` mapped to the holders and `returned` to the
  markers, a commit is a `Grant`, a first settlement of a rejection is a
  `GiveBack`, and every other step is a stutter (`LedgerStep`).

### DfeWorkerProofs and DfeWorkerOwnershipProofs

| Theorem | Property |
| --- | --- |
| `TypeCorrect`, `StatusIsRealHolds` | types; what a status says of SEFAZ and S3 |
| `ImplementsDocument` | `Spec => DocumentSpec`, clocks skewed or not |
| `DocumentsConsistent` | `Spec => []Document!Consistent`, drawn from the refinement |
| `TerminalIsFinalHolds`, `SettledOnceHolds` | what is final and what is settled, clocks skewed or not; special cases of the refinement, and steps towards it |
| `PendingHasRequestHolds` | `PendingHasRequest`, clocks skewed or not |
| `NothingStrandedHolds`, `DecisionIsPublishedHolds` | the safety half of `EveryDocumentEnds` and `SettlementArrives` |
| `OneDecisionHolds` | one result is published of an undisturbed document |
| `TerminalStatusKeptUnlessDisturbed` | `TerminalStatusKept`, while nothing is dead-lettered and no event is asked for |
| `OneWorkerPerRowHolds`, `NoCallAfterFinalHolds`, `NoLateAuthorizationHolds` | assuming `~SkewedClocks` |
| `TransportIsRetriedIfHonest` | `TransportIsRetried`, assuming `~SkewedClocks` and that a lost answer is never reported as an invalid request |

- types: the number of tries of a job is bounded only because `AfterFailure`
  queues it again only with a try left, so `TypeOK` is proved together with
  `JobsSound`, which says so and says that a job not delivered yet has not run;
- reality: a status is written from what an attempt remembers (`job[j].ans`) or
  from what an event request read some steps earlier, so `StatusIsReal` alone is
  not inductive. `AnswersAreReal` says that what an attempt remembers is what
  SEFAZ holds and that it stored the XML before the status; `EventsHaveDocuments`
  says that an event request and every job of an event belong to an authorized
  document. Both survive whatever others do in between because nothing is ever
  undone (`Grew`): SEFAZ accepts, S3 stores and a request starts for ever;
- finality: `OwnerInv` says that a row with an owner, which neither the DLQ
  processor nor an event has written, is `processing`. So a conditional write of
  an owner finds no terminal status, and a claim never starts from one;
- settlement: `ResultsInv` says that whatever was published of such a row, or is
  about to be by an attempt that finalized it or read it back, is the status the
  row has. A status that stays then means one result, and one settlement;
- one worker: `CallsInv` says which attempt a call in flight belongs to;
  `WorkedInv` says that everyone at work on a quiet row, a call that outlived its
  attempt included, is its owner, holds the lease, and keeps the row out of the
  claimable statuses. It needs that a lease does not end under its owner, which is
  what `~SkewedClocks` is for: with it false TLC finds two workers;
- refinement: the abstract row is `open` while `status` is not a decision, the
  abstract facts are `accepted`, `overruled` are the dead-lettered documents and
  `asked` those an event request has read as authorized. A claim, a call, a retry, a
  publication are stutters; the writes of an attempt are `Decide` on a quiet row
  (by finality) and `Revise` on another (by reality); a settlement is `Report` or
  `Return`. That needs `ChargesReal`: a published `authorized` is of a document
  SEFAZ authorized. `Consistent` is proved of `FiscalDocument` alone, with
  `DocumentInv` (billing was told what the row still says), and holds of
  `DfeWorker` through the refinement;
- nothing is lost: `StrandedInv` says that a row with a delivery is decided or has
  a job that may still decide it; every step that ends a job (`JobsMove`) decided
  the row, left it to another job that owns it, or goes to the DLQ processor.
  `PendingInv` gives each mark on a document a request that can still answer it
  (`Answerable`): its command is to be published, or its event is undecided and no
  job of it is past the write of the document. Only a request marks a document
  (`MarksOnlyByRequests`), and a worker that has written the document has taken
  the mark away; so one that decides the event, a write later, leaves none. With
  the two writes in the other order the invariant is not inductive.

### DistributionProofs

| Theorem | Property |
| --- | --- |
| `TypeCorrect` | `TypeOK` |
| `CursorCoveredHolds` | `CursorCovered`, under any overlap of jobs, look-ups and saves |
| `OneJobAtATimeHolds` | `OneJobAtATime` |
| `CancellationAppliedHolds` | `CancellationApplied` |

`CursorCovered` is not inductive: a save writes a cursor it read, and a job moves
it to the end of what it processed. `CursorInv` says the same of every cursor
somebody carries and of the part of an answer a job has been through; `kept`
only grows. `SlotInv` says, until a save has written, that whoever calls or
processes holds the slot, the user's job from the moment it is queued, and that
no two do. On that, `DocumentInv` says where a job stands with respect to the
cursor: one about to call starts from it, and one that has passed the
cancellation in its answer leaves the document cancelled. Only the slot keeps a
second job from moving the cursor under the first.

### ErasureProofs

| Theorem | Property |
| --- | --- |
| `TypeCorrect` | `TypeOK` |
| `ErasedForGoodHolds`, `AckedMeansDoneHolds`, `ReachableHolds` | the three promises, for deliveries that overlap and stop anywhere |
| `ImplementsDeletion` | `Spec => DeletionSpec` |
| `DeletionConsistent` | `Spec => []Deletion!Consistent`, drawn from the refinement |

One invariant carries them all. `LockInv`: a job is at work only for a company
that is active or was locked within the window, and an erased company is clean.
`IndexInv`: what the next delivery must find is still named by a row. `Progress`:
for each delivery, which companies it has locked and cleaned, and, with
`StageInv`, what its stages have removed of the company it is at; it claims that
a thing is gone only where the delivery saw every company settled. `Shrinks`
makes `Progress` of one delivery survive the others: of a settled company
nothing grows, so what is gone stays gone.

For the refinement, a job's step is a `Write` of a company that is not sealed
(`LockInv`), a stage is a `Remove`, or nothing where the item has gone already,
the tombstone is a `Seal` of a clean company (`Progress`), and locks, the window,
failures and redeliveries are stutters. `Consistent` is inductive in
`AccountErasure` as it stands.

### ConfigRegistryProofs

| Theorem | Property |
| --- | --- |
| `TypeCorrect` | `TypeOK` |
| `EnabledWithinLimitHolds`, `LevelRecordedHolds` | of organizations the index shows whole |
| `ClaimsCoverConfigHolds`, `SeriesUniqueHolds` | of companies not in `raced`, for any overlap of saves |
| `SeriesUniqueIfSavesAreSerial` | `Spec /\ []SerialSaves => []SeriesUniqueAlways` |

- quota: `ReservedOf` says that a request whose guard version is still current
  counted what is configured now, and that the count left room; the transaction
  checks exactly that version, and each first configuration raises it;
- level: `DeliveryOf` says the same of a delivery: if its version is current, so
  is its count, and when it goes to clear the marker billing has it.
  `RecordsRight` says that a record under the current version is right, which is
  why an older delivery that reports late does no harm;
- séries: `ClaimInv` says of every company not in `raced` that its rows are
  covered, and of its saves what they hold (`ClaimsOf`): on its way to the write,
  the claims of the séries it has passed, which no other save of the company has
  released, or the company would be in `raced`. A save gives up no série of its
  own form (`GivesUp`), so a release that finds the row as the save wrote it, and
  nobody else at work on the company, frees nothing that is needed; `FlushOwned`
  keeps a flush from moving a save that is elsewhere. `SeriesUnique` follows: a
  claim has one holder. No save is assumed to wait for another;
- the claim table's promise: `SeriesUniqueAlways`, which `registry_overtaken`
  refutes, is proved of the behaviours in which the saves of one company do not
  overlap (`SerialSaves`, a hypothesis beside `Spec`): there a release always
  finds the row as its save wrote it, so `raced` stays empty (`SerialInv`).

### SubscriptionProofs

| Theorem | Property |
| --- | --- |
| `TypeCorrect` | `TypeOK` |
| `AnsweredMeansSyncedHolds` | `AnsweredMeansSynced` |
| `SecondOnlyWhenBehindHolds` | `SecondOnlyWhenBehind` |
| `RowIsCurrentIfSyncsAreSerial` | `RowIsCurrent`, while no two syncs are between their read and their Put |

`Carried` says that what a delivery is about to put was read after the change it
is about, and that past the put somebody's snapshot is as new (`best`). The
second theorem looks at one step: a list of subscriptions in which only the last
is live stays so unless one is added (`StaysSerial`); one is added only by
`Choose`, which found its snapshot without a live one, so the snapshot is not
billing's current state. For the third, `RowIsNewest` says that the row is the
newest snapshot ever put and that the one sync on its way has none older.

### MembershipProofs

| Theorem | Property |
| --- | --- |
| `TypeCorrect` | `TypeOK` |
| `InvitationUsedOnceHolds` | `InvitationUsedOnce` |
| `LastOwnerLostOnlyToARaceHolds` | `LastOwnerLostOnlyToARace` |
| `OwnerKeptIfWritesAreSerial` | an organization keeps an OWNER, while no two changes are between their decision and their write |

`InvitationUsedOnce` is inductive once a request that accepts is known to name an
invitation and a person (`Named`): the transaction's condition excludes an
accepted or a revoked invitation, and nothing leaves those two. For the last
OWNER, `Decided` says that a request about to write saw a member who was no
OWNER, or another OWNER beside the member. If the owners it saw are still the
owners, that other OWNER survives its write. While changes do not overlap they
are (`StillOwners`), and before the first OWNER there is none to lose
(`NeverOwned`), so an OWNER stays.

### What the repository says, and when it is true

Four runs refute a sentence of the repository; the emission type, the snapshot
row and the last OWNER have three more. For each, a theorem names a condition under which the sentence holds of every
behaviour. The condition is written as a formula over the behaviour, beside
`Spec`; the models do not assume it. It says what a fix would have to establish:

| Sentence | Holds if | Theorem |
| --- | --- | --- |
| a (série, number) pair is unique | no save writes a lower counter | `NumbersUniqueUnlessLowered` |
| a PUT never changes the emission type | no switch falls between a save's read and its write | `EmissionKeptIfSwitchesAreSerial` |
| two companies on one CNPJ never declare one série | the saves of one company do not overlap | `SeriesUniqueIfSavesAreSerial` |
| a terminal status is not rewritten | nothing is dead-lettered and no event is asked for | `TerminalStatusKeptUnlessDisturbed` |
| a failed exchange is retried | the engine does not report it as an invalid request | `TransportIsRetriedIfHonest` |
| concurrent syncs leave one state | no two of them overlap | `RowIsCurrentIfSyncsAreSerial` |
| the organization keeps an OWNER | no two changes overlap | `OwnerKeptIfWritesAreSerial` |

### Only model-checked

Liveness, which the proof system does not reach: `RefundArrives`,
`EveryDocumentEnds`, `SettlementArrives`, `LevelArrives`, `CatchesUp`,
`RequestAnswered`, `GateCatchesUp`, `AccessCatchesUp`. Every safety property of a
passing run is proved, and so are the two refinements and that of `QuotaLedger`.
Of `EveryDocumentEnds` and `SettlementArrives` the half that needs no fairness is
proved: whenever nothing is decided, or nothing published, something is under way
that may still do it. That it does is what TLC checks.

## 5. Left out of the modelled parts, and why

- The body, XML, signature and validation of a document: data that no modelled
  decision reads, beyond accept/reject.
- Homologation and the other fiscal models in `Issuance`: the same code on other
  attributes. `ConfigRegistry` has both environments, since one save claims for
  both.
- The refund marker's expiry after 7 days, while the results DLQ keeps messages
  for 14: a redrive between the two refunds twice. `UsageExact` holds while
  markers live.
- The retention of the results queue: `Fairness` of settlement assumes a message
  is settled or redriven before it expires.
- Alerts, broadcasts, metrics, most caches: nothing modelled reads them. The two
  caches that decide something are in `Subscription` and `Membership`.
- Manifestation and the MDF-e inclusion events: they change no document status.
- The XML imports that a user makes of received documents: they write the rows a
  distribution job writes, and touch no cursor.
- The catalogue of tables an erasure goes through: one member of `Tables` per way
  of being found; that the catalogue is complete is a matter of data.
- Prorations, invoices, credits: billing's own.
- Whether ctech-account lets a person act for a company, and the cache of it at
  the edge: another system's decision, taken before the modelled ones.
- The synchronous look-up of one NSU: it shows SEFAZ's answer to the user, spends
  an hourly allowance, and stores nothing.

## 6. What remains

1. NFS-e as a variant of the worker's answer handling: a lost answer has no
   reconciliation there.
2. The refund marker's expiry against the results DLQ, in `Issuance`, with
   `UsageExact` conditioned on a settlement in time.
3. Inutilized ranges against issued numbers; contingency once the retransmission
   is wired; idempotency keys.
