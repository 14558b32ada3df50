------------------------------ MODULE Erasure ------------------------------
(***************************************************************************)
(* The account-deletion saga's purge of an organization (ErasureService),  *)
(* against the background jobs of its companies.  A delivery of the        *)
(* request locks the companies, so that workers drop their jobs, and       *)
(* deletes; it finishes only once every lock is older than the settle      *)
(* window, and until then leaves the message for a redelivery.  A delivery *)
(* may stop after any of its calls, and two may run at once.  The user has *)
(* been refused writes for days, so only background jobs write.            *)
(***************************************************************************)
EXTENDS Naturals, FiniteSets, Sequences

CONSTANTS Companies,    \* the organization's companies
          Jobs,         \* background jobs
          JobOf,        \* the company of a job
          KindOf,       \* "emission" or "distribution"
          Consumers,    \* deliveries that may run at once
          MaxReceives   \* deliveries before the queue gives up

ASSUME ErasureAssumption ==
    /\ JobOf \in [Jobs -> Companies]
    /\ KindOf \in [Jobs -> {"emission", "distribution"}]
    /\ MaxReceives \in Nat \ {0}

VARIABLES
    lock,       \* lock[c]: the company's row of erasure_state
    fresh,      \* companies locked less than the settle window ago
    item,       \* companies with an organizations item
    rows,       \* rows[c]: what the catalog's tables hold
    objects,    \* objects[c]: what the buckets hold
    named,      \* named[c]: documents whose row stores its object's key
    claims,     \* companies holding the séries their configuration declares
    billing,    \* rows of account_billing keyed by the organization
    person,     \* the user's own rows exist
    msg,        \* the request's message
    receives,   \* deliveries so far
    purge,      \* the deliveries
    job         \* the jobs

vars == <<lock, fresh, item, rows, objects, named, claims, billing,
          person, msg, receives, purge, job>>
data == <<item, rows, objects, named, claims, billing, person>>

\* One document issued before, one a job may still be working on.
Documents == {"old", "new"}
Tables == Documents \cup {"config", "distributions"}
Objects == Documents \cup {"folder"}
BillingRows == {"snapshot", "guard", "usage"}

\* Mutant: the configuration goes before the claims derived from it.
StagesConfigFirst ==
    <<"config", "claims", "read", "objects", "documents", "distributions", "folder">>

\* The order of a company's purge.
Stages == <<"claims", "config", "read", "objects", "documents", "distributions", "folder">>

Idle == [pc |-> "idle", todo |-> {}, left |-> {}, settled |-> TRUE,
         stage |-> 1, page |-> {}, keys |-> {}]

PurgeRecords ==
    [pc : {"idle", "lock", "purge", "tombstone", "delete", "billing", "person", "ack"},
     todo : SUBSET Companies, left : SUBSET Companies, settled : BOOLEAN,
     stage : 1..Len(Stages), page : SUBSET Documents, keys : SUBSET Documents]

\* Jobs that passed the check and may still write.
Working(j) == job[j] \in {"working", "uploaded"}

Init ==
    /\ lock = [c \in Companies |-> "active"]
    /\ fresh = {}
    /\ item = Companies
    /\ rows = [c \in Companies |-> Tables]
    /\ objects = [c \in Companies |-> {"old", "folder"}]
    /\ named = [c \in Companies |-> {"old"}]
    /\ claims = Companies
    /\ billing = BillingRows
    /\ person = TRUE
    /\ msg = "queued"
    /\ receives = 0
    /\ purge = [p \in Consumers |-> Idle]
    /\ job = [j \in Jobs |-> "waiting"]

-----------------------------------------------------------------------------
(* The jobs *)

JobUnchanged == UNCHANGED <<lock, fresh, item, claims, billing, person,
                            msg, receives, purge>>

\* Mutant: only the tombstone stops a job.
StoppedOnceErased(c) == lock[c] = "erased"

\* Every attempt starts by reading the company's erasure state.
Stopped(c) == lock[c] # "active"

\* An emission then claims its document's row, which must still be there.
StartJob(j) ==
    /\ job[j] \in {"waiting", "failed"}
    /\ job' = [job EXCEPT ![j] =
          IF \/ Stopped(JobOf[j])
             \/ KindOf[j] = "emission" /\ "new" \notin rows[JobOf[j]]
          THEN "dropped" ELSE "working"]
    /\ JobUnchanged /\ UNCHANGED <<rows, objects, named>>

UploadXML(j) ==
    /\ KindOf[j] = "emission" /\ job[j] = "working"
    /\ objects' = [objects EXCEPT ![JobOf[j]] = @ \cup {"new"}]
    /\ job' = [job EXCEPT ![j] = "uploaded"]
    /\ JobUnchanged /\ UNCHANGED <<rows, named>>

\* The status write is conditional on the row this job claimed.
WriteStatus(j) ==
    /\ KindOf[j] = "emission" /\ job[j] = "uploaded"
    /\ named' = IF "new" \in rows[JobOf[j]]
                THEN [named EXCEPT ![JobOf[j]] = @ \cup {"new"}] ELSE named
    /\ job' = [job EXCEPT ![j] = "done"]
    /\ JobUnchanged /\ UNCHANGED <<rows, objects>>

\* The NSU bookkeeping is an update that creates a missing row: the slot claim,
\* and, after the records, the cursor.  Records and their objects are plain puts.
ClaimSlot(j) ==
    /\ KindOf[j] = "distribution" /\ job[j] = "working"
    /\ rows' = [rows EXCEPT ![JobOf[j]] = @ \cup {"config"}]
    /\ job' = [job EXCEPT ![j] = "uploaded"]
    /\ JobUnchanged /\ UNCHANGED <<objects, named>>

PutRecords(j) ==
    /\ KindOf[j] = "distribution" /\ job[j] = "uploaded"
    /\ rows' = [rows EXCEPT ![JobOf[j]] = @ \cup {"distributions", "config"}]
    /\ objects' = [objects EXCEPT ![JobOf[j]] = @ \cup {"folder"}]
    /\ job' = [job EXCEPT ![j] = "done"]
    /\ JobUnchanged /\ UNCHANGED named

\* An attempt that dies is made again, by the queue or by Lambda.
JobFails(j) ==
    /\ Working(j)
    /\ job' = [job EXCEPT ![j] = "failed"]
    /\ JobUnchanged /\ UNCHANGED <<rows, objects, named>>

-----------------------------------------------------------------------------
(* The purge *)

Step(p, r) == purge' = [purge EXCEPT ![p] = r]
At(p, pc) == purge[p].pc = pc

\* The companies of the organization, from their organizations items.
Receive(p) ==
    /\ At(p, "idle") /\ msg = "queued" /\ receives < MaxReceives
    /\ receives' = receives + 1
    /\ Step(p, [Idle EXCEPT !.pc = "lock", !.todo = item, !.left = item])
    /\ UNCHANGED <<lock, fresh, data, msg, job>>

LockCompany(p, c) ==
    /\ At(p, "lock") /\ c \in purge[p].left
    /\ IF lock[c] = "active"
       THEN lock' = [lock EXCEPT ![c] = "locked"] /\ fresh' = fresh \cup {c}
       ELSE UNCHANGED <<lock, fresh>>
    /\ Step(p, [purge[p] EXCEPT !.left = @ \ {c},
                                !.settled = @ /\ lock[c] # "active" /\ c \notin fresh])
    /\ UNCHANGED <<data, msg, receives, job>>

Locked(p) ==
    /\ At(p, "lock") /\ purge[p].left = {}
    /\ Step(p, [purge[p] EXCEPT !.pc = "purge", !.left = purge[p].todo])
    /\ UNCHANGED <<lock, fresh, data, msg, receives, job>>

\* Workers run at most five minutes and the window is ten: a job that passed the
\* check before the lock has ended when the lock stops being fresh.
WindowPasses(c) ==
    /\ c \in fresh
    /\ \A j \in Jobs : JobOf[j] = c => ~Working(j)
    /\ fresh' = fresh \ {c}
    /\ UNCHANGED <<lock, data, msg, receives, purge, job>>

\* One stage of a company's purge; the next company starts again at the first.
\* Companies are purged one after another: the stage belongs to one of them.
Current(p) == CHOOSE c \in purge[p].left : TRUE

\* Mutant: the page is not limited to the documents' table.
ReadWholePartition(c) == rows[c]

\* A page of documents: their rows, and the objects those rows name.
ReadPage(c) == rows[c] \cap Documents

\* A page's objects go before its rows, the only index to them.
DeletedObjects(p, stage) ==
    CASE stage = "objects" -> purge[p].keys
      [] stage = "folder" -> {"folder"}
      [] OTHER -> {}

DeletedRows(p, stage) ==
    CASE stage = "documents" -> purge[p].page
      [] stage \in {"config", "distributions"} -> {stage}
      [] OTHER -> {}

\* The claims are derived from the configuration, and keyed by the CNPJ of the
\* organizations item.
Releases(c, stage) == stage = "claims" /\ c \in item /\ "config" \in rows[c]

PurgeStage(p) ==
    /\ At(p, "purge") /\ purge[p].left # {}
    /\ LET c == Current(p)
           n == purge[p].stage
           stage == Stages[n]
           last == n = Len(Stages)
       IN /\ claims' = IF Releases(c, stage) THEN claims \ {c} ELSE claims
          /\ rows' = [rows EXCEPT ![c] = @ \ DeletedRows(p, stage)]
          /\ objects' = [objects EXCEPT ![c] = @ \ DeletedObjects(p, stage)]
          /\ named' = [named EXCEPT ![c] = @ \ DeletedRows(p, stage)]
          /\ Step(p, [purge[p] EXCEPT
                !.page = IF stage = "read" THEN ReadPage(c) ELSE @,
                !.keys = IF stage = "read" THEN ReadPage(c) \cap named[c] ELSE @,
                !.stage = IF last THEN 1 ELSE n + 1,
                !.left = IF last THEN @ \ {c} ELSE @])
    /\ UNCHANGED <<lock, fresh, item, billing, person, msg, receives, job>>

\* A message that is not acknowledged stays hidden for its visibility timeout;
\* one another delivery has deleted stays deleted.
GivenBack == IF msg = "acked" THEN msg ELSE "hidden"

\* ErrErasureSettling: the message stays, for a redelivery.
Purged(p) ==
    /\ At(p, "purge") /\ purge[p].left = {}
    /\ IF purge[p].settled
       THEN Step(p, [purge[p] EXCEPT !.pc = "tombstone", !.left = purge[p].todo]) /\ UNCHANGED msg
       ELSE Step(p, Idle) /\ msg' = GivenBack
    /\ UNCHANGED <<lock, fresh, data, receives, job>>

Tombstone(p) ==
    /\ At(p, "tombstone") /\ purge[p].left # {}
    /\ lock' = [lock EXCEPT ![Current(p)] = "erased"]
    /\ Step(p, [purge[p] EXCEPT !.pc = "delete"])
    /\ UNCHANGED <<fresh, data, msg, receives, job>>

DeleteItem(p) ==
    /\ At(p, "delete")
    /\ item' = item \ {Current(p)}
    /\ Step(p, [purge[p] EXCEPT !.pc = "tombstone", !.left = @ \ {Current(p)}])
    /\ UNCHANGED <<lock, fresh, rows, objects, named, claims, billing, person,
                   msg, receives, job>>

\* Mutant: the account's own rows go while companies are left.
CompaniesErasedEarly(p) ==
    /\ At(p, "tombstone")
    /\ Step(p, [purge[p] EXCEPT !.pc = "billing"])
    /\ UNCHANGED <<lock, fresh, data, msg, receives, job>>

CompaniesErased(p) ==
    /\ At(p, "tombstone") /\ purge[p].left = {}
    /\ Step(p, [purge[p] EXCEPT !.pc = "billing"])
    /\ UNCHANGED <<lock, fresh, data, msg, receives, job>>

\* The keys it deletes are those of the document meters and of the quota meter.
EraseOrganizationBilling(p) ==
    /\ At(p, "billing")
    /\ billing' = {}
    /\ Step(p, [purge[p] EXCEPT !.pc = "person"])
    /\ UNCHANGED <<lock, fresh, item, rows, objects, named, claims, person,
                   msg, receives, job>>

PurgePerson(p) ==
    /\ At(p, "person")
    /\ person' = FALSE
    /\ Step(p, [purge[p] EXCEPT !.pc = "ack"])
    /\ UNCHANGED <<lock, fresh, item, rows, objects, named, claims, billing, msg, receives, job>>

\* Mutant: the account is acknowledged before the person is purged.
AckBeforePerson(p) ==
    /\ purge[p].pc \in {"person", "ack"}
    /\ msg' = "acked"
    /\ Step(p, Idle)
    /\ UNCHANGED <<lock, fresh, data, receives, job>>

\* The consumer acknowledges the account, then deletes the message.
Ack(p) ==
    /\ At(p, "ack")
    /\ msg' = "acked"
    /\ Step(p, Idle)
    /\ UNCHANGED <<lock, fresh, data, receives, job>>

\* An error or the end of the process: the visibility timeout gives it back.
PurgeFails(p) ==
    /\ ~At(p, "idle")
    /\ Step(p, Idle)
    /\ msg' = GivenBack
    /\ UNCHANGED <<lock, fresh, data, receives, job>>

\* Mutant: the queue has no dead-letter queue.
RedeliverWithoutDLQ ==
    /\ msg = "hidden" /\ fresh = {} /\ receives < MaxReceives
    /\ msg' = "queued"
    /\ UNCHANGED <<lock, fresh, data, receives, purge, job>>

\* The visibility timeout is longer than the settle window.
Redeliver ==
    /\ msg = "hidden" /\ fresh = {}
    /\ msg' = IF receives < MaxReceives THEN "queued" ELSE "parked"
    /\ UNCHANGED <<lock, fresh, data, receives, purge, job>>

-----------------------------------------------------------------------------
JobStep(j) ==
    \/ StartJob(j) \/ UploadXML(j) \/ WriteStatus(j)
    \/ ClaimSlot(j) \/ PutRecords(j) \/ JobFails(j)

PurgeStep(p) ==
    \/ \E c \in Companies : LockCompany(p, c)
    \/ Locked(p) \/ PurgeStage(p) \/ Purged(p)
    \/ Tombstone(p) \/ DeleteItem(p) \/ CompaniesErased(p)
    \/ EraseOrganizationBilling(p) \/ PurgePerson(p) \/ Ack(p)

Next ==
    \/ \E j \in Jobs : JobStep(j)
    \/ \E p \in Consumers : Receive(p) \/ PurgeStep(p) \/ PurgeFails(p)
    \/ \E c \in Companies : WindowPasses(c)
    \/ Redeliver

Spec == Init /\ [][Next]_vars

\* Time passes, the queue redelivers, a running job ends, a delivery goes on.
Fairness ==
    /\ \A c \in Companies : WF_vars(WindowPasses(c))
    /\ \A j \in Jobs : WF_vars(JobStep(j) /\ Working(j))
    /\ WF_vars(Redeliver)
    /\ \A p \in Consumers : WF_vars(Receive(p) \/ PurgeStep(p))

FairSpec == Spec /\ Fairness

-----------------------------------------------------------------------------
(* Properties *)

\* Every variable has its type: the one type invariant of the module.
TypeOK ==
    /\ lock \in [Companies -> {"active", "locked", "erased"}]
    /\ fresh \subseteq Companies /\ item \subseteq Companies
    /\ rows \in [Companies -> SUBSET Tables]
    /\ objects \in [Companies -> SUBSET Objects]
    /\ named \in [Companies -> SUBSET Documents]
    /\ claims \subseteq Companies
    /\ billing \subseteq BillingRows
    /\ person \in BOOLEAN
    /\ msg \in {"queued", "hidden", "parked", "acked"}
    /\ receives \in 0..MaxReceives
    /\ purge \in [Consumers -> PurgeRecords]
    /\ job \in [Jobs -> {"waiting", "working", "uploaded", "failed", "done", "dropped"}]

\* Once a company is erased nothing of it is left and nothing comes back,
\* although jobs that passed the check before its lock wrote during the purge:
\* "the company must end with zero rows".  The object of a document that was in
\* flight when the lock was taken may survive, as the plan accepts.
ErasedForGood ==
    \A c \in Companies : lock[c] = "erased" =>
       /\ rows[c] = {} /\ c \notin claims
       /\ objects[c] \subseteq {"new"}

\* The account hears that the deletion is done only when it is.
AckedMeansDone ==
    msg = "acked" =>
       /\ item = {} /\ billing = {} /\ ~person
       /\ \A c \in Companies : lock[c] = "erased"

\* Whatever a stopped delivery left behind can still be found by the next: the
\* claims through the item and the configuration, an object through its row.
Reachable ==
    \A c \in Companies :
       /\ c \in claims => c \in item /\ "config" \in rows[c]
       /\ "old" \in objects[c] => "old" \in rows[c]
       /\ rows[c] # {} => c \in item

\* The organization lives the abstract deletion of AccountErasure, whatever
\* deliveries, failures and jobs overlap.  The object of a document in flight is
\* not counted as held.
Held(c) ==
    {kind \in {"rows", "objects", "claims"} :
        \/ kind = "rows" /\ rows[c] # {}
        \/ kind = "objects" /\ objects[c] \ {"new"} # {}
        \/ kind = "claims" /\ c \in claims}

Holdings == [c \in Companies |-> Held(c)]
Erased == {c \in Companies : lock[c] = "erased"}
AccountRows ==
    {part \in {"billing", "person"} :
        \/ part = "billing" /\ billing # {}
        \/ part = "person" /\ person}
Answered == msg = "acked"

Deletion ==
    INSTANCE AccountErasure WITH
        holds <- Holdings, listed <- item, sealed <- Erased,
        account <- AccountRows, answered <- Answered

DeletionSpec == Deletion!Spec

\* Every request is acknowledged or handed to an operator.
RequestAnswered == <>(msg \in {"acked", "parked"})

=============================================================================
