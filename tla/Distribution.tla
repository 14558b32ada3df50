---------------------------- MODULE Distribution ----------------------------
(***************************************************************************)
(* The distribution of the documents issued against a company: SEFAZ       *)
(* numbers them (NSU), the company's configuration row keeps the cursor of *)
(* the last one fetched and the slot of the hourly call.  One company, one *)
(* document type, one environment, and one document with its cancellation  *)
(* among the NSUs.  Jobs of the scheduler, of the user's sync, look-ups by *)
(* key and saves of the configuration overlap; Lambda gives a job that     *)
(* fails two more attempts.                                                *)
(***************************************************************************)
EXTENDS Integers, FiniteSets

CONSTANTS LastNSU,        \* NSUs SEFAZ will ever hand out
          Document,       \* the NSU of a document ...
          Cancellation,   \* ... and of its cancellation
          BatchSize,      \* documents in an answer
          Sweeps,         \* the dispatcher's jobs, one after another each
          Syncs,          \* jobs a user asks for
          Lookups,        \* look-ups of the document by its key
          Saves,          \* PUTs of the fiscal configuration
          MaxAttempts     \* attempts Lambda gives a job

ASSUME DistributionAssumption ==
    /\ LastNSU \in Nat /\ BatchSize \in Nat \ {0}
    /\ MaxAttempts \in [Sweeps \cup Syncs \cup Lookups -> Nat \ {0}]
    /\ Document \in 1..LastNSU /\ Cancellation \in 1..LastNSU
    /\ Document < Cancellation
    /\ Sweeps \cap Syncs = {} /\ (Sweeps \cup Syncs) \cap Lookups = {}

VARIABLES
    published,   \* the last NSU SEFAZ has handed out
    cursor,      \* {env}_nsu
    taken,       \* {env}_last_dist_nsu_at is less than an hour old
    penalty,     \* {env}_improper_usage_until has not passed
    status,      \* the status of the document's row
    kept,        \* NSUs processed without an error
    job,
    save         \* what a save read of the row, and where it stands

vars == <<published, cursor, taken, penalty, status, kept, job, save>>

Distributors == Sweeps \cup Syncs
Jobs == Distributors \cup Lookups
NSUs == 1..LastNSU

\* from: the cursor this attempt goes on from; next..last: what is left of the
\* answer; more: SEFAZ had more when it gave it; sawTaken: the slot it read.
Fresh == [pc |-> "idle", from |-> 0, next |-> 1, last |-> 0, more |-> FALSE,
          attempts |-> 0, sawTaken |-> FALSE]

JobRecords ==
    [pc : {"idle", "queued", "claim", "call", "process", "persons", "stopped"},
     from : 0..LastNSU, next : 1..LastNSU + 1, last : 0..LastNSU,
     more : BOOLEAN, attempts : Nat, sawTaken : BOOLEAN]

Min2(m, n) == IF m < n THEN m ELSE n
Max2(m, n) == IF m < n THEN n ELSE m

NoRead(pc) == [pc |-> pc, cursor |-> 0, taken |-> FALSE, penalty |-> FALSE]

Init ==
    /\ published = 0
    /\ cursor = 0
    /\ taken = FALSE
    /\ penalty = FALSE
    /\ status = "absent"
    /\ kept = {}
    /\ job = [j \in Jobs |-> Fresh]
    /\ save = [s \in Saves |-> NoRead("idle")]

At(j, pc) == job[j].pc = pc
Goto(j, pc) == job' = [job EXCEPT ![j].pc = pc]

\* The dispatcher starts its jobs again and again; the others run once.
Ended(j) == [Fresh EXCEPT !.pc = IF j \in Sweeps THEN "idle" ELSE "stopped"]
End(j) == job' = [job EXCEPT ![j] = Ended(j)]

row == <<cursor, taken, penalty>>

-----------------------------------------------------------------------------
(* Outside: SEFAZ and time *)

Publish ==
    /\ published < LastNSU
    /\ published' = published + 1
    /\ UNCHANGED <<row, status, kept, job, save>>

\* Mutant: the slot is compared with the wrong end of the hour.
SlotNeverAges ==
    /\ penalty
    /\ penalty' = FALSE
    /\ UNCHANGED <<published, cursor, taken, status, kept, job, save>>

\* A job runs five minutes at most and its attempts are minutes apart, so the
\* hour of a slot outlives the job that took it.
HourPasses ==
    /\ taken \/ penalty
    /\ \A j \in Sweeps : job[j].pc \in {"idle", "queued"}
    /\ \A j \in Syncs : job[j].pc \in {"idle", "stopped"}
    /\ taken' = FALSE /\ penalty' = FALSE
    /\ UNCHANGED <<published, cursor, status, kept, job, save>>

-----------------------------------------------------------------------------
(* Requests *)

Dispatch(j) ==
    /\ j \in Sweeps /\ At(j, "idle")
    /\ Goto(j, "queued")
    /\ UNCHANGED <<published, row, status, kept, save>>

\* EnqueueSync claims the slot for the job it invokes; a failed invocation leaves
\* the slot taken.
EnqueueSync(j) ==
    /\ j \in Syncs /\ At(j, "idle")
    /\ ~penalty /\ ~taken
    /\ taken' = TRUE
    /\ \/ Goto(j, "queued")
       \/ End(j)
    /\ UNCHANGED <<published, cursor, penalty, status, kept, save>>

EnqueueLookupByKey(j) ==
    /\ j \in Lookups /\ At(j, "idle")
    /\ Goto(j, "call")
    /\ UNCHANGED <<published, row, status, kept, save>>

\* A PUT carries the bookkeeping fields over from a read of its own.
ReadConfig(s) ==
    /\ save[s].pc = "idle"
    /\ save' = [save EXCEPT ![s] =
          [pc |-> "read", cursor |-> cursor, taken |-> taken, penalty |-> penalty]]
    /\ UNCHANGED <<published, row, status, kept, job>>

WriteConfig(s) ==
    /\ save[s].pc = "read"
    /\ cursor' = save[s].cursor
    /\ taken' = save[s].taken
    /\ penalty' = save[s].penalty
    /\ save' = [save EXCEPT ![s] = NoRead("written")]
    /\ UNCHANGED <<published, status, kept, job>>

-----------------------------------------------------------------------------
(* A distribution job *)

\* An attempt reads the row once.  A user's job was given the slot; the others
\* must find it free, and then claim it.
LoadConfig(j) ==
    /\ j \in Distributors /\ At(j, "queued")
    /\ IF penalty \/ (j \in Sweeps /\ taken)
       THEN End(j)
       ELSE job' = [job EXCEPT ![j] =
               [Fresh EXCEPT !.pc = IF j \in Syncs THEN "call" ELSE "claim",
                             !.from = cursor, !.attempts = job[j].attempts,
                             !.sawTaken = taken]]
    /\ UNCHANGED <<published, row, status, kept, save>>

\* Mutant: the update that claims the slot has no condition.
AnySlot == TRUE

SlotFree == ~taken

\* A lost race, or any other error of the claim, stops the job.
ClaimDistNSUSlot(j) ==
    /\ At(j, "claim")
    /\ \/ SlotFree /\ taken' = TRUE /\ Goto(j, "call")
       \/ UNCHANGED taken /\ End(j)
    /\ UNCHANGED <<published, cursor, penalty, status, kept, save>>

\* SEFAZ is never asked for what follows NSU 0.
Asked(j) == Max2(job[j].from, 1)

\* Mutant: an answer is taken to be full.
FullBatchEnd(j) == Asked(j) + BatchSize

BatchEnd(j) == Min2(Asked(j) + BatchSize, published)

DocumentsFound(j) ==
    /\ j \in Distributors /\ At(j, "call") /\ published > Asked(j)
    /\ job' = [job EXCEPT ![j] = [@ EXCEPT !.pc = "process",
                                           !.from = 0,
                                           !.next = Asked(j) + 1,
                                           !.last = BatchEnd(j),
                                           !.more = BatchEnd(j) < published]]
    /\ UNCHANGED <<published, row, status, kept, save>>

\* The write of the cursor may fail, and its error is ignored.
NoDocuments(j) ==
    /\ j \in Distributors /\ At(j, "call") /\ published <= Asked(j)
    /\ cursor' \in {cursor, Max2(job[j].from, published)}
    /\ End(j)
    /\ UNCHANGED <<published, taken, penalty, status, kept, save>>

\* Another answer: an error, or an accusation of improper usage.
Refused(j) ==
    /\ j \in Distributors /\ At(j, "call")
    /\ penalty' \in {penalty, TRUE}
    /\ End(j)
    /\ UNCHANGED <<published, cursor, taken, status, kept, save>>

\* The answer to a look-up: the document, unless it is cancelled by then or
\* SEFAZ has none, or the quota or an error ends the job.
LookedUp(j) ==
    /\ j \in Lookups /\ At(j, "call")
    /\ \/ /\ Document <= published /\ published < Cancellation
          /\ job' = [job EXCEPT ![j] = [@ EXCEPT !.pc = "process",
                                                 !.next = Document,
                                                 !.last = Document]]
       \/ End(j)
    /\ UNCHANGED <<published, row, status, kept, save>>

-----------------------------------------------------------------------------
(* processDocZip.  The row of the NSU and the objects are written once and      *)
(* their failures only logged: they are left out.                              *)

Processing(j, n) == At(j, "process") /\ job[j].next = n /\ n <= job[j].last

Processed(j, n) ==
    /\ kept' = kept \cup {n}
    /\ job' = [job EXCEPT ![j] = [@ EXCEPT !.pc = "process", !.next = n + 1]]

\* A put without a condition; its failure is logged.
PersistIncoming(j) ==
    /\ Processing(j, Document)
    /\ status' \in {status, "authorized"}
    /\ Goto(j, "persons")
    /\ UNCHANGED <<published, row, kept, save>>

PersistCounterparties(j) ==
    /\ At(j, "persons")
    /\ Processed(j, Document)
    /\ UNCHANGED <<published, row, status, save>>

\* Mutant: a cancellation that cannot be written is only logged.
CancelIgnoringErrors(j) ==
    /\ Processing(j, Cancellation)
    /\ status' \in {status, "cancelled"}
    /\ Processed(j, Cancellation)
    /\ UNCHANGED <<published, row, save>>

CancelDocument(j) ==
    /\ Processing(j, Cancellation)
    /\ status' = "cancelled"
    /\ Processed(j, Cancellation)
    /\ UNCHANGED <<published, row, save>>

\* Summaries, other events, and what cannot be read.
ProcessOther(j, n) ==
    /\ n \notin {Document, Cancellation} /\ Processing(j, n)
    /\ Processed(j, n)
    /\ UNCHANGED <<published, row, status, save>>

\* Mutant: the cursor moves before the answer is processed.
UpdateNSUFirst(j) ==
    /\ j \in Distributors /\ At(j, "process") /\ cursor < job[j].last
    /\ cursor' = job[j].last
    /\ UNCHANGED <<published, taken, penalty, status, kept, job, save>>

\* The cursor moves once the whole answer is processed; a second round needs
\* the slot again.
UpdateNSU(j) ==
    /\ j \in Distributors /\ At(j, "process") /\ job[j].next > job[j].last
    /\ cursor' \in {cursor, job[j].last}
    /\ IF job[j].more /\ ~job[j].sawTaken
       THEN job' = [job EXCEPT ![j] = [Fresh EXCEPT !.pc = "claim", !.from = job[j].last,
                                                    !.attempts = job[j].attempts]]
       ELSE End(j)
    /\ UNCHANGED <<published, taken, penalty, status, kept, save>>

LookupDone(j) ==
    /\ j \in Lookups /\ At(j, "process") /\ job[j].next > job[j].last
    /\ End(j)
    /\ UNCHANGED <<published, row, status, kept, save>>

Running(j) == job[j].pc \in {"queued", "claim", "call", "process", "persons"}

\* An error that is returned, a timeout, the end of the process: Lambda retries.
AttemptFails(j) ==
    /\ Running(j)
    /\ IF job[j].attempts + 1 < MaxAttempts[j]
       THEN job' = [job EXCEPT ![j] =
               [Fresh EXCEPT !.pc = IF j \in Lookups THEN "call" ELSE "queued",
                             !.attempts = job[j].attempts + 1]]
       ELSE End(j)
    /\ UNCHANGED <<published, row, status, kept, save>>

-----------------------------------------------------------------------------
Work(j) ==
    \/ LoadConfig(j) \/ ClaimDistNSUSlot(j)
    \/ DocumentsFound(j) \/ NoDocuments(j) \/ Refused(j) \/ LookedUp(j)
    \/ PersistIncoming(j) \/ PersistCounterparties(j) \/ CancelDocument(j)
    \/ \E n \in NSUs : ProcessOther(j, n)
    \/ UpdateNSU(j) \/ LookupDone(j) \/ AttemptFails(j)

Next ==
    \/ Publish \/ HourPasses
    \/ \E j \in Jobs : Dispatch(j) \/ EnqueueSync(j) \/ EnqueueLookupByKey(j) \/ Work(j)
    \/ \E s \in Saves : ReadConfig(s) \/ WriteConfig(s)

Spec == Init /\ [][Next]_vars

\* A step of a job in which nothing fails: not an attempt that dies, a refusal
\* of SEFAZ, nor a write of the configuration row that is lost.
Succeeds(j) ==
    \/ LoadConfig(j)
    \/ ClaimDistNSUSlot(j) /\ (SlotFree => taken')
    \/ DocumentsFound(j) \/ NoDocuments(j)
    \/ PersistIncoming(j) \/ PersistCounterparties(j) \/ CancelDocument(j)
    \/ \E n \in NSUs : ProcessOther(j, n)
    \/ UpdateNSU(j) /\ cursor' = job[j].last

\* The dispatcher runs every half an hour for ever, a job that started goes on,
\* and failures do not last for ever.
Fairness ==
    /\ WF_vars(HourPasses)
    /\ \A j \in Distributors : WF_vars(Work(j))
    /\ \A j \in Sweeps : WF_vars(Dispatch(j))
    /\ <>[][\A j \in Distributors : Work(j) => Succeeds(j)]_vars

FairSpec == Spec /\ Fairness

-----------------------------------------------------------------------------
(* Properties *)

\* Every variable has its type: the one type invariant of the module.
TypeOK ==
    /\ published \in 0..LastNSU /\ cursor \in 0..LastNSU
    /\ taken \in BOOLEAN /\ penalty \in BOOLEAN
    /\ status \in {"absent", "authorized", "cancelled"}
    /\ kept \subseteq NSUs
    /\ job \in [Jobs -> JobRecords]
    /\ \A j \in Jobs : job[j].attempts < MaxAttempts[j]
    /\ save \in [Saves -> [pc : {"idle", "read", "written"}, cursor : 0..LastNSU,
                           taken : BOOLEAN, penalty : BOOLEAN]]

\* The cursor never passes an NSU whose processing returned an error, whatever
\* jobs and saves overlap: "instead of advancing the NSU silently".  NSU 1 is
\* never asked for.
CursorCovered == \A n \in 2..cursor : n \in kept

\* Before a save puts an old slot back, one distribution job works at a time:
\* the claims of the API and of the worker exclude each other and themselves.
Works(j) == job[j].pc \in {"call", "process", "persons"}
OneJobAtATime ==
    (\A s \in Saves : save[s].pc # "written") =>
       \A i, j \in Distributors : Works(i) /\ Works(j) => i = j

\* Whatever failed, overlapped or moved the cursor back, the company catches up
\* with SEFAZ again and again: a document handed out is processed in the end.
CatchesUp == []<>(2..published \subseteq kept)

\* A received cancellation reaches the document before the cursor leaves it
\* behind, whatever attempts die half way, as long as distribution jobs are alone:
\* no look-up has been made and no save has put an old slot or cursor back.
Undisturbed ==
    /\ \A s \in Saves : save[s].pc # "written"
    /\ \A l \in Lookups : At(l, "idle")
CancellationApplied == Undisturbed /\ Cancellation <= cursor => status = "cancelled"

=============================================================================
