---------------------------- MODULE Subscription ----------------------------
(***************************************************************************)
(* An organization's subscription as the DF-e knows it: billing, which     *)
(* owns it; the snapshot row, which every sync rewrites from a fresh read  *)
(* of billing; the cache in front of the row; the webhook that syncs after *)
(* a change at billing, delivered until it is answered; and the requests   *)
(* that choose, change and cancel the plan.  A snapshot is named by the    *)
(* number of changes billing had made when it was read.                    *)
(***************************************************************************)
EXTENDS Integers, Sequences

CONSTANTS Plans,
          Requests,    \* requests: on the plan, or held by the gate
          Handlers,    \* webhook deliveries that may run at once
          MaxSubs,     \* bound: subscriptions billing ever creates
          MaxChanges   \* bound: changes at billing

ASSUME SubscriptionAssumption ==
    /\ Requests \cap Handlers = {}
    /\ MaxSubs \in Nat /\ MaxChanges \in Nat

VARIABLES
    story,     \* story[v + 1]: billing's subscriptions, oldest first, after v changes
    used,      \* idempotency keys billing has answered
    row,       \* the snapshot row; 0 also when there is none
    best,      \* history: the newest snapshot ever put
    cache,     \* the cached snapshot, or None
    pending,   \* changes whose event billing still delivers
    proc       \* requests and deliveries

vars == <<story, used, row, best, cache, pending, proc>>

Procs == Requests \cup Handlers
None == -1
Changes == 0..MaxChanges
Events == 1..MaxChanges

\* ACTIVE stands for every status billing counts as entitled, overdue included,
\* INCOMPLETE for those it does not.
Statuses == {"INCOMPLETE", "ACTIVE", "CANCELED"}
Subs == [plan : Plans, status : Statuses]

Now == Len(story) - 1
Current == story[Len(story)]

Idle == [pc |-> "idle", version |-> 0, event |-> 0]

\* version: the snapshot a request decides on, then the one a sync read.
ProcRecords ==
    [pc : {"idle", "row", "fill", "decide", "entitlements", "put", "invalidate", "mark"},
     version : Changes, event : Changes]

At(p, pc) == proc[p].pc = pc
Goto(p, pc) == proc' = [proc EXCEPT ![p].pc = pc]
Take(p, pc, v) == proc' = [proc EXCEPT ![p] = [@ EXCEPT !.pc = pc, !.version = v]]
End(p) == proc' = [proc EXCEPT ![p] = Idle]

Init ==
    /\ story = << <<>> >>
    /\ used = {}
    /\ row = 0 /\ best = 0
    /\ cache = None
    /\ pending = {}
    /\ proc = [p \in Procs |-> Idle]

-----------------------------------------------------------------------------
(* Billing (external) *)

\* Faulty variant: the announcement of a change names the one after it.
HappensAhead(subs) ==
    /\ Now < MaxChanges
    /\ story' = Append(story, subs)
    /\ pending' = pending \cup {Len(story) + 1}

\* Every change is announced.
Happens(subs) ==
    /\ Now < MaxChanges
    /\ story' = Append(story, subs)
    /\ pending' = pending \cup {Now + 1}

Entitled(sub) == sub.status = "ACTIVE"

\* A renewal or an overdue invoice changes an entitled subscription and leaves it so.
Moves(status) == IF status = "CANCELED" THEN {} ELSE {"ACTIVE", "CANCELED"}

\* Payments, overdue invoices, ends of period.
BillingMoves(i) ==
    /\ i \in DOMAIN Current
    /\ \E status \in Moves(Current[i].status) :
          Happens([Current EXCEPT ![i].status = status])
    /\ UNCHANGED <<used, row, best, cache, proc>>

-----------------------------------------------------------------------------
(* Reading the snapshot *)

\* pickSubscription: the first entitled one, and failing that the last; 0 of none.
Pick(subs) ==
    IF \E i \in DOMAIN subs : Entitled(subs[i])
    THEN CHOOSE i \in DOMAIN subs :
            Entitled(subs[i]) /\ \A k \in 1..(i - 1) : ~Entitled(subs[k])
    ELSE Len(subs)

\* What a request is for only matters once it has the snapshot.
ReadCache(r) ==
    /\ r \in Requests /\ At(r, "idle")
    /\ IF cache # None THEN Take(r, "decide", cache) ELSE Goto(r, "row")
    /\ UNCHANGED <<story, used, row, best, cache, pending>>

ReadRow(r) ==
    /\ At(r, "row")
    /\ Take(r, "fill", row)
    /\ UNCHANGED <<story, used, row, best, cache, pending>>

\* The cache takes what was read, whatever was put since; a failure is logged.
FillCache(r) ==
    /\ At(r, "fill")
    /\ cache' \in {cache, proc[r].version}
    /\ Goto(r, "decide")
    /\ UNCHANGED <<story, used, row, best, pending>>

\* Faulty variant: an entry without a time to live.
CacheKept == cache # None /\ cache # row /\ UNCHANGED vars

CacheExpires ==
    /\ cache # None
    /\ cache' = None
    /\ UNCHANGED <<story, used, row, best, pending, proc>>

-----------------------------------------------------------------------------
(* Requests.  What precedes the call to billing refuses or fails; what        *)
(* follows it may be lost.                                                     *)

\* The subscription a request sees, and its status.
Seen(r) == story[proc[r].version + 1]
SeenSub(r) == Pick(Seen(r))

\* The gate, or a refusal.
Refuse(r) ==
    /\ At(r, "decide")
    /\ End(r)
    /\ UNCHANGED <<story, used, row, best, cache, pending>>

\* Faulty variant: only a subscription that grants service refuses a second one.
FreeUnlessActive(r) == SeenSub(r) # 0 => Seen(r)[SeenSub(r)].status # "ACTIVE"

Free(r) == SeenSub(r) # 0 => Seen(r)[SeenSub(r)].status = "CANCELED"

\* Billing replays its first answer to a key it knows: nothing happens again.
Once(key, subs) ==
    IF key \in used THEN UNCHANGED <<story, used, pending>>
    ELSE used' = used \cup {key} /\ Happens(subs)

\* A plan that costs something starts unpaid.
Choose(r, plan) ==
    /\ At(r, "decide") /\ Free(r)
    /\ <<0, plan>> \notin used => Len(Current) < MaxSubs
    /\ \E status \in {"INCOMPLETE", "ACTIVE"} :
          Once(<<0, plan>>, Append(Current, [plan |-> plan, status |-> status]))
    /\ Take(r, "entitlements", 0)
    /\ UNCHANGED <<row, best, cache>>

\* Billing refuses to change what it has canceled.
Change(r, plan) ==
    /\ At(r, "decide") /\ SeenSub(r) # 0
    /\ Current[SeenSub(r)].status # "CANCELED"
    /\ Once(<<SeenSub(r), plan>>, [Current EXCEPT ![SeenSub(r)].plan = plan])
    /\ Take(r, "entitlements", 0)
    /\ UNCHANGED <<row, best, cache>>

\* At once, or at the end of the period: then billing cancels later.
Cancel(r) ==
    /\ At(r, "decide") /\ SeenSub(r) # 0
    /\ \/ /\ Current[SeenSub(r)].status # "CANCELED"
          /\ Happens([Current EXCEPT ![SeenSub(r)].status = "CANCELED"])
       \/ UNCHANGED <<story, pending>>
    /\ Take(r, "entitlements", 0)
    /\ UNCHANGED <<used, row, best, cache>>

-----------------------------------------------------------------------------
(* Sync, after a request's call or for a delivery *)

Deliver(h, e) ==
    /\ At(h, "idle") /\ e \in pending
    /\ proc' = [proc EXCEPT ![h] = [pc |-> "entitlements", version |-> 0, event |-> e]]
    /\ UNCHANGED <<story, used, row, best, cache, pending>>

GetEntitlements(p) ==
    /\ At(p, "entitlements")
    /\ Take(p, "put", Now)
    /\ UNCHANGED <<story, used, row, best, cache, pending>>

\* The whole row, unconditionally.
Put(p) ==
    /\ At(p, "put")
    /\ row' = proc[p].version
    /\ best' = IF best < proc[p].version THEN proc[p].version ELSE best
    /\ Take(p, "invalidate", 0)
    /\ UNCHANGED <<story, used, cache, pending>>

\* A failure is logged.
Invalidate(p) ==
    /\ At(p, "invalidate")
    /\ cache' \in {cache, None}
    /\ IF p \in Handlers THEN Goto(p, "mark") ELSE End(p)
    /\ UNCHANGED <<story, used, row, best, pending>>

\* Nothing but the wording of the answer reads the mark.  An answer that is lost,
\* or never made, has the event delivered again.
MarkEventProcessed(h) ==
    /\ At(h, "mark")
    /\ pending' \in {pending, pending \ {proc[h].event}}
    /\ End(h)
    /\ UNCHANGED <<story, used, row, best, cache>>

\* Faulty variant: a delivery whose sync failed is answered with success.
AckFailure(p) ==
    /\ ~At(p, "idle")
    /\ pending' = pending \ {proc[p].event}
    /\ End(p)
    /\ UNCHANGED <<story, used, row, best, cache>>

\* An error or the end of the process; a delivery is then made again.
Fails(p) ==
    /\ ~At(p, "idle")
    /\ End(p)
    /\ UNCHANGED <<story, used, row, best, cache, pending>>

-----------------------------------------------------------------------------
RequestStep(r) ==
    \/ ReadRow(r) \/ FillCache(r)
    \/ Refuse(r) \/ Cancel(r)
    \/ \E plan \in Plans : Choose(r, plan) \/ Change(r, plan)

SyncStep(p) == GetEntitlements(p) \/ Put(p) \/ Invalidate(p)

HandlerStep(h) ==
    \/ \E e \in Events : Deliver(h, e)
    \/ MarkEventProcessed(h)

Next ==
    \/ \E i \in 1..MaxSubs : BillingMoves(i)
    \/ CacheExpires
    \/ \E r \in Requests : ReadCache(r) \/ RequestStep(r)
    \/ \E h \in Handlers : HandlerStep(h)
    \/ \E p \in Procs : SyncStep(p) \/ Fails(p)

Spec == Init /\ [][Next]_vars

\* Deliveries go on and requests end; failures, billing's retries included, do
\* not last for ever.
Fairness ==
    /\ WF_vars(CacheExpires)
    /\ \A r \in Requests : WF_vars(RequestStep(r) \/ SyncStep(r))
    /\ \A h \in Handlers : WF_vars(HandlerStep(h) \/ SyncStep(h))
    /\ <>[][\A h \in Handlers : Fails(h) => At(h, "mark") /\ proc[h].event \notin pending]_vars

FairSpec == Spec /\ Fairness

-----------------------------------------------------------------------------
(* Properties *)

\* Every variable has its type: the one type invariant of the module.
TypeOK ==
    /\ story \in Seq(Seq(Subs)) /\ Len(story) \in 1..(MaxChanges + 1)
    /\ \A n \in DOMAIN story : Len(story[n]) <= MaxSubs
    /\ used \subseteq (0..MaxSubs) \X Plans
    /\ row \in 0..Now /\ best \in 0..Now
    /\ cache \in (0..Now) \cup {None}
    /\ pending \subseteq 1..Now
    /\ proc \in [Procs -> ProcRecords]
    /\ \A p \in Procs : proc[p].version <= Now /\ proc[p].event <= Now

\* A change whose event was answered has been synced, whatever failed or was
\* delivered twice: a snapshot read after it was put ("Mark only after it succeeds").
\* With nothing left to deliver, billing's current state has been put.
AnsweredMeansSynced == \A e \in Events : e <= Now /\ e \notin pending => e <= best

\* Subscriptions follow one another.
Serial(subs) == \A i \in 1..(Len(subs) - 1) : subs[i].status = "CANCELED"

\* Choose opens a second subscription beside a live one only when it decides on
\* a snapshot billing has left behind; what it then refuses is what "subscribing
\* twice would leave two subscriptions billing the same organization" is about.
SecondOnlyWhenBehind ==
    [][Serial(Current) /\ ~Serial(Current)' =>
          \E r \in Requests : At(r, "decide") /\ ~At(r, "decide")' /\ proc[r].version < Now]_vars

\* Unless an older snapshot stays put over a newer one, the row, and the cache in
\* front of it, end up with what billing says.
GateCatchesUp == <>[](row = best) => <>[](row = Now /\ cache \in {None, row})

\* "Duas entregas concorrentes podem repetir a leitura e o Put integral sem
\* produzir estados diferentes": with every event answered and no sync under way
\* the row is what billing says.
RowIsCurrent ==
    /\ pending = {}
    /\ \A p \in Procs : proc[p].pc \notin {"entitlements", "put"}
    => row = Now

=============================================================================
