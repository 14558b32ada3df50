------------------------- MODULE SubscriptionProofs -------------------------
(***************************************************************************)
(* Proofs about Subscription: types, that an answered change was synced,   *)
(* and that a second subscription needs a snapshot billing has left        *)
(* behind.  For any plans, requests, deliveries and bounds.                *)
(***************************************************************************)
EXTENDS Subscription, WellFoundedInduction, TLAPS

-----------------------------------------------------------------------------
(* What billing's changes do to the list of subscriptions *)

\* Changing a field of a subscription keeps the list and its length; outside the
\* list it changes nothing.
LEMMA StatusChanged ==
    ASSUME NEW subs \in Seq(Subs), NEW i, NEW status \in Statuses
    PROVE  /\ [subs EXCEPT ![i].status = status] \in Seq(Subs)
           /\ Len([subs EXCEPT ![i].status = status]) = Len(subs)
<1> DEFINE changed == [subs EXCEPT ![i].status = status]
<1>1. DOMAIN changed = 1..Len(subs)
  OBVIOUS
<1>2. \A k \in 1..Len(subs) :
        changed[k] = IF k = i THEN [subs[k] EXCEPT !.status = status] ELSE subs[k]
  OBVIOUS
<1>3. \A k \in 1..Len(subs) : subs[k] \in Subs
  OBVIOUS
<1>4. \A k \in 1..Len(subs) : changed[k] \in Subs
  BY <1>2, <1>3 DEF Subs
<1>5. changed \in [1..Len(subs) -> Subs]
  BY <1>1, <1>4
<1> QED BY <1>5

\* The plan of a subscription changes, and no status does.
LEMMA PlanChanged ==
    ASSUME NEW subs \in Seq(Subs), NEW i, NEW plan \in Plans
    PROVE  /\ [subs EXCEPT ![i].plan = plan] \in Seq(Subs)
           /\ Len([subs EXCEPT ![i].plan = plan]) = Len(subs)
           /\ \A k \in 1..Len(subs) :
                 [subs EXCEPT ![i].plan = plan][k].status = subs[k].status
<1> DEFINE changed == [subs EXCEPT ![i].plan = plan]
<1>1. DOMAIN changed = 1..Len(subs)
  OBVIOUS
<1>2. \A k \in 1..Len(subs) :
        changed[k] = IF k = i THEN [subs[k] EXCEPT !.plan = plan] ELSE subs[k]
  OBVIOUS
<1>3. \A k \in 1..Len(subs) : subs[k] \in Subs
  OBVIOUS
<1>4. \A k \in 1..Len(subs) : changed[k] \in Subs
  BY <1>2, <1>3 DEF Subs
<1>5. changed \in [1..Len(subs) -> Subs]
  BY <1>1, <1>4
<1>6. changed \in Seq(Subs) /\ Len(changed) = Len(subs)
  BY <1>5
<1>7. \A k \in 1..Len(subs) :
        changed[k].status = subs[k].status
  BY <1>2, <1>3 DEF Subs
<1> QED BY <1>6, <1>7

\* pickSubscription names a subscription of the list, or none of an empty one;
\* it is entitled, or the last.
LEMMA PickNames ==
    ASSUME NEW subs \in Seq(Subs)
    PROVE  /\ Pick(subs) \in 0..Len(subs)
           /\ Pick(subs) = 0 => Len(subs) = 0
           /\ Pick(subs) # 0 =>
                 Entitled(subs[Pick(subs)]) \/ Pick(subs) = Len(subs)
<1>1. CASE \E i \in DOMAIN subs : Entitled(subs[i])
  <2> DEFINE First(i) == /\ i \in DOMAIN subs
                         /\ Entitled(subs[i])
                         /\ \A k \in 1..(i - 1) : ~Entitled(subs[k])
  <2> DEFINE entitled == {i \in Nat : i \in DOMAIN subs /\ Entitled(subs[i])}
  <2>0. entitled \subseteq Nat /\ entitled # {}
    BY <1>1
  <2> HIDE DEF entitled
  <2>a. PICK i \in entitled : \A k \in entitled : ~(<<k, i>> \in OpToRel(<, Nat))
    BY <2>0, WFMin, NatLessThanWellFounded, Zenon
  <2>1. \A k \in entitled : ~(k < i)
    BY <2>0, <2>a, Zenon DEF OpToRel
  <2> USE DEF entitled
  <2>2. First(i)
    BY <2>1
  <2>3. First(Pick(subs))
    BY <1>1, <2>2 DEF Pick
  <2> QED BY <2>3
<1>2. CASE ~\E i \in DOMAIN subs : Entitled(subs[i])
  BY <1>2 DEF Pick
<1> QED BY <1>1, <1>2

-----------------------------------------------------------------------------
(* Types *)

PCs == {"idle", "row", "fill", "decide", "entitlements", "put", "invalidate", "mark"}

Numbers == MaxSubs \in Nat /\ MaxChanges \in Nat

\* What TypeOK says of billing's history, and of the requests and deliveries.
StoryOK ==
    /\ story \in Seq(Seq(Subs)) /\ Len(story) \in 1..(MaxChanges + 1)
    /\ \A n \in DOMAIN story : Len(story[n]) <= MaxSubs
ProcsOK ==
    /\ proc \in [Procs -> ProcRecords]
    /\ \A p \in Procs : proc[p].version <= Now /\ proc[p].event <= Now

LEMMA NowIsNatural ==
    ASSUME StoryOK
    PROVE  /\ Now \in Nat /\ Now <= MaxChanges
           /\ Current \in Seq(Subs) /\ Len(Current) <= MaxSubs /\ Len(Current) \in Nat
           /\ \A v \in 0..Now : /\ story[v + 1] \in Seq(Subs)
                                /\ Len(story[v + 1]) <= MaxSubs
BY SubscriptionAssumption DEF StoryOK, Now, Current

\* A change adds its list to the history and its event to those announced.
LEMMA HappensAdds ==
    ASSUME StoryOK, pending \subseteq 1..Now,
           NEW subs \in Seq(Subs), Len(subs) <= MaxSubs, Happens(subs)
    PROVE  /\ StoryOK' /\ Now' = Now + 1 /\ Current' = subs
           /\ pending' = pending \cup {Now'} /\ pending' \subseteq 1..Now'
<1>1. /\ story' = Append(story, subs) /\ Len(story) < MaxChanges + 1
      /\ pending' = pending \cup {Now + 1}
  BY SubscriptionAssumption DEF Happens, StoryOK, Now
<1>2. /\ story' \in Seq(Seq(Subs)) /\ Len(story') = Len(story) + 1
      /\ story'[Len(story) + 1] = subs
      /\ \A n \in 1..Len(story) : story'[n] = story[n]
  BY <1>1 DEF StoryOK
<1>3. Now' = Now + 1 /\ Current' = subs /\ Now \in Nat
  BY <1>2, NowIsNatural DEF Now, Current, StoryOK
<1>4. Len(story') \in 1..(MaxChanges + 1)
  BY <1>1, <1>2, SubscriptionAssumption DEF StoryOK
<1>5. ASSUME NEW n \in DOMAIN story' PROVE Len(story'[n]) <= MaxSubs
  <2>1. n \in 1..Len(story) \/ n = Len(story) + 1
    BY <1>2 DEF StoryOK
  <2>2. CASE n \in 1..Len(story)
    <3>1. story'[n] = story[n]
      BY <2>2, <1>2
    <3>2. Len(story[n]) <= MaxSubs
      BY <2>2 DEF StoryOK
    <3> QED BY <3>1, <3>2
  <2>3. CASE n = Len(story) + 1
    BY <2>3, <1>2
  <2> QED BY <2>1, <2>2, <2>3
<1>6. pending' = pending \cup {Now'}
  BY <1>1, <1>3
<1>7. pending' \subseteq 1..Now'
  BY <1>3, <1>6
<1> QED BY <1>2, <1>3, <1>4, <1>5, <1>6, <1>7 DEF StoryOK

\* The three ways a request or a delivery moves: to a place with a snapshot, to
\* a place, and to rest.
LEMMA ProcTakes ==
    ASSUME StoryOK, ProcsOK, NEW p \in Procs,
           NEW pc \in PCs, NEW v \in 0..Now, Take(p, pc, v)
    PROVE  /\ proc' \in [Procs -> ProcRecords]
           /\ proc'[p].pc = pc /\ proc'[p].version = v
           /\ proc'[p].event = proc[p].event
           /\ \A q \in Procs \ {p} : proc'[q] = proc[q]
<1>1. proc[p] \in ProcRecords
  BY DEF ProcsOK
<1>2. proc' = [proc EXCEPT ![p] = [[proc[p] EXCEPT !.pc = pc] EXCEPT !.version = v]]
  BY DEF Take, ProcsOK
<1>3. v \in Changes
  BY SubscriptionAssumption, NowIsNatural DEF Changes
<1>4. [[proc[p] EXCEPT !.pc = pc] EXCEPT !.version = v] \in ProcRecords
  BY <1>1, <1>3 DEF ProcRecords, PCs
<1> QED BY <1>1, <1>2, <1>4 DEF ProcsOK, ProcRecords

LEMMA ProcGoes ==
    ASSUME StoryOK, ProcsOK, NEW p \in Procs, NEW pc \in PCs, Goto(p, pc)
    PROVE  /\ proc' \in [Procs -> ProcRecords]
           /\ proc'[p].pc = pc /\ proc'[p].version = proc[p].version
           /\ proc'[p].event = proc[p].event
           /\ \A q \in Procs \ {p} : proc'[q] = proc[q]
<1>1. proc[p] \in ProcRecords
  BY DEF ProcsOK
<1>2. proc' = [proc EXCEPT ![p] = [proc[p] EXCEPT !.pc = pc]]
  BY DEF Goto, ProcsOK
<1>3. [proc[p] EXCEPT !.pc = pc] \in ProcRecords
  BY <1>1 DEF ProcRecords, PCs
<1> QED BY <1>1, <1>2, <1>3 DEF ProcsOK, ProcRecords

LEMMA ProcEnds ==
    ASSUME ProcsOK, NEW p \in Procs, End(p)
    PROVE  /\ proc' \in [Procs -> ProcRecords]
           /\ proc'[p] = Idle
           /\ \A q \in Procs \ {p} : proc'[q] = proc[q]
<1>1. Idle \in ProcRecords
  BY SubscriptionAssumption DEF Idle, ProcRecords, Changes
<1> QED BY <1>1 DEF End, ProcsOK

\* Whoever moves, every snapshot and event stays one of billing's, as long as
\* those of the one that moves are.
LEMMA OthersKeep ==
    ASSUME StoryOK, ProcsOK, StoryOK', Now <= Now', NEW p \in Procs,
           proc' \in [Procs -> ProcRecords],
           proc'[p].version <= Now', proc'[p].event <= Now',
           \A q \in Procs \ {p} : proc'[q] = proc[q]
    PROVE  ProcsOK'
<1>1. Now \in Nat /\ Now' \in Nat
  BY DEF StoryOK, Now
<1>2. ASSUME NEW q \in Procs PROVE proc'[q].version <= Now' /\ proc'[q].event <= Now'
  <2>1. CASE q = p
    BY <2>1
  <2>2. CASE q # p
    BY <1>1, <2>2 DEF ProcsOK, ProcRecords, Changes
  <2> QED BY <2>1, <2>2
<1> QED BY <1>2 DEF ProcsOK

LEMMA StoryKept ==
    ASSUME StoryOK, UNCHANGED story
    PROVE  StoryOK' /\ Now' = Now /\ Current' = Current /\ Now \in Nat
BY NowIsNatural DEF StoryOK, Now, Current

LEMMA TypesSplit ==
    TypeOK <=> /\ StoryOK /\ ProcsOK
               /\ used \subseteq (0..MaxSubs) \X Plans
               /\ row \in 0..Now /\ best \in 0..Now
               /\ cache \in (0..Now) \cup {None}
               /\ pending \subseteq 1..Now
BY DEF TypeOK, StoryOK, ProcsOK

\* Every step that leaves billing alone, the row, the cache and the events within
\* what billing has done.
LEMMA KeepsTypes ==
    ASSUME TypeOK, UNCHANGED <<story, used>>, NEW p \in Procs,
           row' \in 0..Now, best' \in 0..Now, cache' \in (0..Now) \cup {None},
           pending' \subseteq pending, proc' \in [Procs -> ProcRecords],
           proc'[p].version <= Now, proc'[p].event <= Now,
           \A q \in Procs \ {p} : proc'[q] = proc[q]
    PROVE  TypeOK'
<1>1. /\ StoryOK /\ ProcsOK /\ used \subseteq (0..MaxSubs) \X Plans /\ pending \subseteq 1..Now
  BY TypesSplit
<1>2. StoryOK' /\ Now' = Now /\ Now \in Nat
  BY <1>1, StoryKept
<1>3. ProcsOK'
  BY <1>1, <1>2, OthersKeep
<1>4. /\ used' \subseteq (0..MaxSubs) \X Plans
      /\ row' \in 0..Now' /\ best' \in 0..Now'
      /\ cache' \in (0..Now') \cup {None} /\ pending' \subseteq 1..Now'
  BY <1>1, <1>2
<1> QED BY <1>2, <1>3, <1>4 DEF TypeOK, StoryOK, ProcsOK

\* Every step by which billing changes: a move of its own, or a request that then
\* syncs.
LEMMA ChangesTypes ==
    ASSUME TypeOK, NEW subs \in Seq(Subs), Len(subs) <= MaxSubs, Happens(subs),
           used' \subseteq (0..MaxSubs) \X Plans, UNCHANGED <<row, best, cache>>,
           UNCHANGED proc \/ \E r \in Procs : Take(r, "entitlements", 0)
    PROVE  TypeOK'
<1>1. /\ StoryOK /\ ProcsOK /\ row \in 0..Now /\ best \in 0..Now
      /\ cache \in (0..Now) \cup {None} /\ pending \subseteq 1..Now
  BY TypesSplit
<1>2. StoryOK' /\ Now' = Now + 1 /\ pending' \subseteq 1..Now' /\ Now \in Nat
  BY <1>1, HappensAdds, NowIsNatural
<1>3. ProcsOK'
  <2>1. CASE UNCHANGED proc
    BY <1>1, <1>2, <2>1 DEF ProcsOK, ProcRecords, Changes
  <2>2. CASE \E r \in Procs : Take(r, "entitlements", 0)
    <3>1. PICK r \in Procs : Take(r, "entitlements", 0)
      BY <2>2
    <3>2. /\ proc' \in [Procs -> ProcRecords]
          /\ proc'[r].version = 0 /\ proc'[r].event = proc[r].event
          /\ \A q \in Procs \ {r} : proc'[q] = proc[q]
      BY <1>1, <1>2, <3>1, ProcTakes DEF PCs
    <3>3. proc[r].event <= Now /\ proc[r].event \in Int
      BY <1>1 DEF ProcsOK, ProcRecords, Changes
    <3> QED BY <1>1, <1>2, <3>2, <3>3, OthersKeep
  <2> QED BY <2>1, <2>2
<1>4. /\ row' \in 0..Now' /\ best' \in 0..Now' /\ cache' \in (0..Now') \cup {None}
  BY <1>1, <1>2
<1> QED BY <1>2, <1>3, <1>4 DEF TypeOK, StoryOK, ProcsOK

-----------------------------------------------------------------------------
(* Every step is of one of these kinds *)

\* What TypeOK gives a request or a delivery to work with.
LEMMA ProcFacts ==
    ASSUME TypeOK, NEW p \in Procs
    PROVE  /\ StoryOK /\ ProcsOK
           /\ used \subseteq (0..MaxSubs) \X Plans /\ pending \subseteq 1..Now
           /\ row \in 0..Now /\ best \in 0..Now /\ cache \in (0..Now) \cup {None}
           /\ Now \in Nat /\ Now <= MaxChanges
           /\ proc[p] \in ProcRecords
           /\ proc[p].version \in 0..Now /\ proc[p].event \in 0..Now
<1>1. StoryOK /\ ProcsOK
  BY TypesSplit
<1>2. proc[p] \in ProcRecords
  BY <1>1 DEF ProcsOK
<1>3. proc[p].version \in 0..Now /\ proc[p].event \in 0..Now
  BY <1>1, <1>2, NowIsNatural DEF ProcsOK, ProcRecords, Changes
<1> QED BY <1>1, <1>2, <1>3, TypesSplit, NowIsNatural

\* The subscription a request sees is one of the list it sees, which is in
\* billing's history.
LEMMA SeenFacts ==
    ASSUME TypeOK, NEW r \in Procs
    PROVE  /\ Seen(r) \in Seq(Subs) /\ SeenSub(r) \in 0..Len(Seen(r))
           /\ SeenSub(r) \in 0..MaxSubs
           /\ Current \in Seq(Subs) /\ Len(Current) <= MaxSubs
<1>1. /\ Seen(r) \in Seq(Subs) /\ Len(Seen(r)) <= MaxSubs
      /\ Current \in Seq(Subs) /\ Len(Current) <= MaxSubs
  BY ProcFacts, NowIsNatural DEF Seen
<1>2. SeenSub(r) \in 0..Len(Seen(r))
  BY <1>1, PickNames DEF SeenSub
<1> QED BY <1>1, <1>2, SubscriptionAssumption

LEMMA BillingMovesTypes ==
    ASSUME TypeOK, NEW i \in 1..MaxSubs, BillingMoves(i)
    PROVE  TypeOK'
<1>1. PICK status \in Moves(Current[i].status) :
         Happens([Current EXCEPT ![i].status = status])
  BY DEF BillingMoves
<1>2. status \in Statuses
  BY DEF Moves, Statuses
<1>3. /\ Current \in Seq(Subs) /\ Len(Current) <= MaxSubs
      /\ used \subseteq (0..MaxSubs) \X Plans
  BY TypesSplit, NowIsNatural
<1>4. /\ [Current EXCEPT ![i].status = status] \in Seq(Subs)
      /\ Len([Current EXCEPT ![i].status = status]) <= MaxSubs
  BY <1>2, <1>3, StatusChanged
<1> QED BY <1>1, <1>3, <1>4, ChangesTypes DEF BillingMoves

\* A request's call to billing: nothing new under a key billing knows, else a
\* change.
LEMMA OnceTypes ==
    ASSUME TypeOK, NEW r \in Procs, NEW n \in 0..MaxSubs, NEW plan \in Plans,
           NEW subs \in Seq(Subs), <<n, plan>> \notin used => Len(subs) <= MaxSubs,
           Once(<<n, plan>>, subs), Take(r, "entitlements", 0),
           UNCHANGED <<row, best, cache>>
    PROVE  TypeOK'
<1> USE ProcFacts
<1>1. CASE <<n, plan>> \in used
  <2>1. /\ UNCHANGED <<story, used, pending>>
    BY <1>1 DEF Once
  <2>2. /\ proc' \in [Procs -> ProcRecords]
        /\ proc'[r].version = 0 /\ proc'[r].event = proc[r].event
        /\ \A q \in Procs \ {r} : proc'[q] = proc[q]
    BY ProcTakes DEF PCs
  <2> QED BY <2>1, <2>2, KeepsTypes
<1>2. CASE <<n, plan>> \notin used
  <2>1. used' = used \cup {<<n, plan>>} /\ Happens(subs)
    BY <1>2 DEF Once
  <2>2. used' \subseteq (0..MaxSubs) \X Plans
    BY <2>1
  <2> QED BY <1>2, <2>1, <2>2, ChangesTypes
<1> QED BY <1>1, <1>2

LEMMA ChooseTypes ==
    ASSUME TypeOK, NEW r \in Requests, NEW plan \in Plans, Choose(r, plan)
    PROVE  TypeOK'
<1>1. PICK status \in {"INCOMPLETE", "ACTIVE"} :
         Once(<<0, plan>>, Append(Current, [plan |-> plan, status |-> status]))
  BY DEF Choose
<1> DEFINE subs == Append(Current, [plan |-> plan, status |-> status])
<1>2. r \in Procs /\ 0 \in 0..MaxSubs
  BY SubscriptionAssumption DEF Procs
<1>3. [plan |-> plan, status |-> status] \in Subs
  BY DEF Subs, Statuses
<1>4. subs \in Seq(Subs) /\ Len(subs) = Len(Current) + 1 /\ Len(Current) \in Nat
  BY <1>2, <1>3, SeenFacts
<1>5. <<0, plan>> \notin used => Len(subs) <= MaxSubs
  BY <1>4, SubscriptionAssumption DEF Choose
<1> QED BY <1>1, <1>2, <1>4, <1>5, OnceTypes DEF Choose

LEMMA ChangeTypes ==
    ASSUME TypeOK, NEW r \in Requests, NEW plan \in Plans, Change(r, plan)
    PROVE  TypeOK'
<1> DEFINE subs == [Current EXCEPT ![SeenSub(r)].plan = plan]
<1>1. r \in Procs
  BY DEF Procs
<1>2. SeenSub(r) \in 0..MaxSubs /\ Current \in Seq(Subs) /\ Len(Current) <= MaxSubs
  BY <1>1, SeenFacts
<1>3. subs \in Seq(Subs) /\ Len(subs) <= MaxSubs
  BY <1>2, PlanChanged
<1> QED BY <1>1, <1>2, <1>3, OnceTypes DEF Change

LEMMA CancelTypes ==
    ASSUME TypeOK, NEW r \in Requests, Cancel(r)
    PROVE  TypeOK'
<1> DEFINE subs == [Current EXCEPT ![SeenSub(r)].status = "CANCELED"]
<1>1. r \in Procs
  BY DEF Procs
<1> USE ProcFacts
<1>2. CASE Happens(subs)
  <2>1. Current \in Seq(Subs) /\ Len(Current) <= MaxSubs
    BY <1>1, SeenFacts
  <2>2. subs \in Seq(Subs) /\ Len(subs) <= MaxSubs
    BY <2>1, StatusChanged DEF Statuses
  <2> QED BY <1>1, <1>2, <2>2, ChangesTypes DEF Cancel
<1>3. CASE UNCHANGED <<story, pending>>
  <2>1. Take(r, "entitlements", 0) /\ UNCHANGED <<story, used, row, best, cache, pending>>
    BY <1>3 DEF Cancel
  <2>2. /\ proc' \in [Procs -> ProcRecords]
        /\ proc'[r].version = 0 /\ proc'[r].event = proc[r].event
        /\ \A q \in Procs \ {r} : proc'[q] = proc[q]
    BY <1>1, <2>1, ProcTakes DEF PCs
  <2> QED BY <1>1, <2>1, <2>2, KeepsTypes
<1> QED BY <1>2, <1>3 DEF Cancel

\* A delivery starts with the event it is about, and no snapshot.
LEMMA DeliverTypes ==
    ASSUME TypeOK, NEW h \in Procs, NEW e \in Events, Deliver(h, e)
    PROVE  /\ TypeOK'
           /\ e <= Now
           /\ proc'[h] = [pc |-> "entitlements", version |-> 0, event |-> e]
           /\ \A q \in Procs \ {h} : proc'[q] = proc[q]
<1>1. /\ pending \subseteq 1..Now /\ Now \in Nat /\ Now <= MaxChanges
      /\ row \in 0..Now /\ best \in 0..Now /\ cache \in (0..Now) \cup {None}
      /\ proc \in [Procs -> ProcRecords]
  BY ProcFacts DEF ProcsOK
<1>2. e \in 1..Now /\ e \in Changes /\ 0 \in Changes
  BY <1>1, SubscriptionAssumption DEF Deliver, Changes
<1> DEFINE started == [pc |-> "entitlements", version |-> 0, event |-> e]
<1>4. started \in ProcRecords
  BY <1>2 DEF ProcRecords
<1>5. proc' = [proc EXCEPT ![h] = started]
  BY DEF Deliver
<1>6. /\ proc' \in [Procs -> ProcRecords] /\ proc'[h] = started
      /\ \A q \in Procs \ {h} : proc'[q] = proc[q]
  BY <1>1, <1>4, <1>5
<1>7. /\ UNCHANGED <<story, used, row, best, cache, pending>>
      /\ proc'[h].version = 0 /\ proc'[h].event = e
  BY <1>6 DEF Deliver
<1> HIDE DEF started
<1>8. TypeOK'
  <2>1. proc'[h].version <= Now /\ proc'[h].event <= Now
    BY <1>1, <1>2, <1>7
  <2>2. row' \in 0..Now /\ best' \in 0..Now /\ cache' \in (0..Now) \cup {None}
    BY <1>1, <1>7
  <2> QED BY <1>6, <1>7, <2>1, <2>2, KeepsTypes
<1> QED BY <1>1, <1>2, <1>6, <1>8 DEF started

\* Reading the snapshot, and what a sync does, leaves billing alone.
LEMMA QuietTypes ==
    ASSUME TypeOK, NEW p \in Procs,
           \/ p \in Requests /\ (ReadCache(p) \/ ReadRow(p) \/ FillCache(p) \/ Refuse(p))
           \/ p \in Handlers /\ ((\E e \in Events : Deliver(p, e)) \/ MarkEventProcessed(p))
           \/ GetEntitlements(p) \/ Put(p) \/ Invalidate(p) \/ Fails(p)
    PROVE  TypeOK'
<1> USE ProcFacts DEF PCs
<1> DEFINE To(pc, v) == /\ proc' \in [Procs -> ProcRecords]
                        /\ proc'[p].version = v /\ proc'[p].event = proc[p].event
                        /\ \A q \in Procs \ {p} : proc'[q] = proc[q]
<1> DEFINE Ends == /\ proc' \in [Procs -> ProcRecords] /\ proc'[p] = Idle
                   /\ \A q \in Procs \ {p} : proc'[q] = proc[q]
<1>1. CASE ReadCache(p)
  <2>1. CASE cache # None
    <3>1. Take(p, "decide", cache) /\ cache \in 0..Now
      BY <1>1, <2>1 DEF ReadCache
    <3>2. To("decide", cache)
      BY <3>1, ProcTakes
    <3> QED BY <1>1, <3>1, <3>2, KeepsTypes DEF ReadCache
  <2>2. CASE cache = None
    <3>1. To("row", proc[p].version)
      BY <1>1, <2>2, ProcGoes DEF ReadCache
    <3> QED BY <1>1, <3>1, KeepsTypes DEF ReadCache
  <2> QED BY <2>1, <2>2
<1>2. CASE ReadRow(p)
  <2>1. To("fill", row)
    BY <1>2, ProcTakes DEF ReadRow
  <2> QED BY <1>2, <2>1, KeepsTypes DEF ReadRow
<1>3. CASE FillCache(p)
  <2>1. To("decide", proc[p].version)
    BY <1>3, ProcGoes DEF FillCache
  <2>2. cache' \in (0..Now) \cup {None}
    BY <1>3 DEF FillCache
  <2> QED BY <1>3, <2>1, <2>2, KeepsTypes DEF FillCache
<1>4. CASE Refuse(p) \/ Fails(p)
  <2>1. Ends
    BY <1>4, ProcEnds DEF Refuse, Fails
  <2> QED BY <1>4, <2>1, KeepsTypes DEF Refuse, Fails, Idle
<1>5. CASE \E e \in Events : Deliver(p, e)
  BY <1>5, DeliverTypes
<1>6. CASE MarkEventProcessed(p)
  <2>1. Ends
    BY <1>6, ProcEnds DEF MarkEventProcessed
  <2> QED BY <1>6, <2>1, KeepsTypes DEF MarkEventProcessed, Idle
<1>7. CASE GetEntitlements(p)
  <2>1. To("put", Now)
    BY <1>7, ProcTakes DEF GetEntitlements
  <2> QED BY <1>7, <2>1, KeepsTypes DEF GetEntitlements
<1>8. CASE Put(p)
  <2>1. To("invalidate", 0)
    BY <1>8, ProcTakes DEF Put
  <2>2. row' \in 0..Now /\ best' \in 0..Now
    BY <1>8 DEF Put
  <2> QED BY <1>8, <2>1, <2>2, KeepsTypes DEF Put
<1>9. CASE Invalidate(p)
  <2>1. cache' \in (0..Now) \cup {None}
    BY <1>9 DEF Invalidate
  <2>2. CASE p \in Handlers
    <3>1. To("mark", proc[p].version)
      BY <1>9, <2>2, ProcGoes DEF Invalidate
    <3> QED BY <1>9, <2>1, <3>1, KeepsTypes DEF Invalidate
  <2>3. CASE p \notin Handlers
    <3>1. Ends
      BY <1>9, <2>3, ProcEnds DEF Invalidate
    <3> QED BY <1>9, <2>1, <3>1, KeepsTypes DEF Invalidate, Idle
  <2> QED BY <2>2, <2>3
<1> QED BY <1>1, <1>2, <1>3, <1>4, <1>5, <1>6, <1>7, <1>8, <1>9

LEMMA InitTypes == Init => TypeOK
<1> SUFFICES ASSUME Init PROVE TypeOK
  OBVIOUS
<1>1. story = << <<>> >> /\ Len(story) = 1 /\ story[1] = <<>> /\ Now = 0
  BY DEF Init, Now
<1>2. StoryOK
  <2>1. <<>> \in Seq(Subs)
    OBVIOUS
  <2>2. << <<>> >> \in Seq(Seq(Subs))
    BY <2>1
  <2> QED BY <1>1, <2>2, SubscriptionAssumption DEF StoryOK
<1>3. Idle \in ProcRecords /\ Idle.version = 0 /\ Idle.event = 0
  BY SubscriptionAssumption DEF Idle, ProcRecords, Changes
<1>4. ProcsOK
  BY <1>1, <1>3 DEF Init, ProcsOK
<1> QED BY <1>1, <1>2, <1>4, TypesSplit DEF Init

LEMMA TypesKept == TypeOK /\ [Next]_vars => TypeOK'
<1> SUFFICES ASSUME TypeOK, [Next]_vars PROVE TypeOK'
  OBVIOUS
<1>1. CASE \E i \in 1..MaxSubs : BillingMoves(i)
  BY <1>1, BillingMovesTypes
<1>2. CASE CacheExpires
  <2>1. StoryOK' /\ Now' = Now
    BY <1>2, TypesSplit, StoryKept DEF CacheExpires
  <2> QED BY <1>2, <2>1, TypesSplit DEF CacheExpires, TypeOK, None, StoryOK, ProcsOK
<1>3. CASE \E r \in Requests : ReadCache(r) \/ RequestStep(r)
  <2>1. PICK r \in Requests : ReadCache(r) \/ RequestStep(r)
    BY <1>3
  <2>2. r \in Procs
    BY DEF Procs
  <2>3. CASE ReadCache(r) \/ ReadRow(r) \/ FillCache(r) \/ Refuse(r)
    BY <2>2, <2>3, QuietTypes
  <2>4. CASE Cancel(r)
    BY <2>4, CancelTypes
  <2>5. CASE \E plan \in Plans : Choose(r, plan) \/ Change(r, plan)
    BY <2>5, ChooseTypes, ChangeTypes
  <2> QED BY <2>1, <2>3, <2>4, <2>5 DEF RequestStep
<1>4. CASE \E h \in Handlers : HandlerStep(h)
  BY <1>4, QuietTypes DEF HandlerStep, Procs
<1>5. CASE \E p \in Procs : SyncStep(p) \/ Fails(p)
  BY <1>5, QuietTypes DEF SyncStep
<1>6. CASE UNCHANGED vars
  BY <1>6, StoryKept, TypesSplit DEF vars, TypeOK, StoryOK, ProcsOK
<1> QED BY <1>1, <1>2, <1>3, <1>4, <1>5, <1>6 DEF Next

\* Every reachable state is well typed: what a request decides on and what a
\* delivery is about never names a change billing has not made.
THEOREM TypeCorrect == Spec => []TypeOK
BY InitTypes, TypesKept, PTL DEF Spec

-----------------------------------------------------------------------------
(* What is answered was synced *)

\* A delivery puts what it read after the change it is about, and answers for it
\* only after that.
Carried(p) ==
    /\ proc[p].pc = "put" => proc[p].event <= proc[p].version
    /\ proc[p].pc \in {"invalidate", "mark"} => proc[p].event <= best

Synced == AnsweredMeansSynced /\ \A p \in Procs : Carried(p)

\* Reading, deciding and ending leave what was carried.
LEMMA CarriedKept ==
    ASSUME TypeOK, Synced, NEW p \in Procs,
           best' \in Nat, best <= best', Carried(p)',
           \A q \in Procs \ {p} : proc'[q] = proc[q]
    PROVE  \A q \in Procs : Carried(q)'
<1>1. ASSUME NEW q \in Procs PROVE Carried(q)'
  <2>1. CASE q = p
    BY <2>1
  <2>2. CASE q # p
    <3>1. proc'[q] = proc[q] /\ proc[q].event \in 0..Now /\ best \in 0..Now /\ Now \in Nat
      BY <2>2, ProcFacts
    <3>2. Carried(q)
      BY DEF Synced
    <3> QED BY <3>1, <3>2 DEF Carried
  <2> QED BY <2>1, <2>2
<1> QED BY <1>1

\* Without a change at billing or a put, what is answered stays synced unless an
\* event is answered now.
LEMMA AnsweredKept ==
    ASSUME TypeOK, Synced, UNCHANGED <<story, best>>,
           \A e \in Events : e \in pending /\ e \notin pending' => e <= best
    PROVE  AnsweredMeansSynced'
<1>1. Now' = Now
  BY TypesSplit, StoryKept
<1> QED BY <1>1 DEF Synced, AnsweredMeansSynced

\* A change of billing's, and the request that made it on its way to a sync.
LEMMA ChangesSynced ==
    ASSUME TypeOK, Synced, NEW subs, Happens(subs), UNCHANGED best
    PROVE  AnsweredMeansSynced'
<1>1. Len(story) \in Nat /\ Now \in Nat /\ best \in 0..Now
  BY TypesSplit, NowIsNatural DEF StoryOK
<1>2. Now' = Now + 1 /\ pending' = pending \cup {Now + 1}
  BY <1>1, TypesSplit DEF Happens, Now, StoryOK
<1>3. ASSUME NEW e \in Events, e <= Now', e \notin pending' PROVE e <= best'
  <2>1. e <= Now /\ e \notin pending
    BY <1>1, <1>2, <1>3, SubscriptionAssumption DEF Events
  <2> QED BY <2>1 DEF Synced, AnsweredMeansSynced
<1> QED BY <1>3 DEF AnsweredMeansSynced

LEMMA TakenSynced ==
    ASSUME TypeOK, Synced, NEW r \in Procs, Take(r, "entitlements", 0), UNCHANGED best
    PROVE  \A q \in Procs : Carried(q)'
<1>1. /\ proc'[r].pc = "entitlements" /\ \A q \in Procs \ {r} : proc'[q] = proc[q]
  BY ProcFacts, ProcTakes DEF PCs
<1>2. Carried(r)' /\ best \in Nat /\ best <= best'
  BY <1>1, ProcFacts DEF Carried
<1> QED BY <1>1, <1>2, CarriedKept

LEMMA RequestSynced ==
    ASSUME TypeOK, Synced, NEW r \in Requests,
           Cancel(r) \/ \E plan \in Plans : Choose(r, plan) \/ Change(r, plan)
    PROVE  Synced'
<1>1. r \in Procs /\ UNCHANGED best /\ Take(r, "entitlements", 0)
  BY DEF Procs, Cancel, Choose, Change
<1>2. (\E subs : Happens(subs)) \/ UNCHANGED <<story, pending>>
  BY DEF Cancel, Choose, Change, Once
<1>3. AnsweredMeansSynced'
  BY <1>1, <1>2, ChangesSynced, AnsweredKept
<1> QED BY <1>1, <1>3, TakenSynced DEF Synced

LEMMA QuietSynced ==
    ASSUME TypeOK, Synced, NEW p \in Procs,
           \/ p \in Requests /\ (ReadCache(p) \/ ReadRow(p) \/ FillCache(p) \/ Refuse(p))
           \/ p \in Handlers /\ ((\E e \in Events : Deliver(p, e)) \/ MarkEventProcessed(p))
           \/ GetEntitlements(p) \/ Put(p) \/ Invalidate(p) \/ Fails(p)
    PROVE  Synced'
<1> USE DEF PCs
<1>0. /\ StoryOK /\ ProcsOK /\ Now \in Nat /\ row \in 0..Now /\ best \in 0..Now
      /\ cache \in (0..Now) \cup {None}
      /\ proc[p].version \in 0..Now /\ proc[p].event \in 0..Now
  BY ProcFacts
<1>1. CASE ReadCache(p) \/ ReadRow(p) \/ FillCache(p) \/ Refuse(p) \/ Fails(p)
  <2>1. UNCHANGED <<story, best, pending>>
    BY <1>1 DEF ReadCache, ReadRow, FillCache, Refuse, Fails
  <2>2. /\ proc'[p].pc \in {"decide", "row", "fill", "idle"}
        /\ \A q \in Procs \ {p} : proc'[q] = proc[q]
    <3>1. CASE ReadCache(p)
      BY <1>0, <3>1, ProcTakes, ProcGoes DEF ReadCache
    <3>2. CASE ReadRow(p)
      BY <1>0, <3>2, ProcTakes DEF ReadRow
    <3>3. CASE FillCache(p)
      BY <1>0, <3>3, ProcGoes DEF FillCache
    <3>4. CASE Refuse(p) \/ Fails(p)
      BY <1>0, <3>4, ProcEnds DEF Refuse, Fails, Idle
    <3> QED BY <1>1, <3>1, <3>2, <3>3, <3>4
  <2>3. Carried(p)' /\ best' \in Nat /\ best <= best'
    BY <1>0, <2>1, <2>2 DEF Carried
  <2> QED BY <2>1, <2>2, <2>3, AnsweredKept, CarriedKept DEF Synced
<1>2. CASE \E e \in Events : Deliver(p, e)
  <2>1. PICK e \in Events : Deliver(p, e)
    BY <1>2
  <2>a. /\ proc'[p] = [pc |-> "entitlements", version |-> 0, event |-> e]
        /\ \A q \in Procs \ {p} : proc'[q] = proc[q]
    BY <2>1, DeliverTypes, Zenon
  <2>2. proc'[p].pc = "entitlements" /\ \A q \in Procs \ {p} : proc'[q] = proc[q]
    BY <2>a
  <2>3. UNCHANGED <<story, best, pending>>
    BY <2>1 DEF Deliver
  <2>4. Carried(p)' /\ best' \in Nat /\ best <= best'
    BY <1>0, <2>2, <2>3 DEF Carried
  <2> QED BY <2>2, <2>3, <2>4, AnsweredKept, CarriedKept DEF Synced
<1>3. CASE MarkEventProcessed(p)
  <2>1. /\ proc'[p] = Idle /\ \A q \in Procs \ {p} : proc'[q] = proc[q]
        /\ UNCHANGED <<story, best>>
    BY <1>0, <1>3, ProcEnds DEF MarkEventProcessed
  <2>2. proc[p].event <= best
    BY <1>3 DEF MarkEventProcessed, At, Synced, Carried
  <2>3. \A e \in Events : e \in pending /\ e \notin pending' => e <= best
    BY <1>3, <2>2 DEF MarkEventProcessed
  <2>4. Carried(p)' /\ best' \in Nat /\ best <= best'
    BY <1>0, <2>1 DEF Carried, Idle
  <2> QED BY <2>1, <2>3, <2>4, AnsweredKept, CarriedKept DEF Synced
<1>4. CASE GetEntitlements(p)
  <2>1. /\ proc'[p].pc = "put" /\ proc'[p].version = Now /\ proc'[p].event = proc[p].event
        /\ \A q \in Procs \ {p} : proc'[q] = proc[q]
    BY <1>0, <1>4, ProcTakes DEF GetEntitlements
  <2>2. UNCHANGED <<story, best, pending>>
    BY <1>4 DEF GetEntitlements
  <2>3. Carried(p)' /\ best' \in Nat /\ best <= best'
    BY <1>0, <2>1, <2>2 DEF Carried
  <2> QED BY <2>1, <2>2, <2>3, AnsweredKept, CarriedKept DEF Synced
<1>5. CASE Put(p)
  <2>1. /\ proc'[p].pc = "invalidate" /\ proc'[p].event = proc[p].event
        /\ \A q \in Procs \ {p} : proc'[q] = proc[q]
    BY <1>0, <1>5, ProcTakes DEF Put
  <2>2. proc[p].event <= proc[p].version
    BY <1>5 DEF Put, At, Synced, Carried
  <2>3. best' \in Nat /\ best <= best' /\ proc[p].version <= best' /\ UNCHANGED <<story, pending>>
    BY <1>0, <1>5 DEF Put
  <2>4. Carried(p)'
    BY <1>0, <2>1, <2>2, <2>3 DEF Carried
  <2>5. AnsweredMeansSynced'
    <3>1. Now' = Now
      BY <1>0, <2>3, StoryKept
    <3> QED BY <1>0, <2>3, <3>1 DEF Synced, AnsweredMeansSynced, Events
  <2> QED BY <2>1, <2>3, <2>4, <2>5, CarriedKept DEF Synced
<1>6. CASE Invalidate(p)
  <2>1. UNCHANGED <<story, best, pending>> /\ At(p, "invalidate")
    BY <1>6 DEF Invalidate
  <2>2. /\ \/ proc'[p].pc = "mark" /\ proc'[p].event = proc[p].event
           \/ proc'[p] = Idle
        /\ \A q \in Procs \ {p} : proc'[q] = proc[q]
    BY <1>0, <1>6, ProcGoes, ProcEnds DEF Invalidate
  <2>3. proc[p].event <= best
    BY <2>1 DEF At, Synced, Carried
  <2>4. Carried(p)' /\ best' \in Nat /\ best <= best'
    BY <1>0, <2>1, <2>2, <2>3 DEF Carried, Idle
  <2> QED BY <2>1, <2>2, <2>4, AnsweredKept, CarriedKept DEF Synced
<1> QED BY <1>1, <1>2, <1>3, <1>4, <1>5, <1>6

LEMMA SyncedKept == TypeOK /\ Synced /\ [Next]_vars => Synced'
<1> SUFFICES ASSUME TypeOK, Synced, [Next]_vars PROVE Synced'
  OBVIOUS
<1>1. CASE \E i \in 1..MaxSubs : BillingMoves(i)
  <2>1. (\E subs : Happens(subs)) /\ UNCHANGED <<best, proc>>
    BY <1>1 DEF BillingMoves
  <2>2. AnsweredMeansSynced'
    BY <2>1, ChangesSynced
  <2> QED BY <2>1, <2>2 DEF Synced, Carried
<1>2. CASE CacheExpires \/ UNCHANGED vars
  <2>1. UNCHANGED <<story, best, pending, proc>>
    BY <1>2 DEF CacheExpires, vars
  <2> QED BY <2>1, AnsweredKept DEF Synced, Carried
<1>3. CASE \E r \in Requests : ReadCache(r) \/ RequestStep(r)
  <2>1. PICK r \in Requests : ReadCache(r) \/ RequestStep(r)
    BY <1>3
  <2>2. CASE ReadCache(r) \/ ReadRow(r) \/ FillCache(r) \/ Refuse(r)
    BY <2>2, QuietSynced DEF Procs
  <2>3. CASE Cancel(r) \/ \E plan \in Plans : Choose(r, plan) \/ Change(r, plan)
    BY <2>3, RequestSynced
  <2> QED BY <2>1, <2>2, <2>3 DEF RequestStep
<1>4. CASE \E h \in Handlers : HandlerStep(h)
  BY <1>4, QuietSynced DEF HandlerStep, Procs
<1>5. CASE \E p \in Procs : SyncStep(p) \/ Fails(p)
  BY <1>5, QuietSynced DEF SyncStep
<1> QED BY <1>1, <1>2, <1>3, <1>4, <1>5 DEF Next

\* An answered change was synced: the handler of the webhook answers only after a
\* put of what billing said at or after the change, whatever failed or was
\* delivered twice.
THEOREM AnsweredMeansSyncedHolds == Spec => []AnsweredMeansSynced
<1>1. Init => Synced
  BY SubscriptionAssumption
     DEF Init, Synced, AnsweredMeansSynced, Carried, Idle, Now, Events
<1>2. Synced => AnsweredMeansSynced
  BY DEF Synced
<1> QED BY <1>1, <1>2, TypeCorrect, SyncedKept, PTL DEF Spec

-----------------------------------------------------------------------------
(* The row, when syncs do not overlap *)

\* Between its read of billing and its Put a sync is alone.  Nothing in the code
\* makes it so: it is what the documented claim about the row needs.
OneSyncAtATime == \A p, q \in Procs : At(p, "put") /\ At(q, "put") => p = q

\* No newer snapshot was ever replaced, and none is about to be.
RowIsNewest == row = best /\ \A p \in Procs : At(p, "put") => best <= proc[p].version

\* A step that writes no row and sends nobody to the Put.
LEMMA NewestKept ==
    ASSUME TypeOK, RowIsNewest, UNCHANGED <<row, best>>, NEW p \in Procs,
           proc'[p].pc # "put", \A q \in Procs \ {p} : proc'[q] = proc[q]
    PROVE  RowIsNewest'
BY DEF RowIsNewest, At

LEMMA SyncNewest ==
    ASSUME TypeOK, RowIsNewest, OneSyncAtATime, NEW p \in Procs,
           GetEntitlements(p) \/ Put(p) \/ Invalidate(p) \/ Fails(p)
    PROVE  RowIsNewest'
<1> USE DEF PCs
<1>0. /\ StoryOK /\ ProcsOK /\ Now \in Nat /\ row \in 0..Now /\ best \in 0..Now
      /\ proc[p].version \in 0..Now
  BY ProcFacts
<1>1. CASE GetEntitlements(p)
  <2>1. /\ proc'[p].version = Now /\ UNCHANGED <<row, best>>
        /\ \A q \in Procs \ {p} : proc'[q] = proc[q]
    BY <1>0, <1>1, ProcTakes DEF GetEntitlements
  <2>2. best' <= proc'[p].version
    BY <1>0, <2>1
  <2> QED BY <2>1, <2>2 DEF RowIsNewest, At
<1>2. CASE Put(p)
  <2>1. /\ proc'[p].pc = "invalidate" /\ \A q \in Procs \ {p} : proc'[q] = proc[q]
    BY <1>0, <1>2, ProcTakes DEF Put
  <2>2. At(p, "put") /\ best <= proc[p].version
    BY <1>2 DEF Put, RowIsNewest
  <2>3. row' = best'
    BY <1>0, <1>2, <2>2 DEF Put
  <2>4. \A q \in Procs : ~At(q, "put")'
    BY <2>1, <2>2 DEF OneSyncAtATime, At
  <2> QED BY <2>3, <2>4 DEF RowIsNewest
<1>3. CASE Invalidate(p)
  <2>1. /\ proc'[p].pc # "put" /\ \A q \in Procs \ {p} : proc'[q] = proc[q]
    BY <1>0, <1>3, ProcGoes, ProcEnds DEF Invalidate, Idle
  <2> QED BY <1>3, <2>1, NewestKept DEF Invalidate
<1>4. CASE Fails(p)
  <2>1. /\ proc'[p].pc # "put" /\ \A q \in Procs \ {p} : proc'[q] = proc[q]
    BY <1>0, <1>4, ProcEnds DEF Fails, Idle
  <2> QED BY <1>4, <2>1, NewestKept DEF Fails
<1> QED BY <1>1, <1>2, <1>3, <1>4

LEMMA RequestNewest ==
    ASSUME TypeOK, RowIsNewest, NEW r \in Requests, ReadCache(r) \/ RequestStep(r)
    PROVE  RowIsNewest'
<1> USE DEF PCs
<1>0. r \in Procs /\ StoryOK /\ ProcsOK /\ Now \in Nat /\ row \in 0..Now
      /\ cache \in (0..Now) \cup {None}
  BY ProcFacts DEF Procs
<1>1. UNCHANGED <<row, best>>
  BY DEF ReadCache, RequestStep, ReadRow, FillCache, Refuse, Cancel, Choose, Change
<1>2. proc'[r].pc # "put" /\ \A q \in Procs \ {r} : proc'[q] = proc[q]
  <2>1. CASE ReadCache(r)
    BY <1>0, <2>1, ProcTakes, ProcGoes DEF ReadCache
  <2>2. CASE ReadRow(r)
    BY <1>0, <2>2, ProcTakes DEF ReadRow
  <2>3. CASE FillCache(r)
    BY <1>0, <2>3, ProcGoes DEF FillCache
  <2>4. CASE Refuse(r)
    BY <1>0, <2>4, ProcEnds DEF Refuse, Idle
  <2>5. CASE Cancel(r) \/ \E plan \in Plans : Choose(r, plan) \/ Change(r, plan)
    <3>1. Take(r, "entitlements", 0)
      BY <2>5 DEF Cancel, Choose, Change
    <3> QED BY <1>0, <3>1, ProcTakes
  <2> QED BY <2>1, <2>2, <2>3, <2>4, <2>5 DEF RequestStep
<1> QED BY <1>0, <1>1, <1>2, NewestKept

LEMMA HandlerNewest ==
    ASSUME TypeOK, RowIsNewest, NEW h \in Handlers, HandlerStep(h)
    PROVE  RowIsNewest'
<1>0. h \in Procs /\ StoryOK /\ ProcsOK
  BY ProcFacts DEF Procs
<1>1. UNCHANGED <<row, best>>
  BY DEF HandlerStep, Deliver, MarkEventProcessed
<1>2. proc'[h].pc # "put" /\ \A q \in Procs \ {h} : proc'[q] = proc[q]
  <2>1. ASSUME NEW e \in Events, Deliver(h, e)
        PROVE  proc'[h].pc # "put" /\ \A q \in Procs \ {h} : proc'[q] = proc[q]
    <3>1. /\ proc'[h] = [pc |-> "entitlements", version |-> 0, event |-> e]
          /\ \A q \in Procs \ {h} : proc'[q] = proc[q]
      BY <1>0, <2>1, DeliverTypes, Zenon
    <3> QED BY <3>1
  <2>2. CASE MarkEventProcessed(h)
    BY <1>0, <2>2, ProcEnds DEF MarkEventProcessed, Idle
  <2> QED BY <2>1, <2>2 DEF HandlerStep
<1> QED BY <1>0, <1>1, <1>2, NewestKept

LEMMA NewestStep == TypeOK /\ RowIsNewest /\ OneSyncAtATime /\ [Next]_vars => RowIsNewest'
<1> SUFFICES ASSUME TypeOK, RowIsNewest, OneSyncAtATime, [Next]_vars PROVE RowIsNewest'
  OBVIOUS
<1>1. CASE UNCHANGED <<row, best, proc>>
  BY <1>1 DEF RowIsNewest, At
<1>2. CASE (\E i \in 1..MaxSubs : BillingMoves(i)) \/ CacheExpires \/ UNCHANGED vars
  BY <1>1, <1>2 DEF BillingMoves, CacheExpires, vars
<1> QED
  BY <1>2, RequestNewest, HandlerNewest, SyncNewest DEF Next, SyncStep

\* "Duas entregas concorrentes podem repetir a leitura e o Put integral sem
\* produzir estados diferentes" is true of syncs that do not overlap between the
\* read of billing and the Put of the whole row, deliveries and requests alike.
THEOREM RowIsCurrentIfSyncsAreSerial == Spec /\ []OneSyncAtATime => []RowIsCurrent
<1>1. Init => RowIsNewest
  BY DEF Init, RowIsNewest, At, Idle
<1>2. TypeOK /\ AnsweredMeansSynced /\ RowIsNewest => RowIsCurrent
  <2> SUFFICES ASSUME TypeOK, AnsweredMeansSynced, RowIsNewest, pending = {}
               PROVE  row = Now
    BY DEF RowIsCurrent
  <2>1. Now \in 0..MaxChanges /\ best \in 0..Now /\ row = best
    BY TypesSplit, NowIsNatural DEF RowIsNewest
  <2>2. Now <= best
    BY <2>1, SubscriptionAssumption DEF AnsweredMeansSynced, Events
  <2> QED BY <2>1, <2>2
<1> QED BY <1>1, <1>2, TypeCorrect, AnsweredMeansSyncedHolds, NewestStep, PTL DEF Spec

-----------------------------------------------------------------------------
(* A second subscription needs a snapshot left behind *)

\* What SecondOnlyWhenBehind says of one step.
SecondStep ==
    Serial(Current) /\ ~Serial(Current)' =>
       \E r \in Requests : At(r, "decide") /\ ~At(r, "decide")' /\ proc[r].version < Now

\* A list whose statuses only change to CANCELED, or at its end, stays serial.
LEMMA StaysSerial ==
    ASSUME NEW before \in Seq(Subs), NEW after \in Seq(Subs), Len(after) = Len(before),
           \A k \in 1..(Len(before) - 1) :
              before[k].status = "CANCELED" => after[k].status = "CANCELED"
    PROVE  Serial(before) => Serial(after)
BY DEF Serial

\* Canceling a subscription, or changing the status of one that is not canceled,
\* leaves every canceled one canceled.
LEMMA StatusStaysSerial ==
    ASSUME NEW subs \in Seq(Subs), NEW i, NEW status \in Statuses,
           status = "CANCELED" \/ subs[i].status # "CANCELED", Serial(subs)
    PROVE  Serial([subs EXCEPT ![i].status = status])
<1> DEFINE changed == [subs EXCEPT ![i].status = status]
<1>1. changed \in Seq(Subs) /\ Len(changed) = Len(subs)
  BY StatusChanged
<1>2. \A k \in 1..Len(subs) :
        changed[k] = IF k = i THEN [subs[k] EXCEPT !.status = status] ELSE subs[k]
  OBVIOUS
<1>3. \A k \in 1..Len(subs) : subs[k] \in Subs
  OBVIOUS
<1> HIDE DEF changed
<1>4. ASSUME NEW k \in 1..(Len(subs) - 1), subs[k].status = "CANCELED"
      PROVE  changed[k].status = "CANCELED"
  <2>1. k \in 1..Len(subs)
    OBVIOUS
  <2>2. CASE k = i
    BY <1>2, <1>3, <1>4, <2>1, <2>2 DEF Subs
  <2>3. CASE k # i
    BY <1>2, <1>4, <2>1, <2>3
  <2> QED BY <2>2, <2>3
<1>5. Serial(changed)
  BY <1>1, <1>4, StaysSerial
<1> QED BY <1>5 DEF changed

\* A request that decides on the current list opens a subscription only beside
\* canceled ones.
LEMMA FreeIsSerial ==
    ASSUME NEW subs \in Seq(Subs), NEW new \in Subs, Serial(subs),
           Pick(subs) # 0 => subs[Pick(subs)].status = "CANCELED"
    PROVE  Serial(Append(subs, new))
<1> DEFINE longer == Append(subs, new)
<1>1. Len(longer) = Len(subs) + 1 /\ \A k \in 1..Len(subs) : longer[k] = subs[k]
  OBVIOUS
<1>2. Len(subs) # 0 => subs[Len(subs)].status = "CANCELED"
  BY PickNames DEF Entitled
<1>3. ASSUME NEW k \in 1..Len(subs) PROVE subs[k].status = "CANCELED"
  BY <1>2, <1>3 DEF Serial
<1> HIDE DEF longer
<1>4. Serial(longer)
  BY <1>1, <1>3 DEF Serial
<1> QED BY <1>4 DEF longer

\* A change at billing made by the step leaves the list it says.
LEMMA HappensCurrent ==
    ASSUME TypeOK, NEW subs \in Seq(Subs), Happens(subs)
    PROVE  Current' = subs
<1>1. story \in Seq(Seq(Subs)) /\ story' = Append(story, subs)
  BY TypesSplit DEF StoryOK, Happens
<1>2. Len(story') = Len(story) + 1 /\ story'[Len(story) + 1] = subs
  BY <1>1
<1> QED BY <1>2 DEF Current

LEMMA SecondBehind == TypeOK /\ [Next]_vars => SecondStep
<1> SUFFICES ASSUME TypeOK, [Next]_vars, Serial(Current), ~Serial(Current)'
             PROVE  \E r \in Requests :
                       At(r, "decide") /\ ~At(r, "decide")' /\ proc[r].version < Now
  BY DEF SecondStep
<1>1. Current \in Seq(Subs) /\ Len(Current) \in Nat
  BY TypesSplit, NowIsNatural
<1>2. story' # story
  BY DEF Current
<1>3. Serial(Current') <=> Serial(Current)'
  BY DEF Serial
<1>4. ASSUME NEW i, BillingMoves(i) PROVE FALSE
  <2>1. PICK status \in Moves(Current[i].status) :
           Happens([Current EXCEPT ![i].status = status])
    BY <1>4 DEF BillingMoves
  <2>2. status \in Statuses /\ Current[i].status # "CANCELED"
    BY <2>1 DEF Moves, Statuses
  <2> DEFINE subs == [Current EXCEPT ![i].status = status]
  <2>3. subs \in Seq(Subs) /\ Serial(subs)
    BY <1>1, <2>2, StatusChanged, StatusStaysSerial
  <2>4. Current' = subs
    BY <2>1, <2>3, HappensCurrent
  <2> QED BY <1>3, <2>3, <2>4
<1>5. ASSUME NEW r \in Requests, NEW plan \in Plans, Change(r, plan) PROVE FALSE
  <2> DEFINE subs == [Current EXCEPT ![SeenSub(r)].plan = plan]
  <2>1. Happens(subs)
    BY <1>2, <1>5 DEF Change, Once
  <2>2. /\ subs \in Seq(Subs) /\ Len(subs) = Len(Current)
        /\ \A k \in 1..Len(Current) : subs[k].status = Current[k].status
    BY <1>1, PlanChanged
  <2>3. Current' = subs
    BY <2>1, <2>2, HappensCurrent
  <2> HIDE DEF subs
  <2>4. \A k \in 1..(Len(Current) - 1) : k \in 1..Len(Current)
    BY <1>1
  <2> QED BY <1>1, <1>3, <2>2, <2>3, <2>4, StaysSerial
<1>6. ASSUME NEW r \in Requests, Cancel(r) PROVE FALSE
  <2> DEFINE subs == [Current EXCEPT ![SeenSub(r)].status = "CANCELED"]
  <2>1. Happens(subs)
    BY <1>2, <1>6 DEF Cancel
  <2>2. subs \in Seq(Subs) /\ Serial(subs)
    BY <1>1, StatusChanged, StatusStaysSerial DEF Statuses
  <2>3. Current' = subs
    BY <2>1, <2>2, HappensCurrent
  <2> QED BY <1>3, <2>2, <2>3
<1>7. ASSUME NEW r \in Requests, NEW plan \in Plans, Choose(r, plan)
      PROVE  At(r, "decide") /\ ~At(r, "decide")' /\ proc[r].version < Now
  <2>1. PICK status \in {"INCOMPLETE", "ACTIVE"} :
           Once(<<0, plan>>, Append(Current, [plan |-> plan, status |-> status]))
    BY <1>7 DEF Choose
  <2> DEFINE new == [plan |-> plan, status |-> status]
  <2>2. new \in Subs
    BY DEF Subs, Statuses
  <2>3. Happens(Append(Current, new))
    BY <1>2, <2>1 DEF Once
  <2> HIDE DEF new
  <2>4. Current' = Append(Current, new)
    <3>1. Append(Current, new) \in Seq(Subs)
      BY <1>1, <2>2
    <3> QED BY <2>3, <3>1, HappensCurrent
  <2>5. r \in Procs
    BY DEF Procs
  <2>6. proc[r].version # Now
    <3>1. SUFFICES ASSUME proc[r].version = Now PROVE FALSE
      OBVIOUS
    <3>2. Seen(r) = Current
      <4>1. Len(story) \in Nat
        BY TypesSplit DEF StoryOK
      <4> QED BY <3>1, <4>1 DEF Seen, Current, Now
    <3>3. Pick(Current) # 0 => Current[Pick(Current)].status = "CANCELED"
      BY <1>7, <3>2 DEF Choose, Free, SeenSub
    <3>4. Serial(Append(Current, new))
      BY <1>1, <2>2, <3>3, FreeIsSerial
    <3> QED BY <1>3, <2>4, <3>4
  <2>7. proc[r].version \in 0..Now /\ Now \in Nat
    BY <2>5, ProcFacts
  <2>8. proc'[r].pc = "entitlements"
    BY <1>7, <2>5, <2>7, ProcFacts, ProcTakes DEF Choose, PCs
  <2> QED BY <1>7, <2>6, <2>7, <2>8 DEF Choose, At
<1>8. CASE \E r \in Requests : ReadCache(r) \/ RequestStep(r)
  <2>1. PICK r \in Requests : ReadCache(r) \/ RequestStep(r)
    BY <1>8
  <2>2. ~(ReadCache(r) \/ ReadRow(r) \/ FillCache(r) \/ Refuse(r))
    BY <1>2 DEF ReadCache, ReadRow, FillCache, Refuse
  <2> QED BY <2>1, <2>2, <1>5, <1>6, <1>7 DEF RequestStep
<1>9. ~CacheExpires /\ ~UNCHANGED vars
  BY <1>2 DEF CacheExpires, vars
<1>10. ~\E h \in Handlers : HandlerStep(h)
  BY <1>2 DEF HandlerStep, Deliver, MarkEventProcessed
<1>11. ~\E p \in Procs : SyncStep(p) \/ Fails(p)
  BY <1>2 DEF SyncStep, GetEntitlements, Put, Invalidate, Fails
<1> QED BY <1>4, <1>8, <1>9, <1>10, <1>11 DEF Next

\* Two subscriptions that both live are opened only by a request that decided on
\* a snapshot billing had left behind: Choose refuses whatever it can see.
THEOREM SecondOnlyWhenBehindHolds == Spec => SecondOnlyWhenBehind
<1>1. TypeOK /\ [Next]_vars => [SecondStep]_vars
  BY SecondBehind
<1> QED BY <1>1, TypeCorrect, PTL DEF Spec, SecondOnlyWhenBehind, SecondStep

=============================================================================
