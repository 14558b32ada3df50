------------------------- MODULE ConfigRegistryProofs -------------------------
(***************************************************************************)
(* Theorems about ConfigRegistry, for any number of companies, of requests *)
(* at once, of sweepers and of errors.                                     *)
(***************************************************************************)
EXTENDS ConfigRegistry, FiniteSetTheorems, TLAPS

-----------------------------------------------------------------------------
(* Records *)

LEMMA BlankTypes == Blank \in [Ambientes -> Series \cup {0}]
BY DEF Blank

LEMMA AtRestTypes == AtRest \in SaveRecords /\ AtRest.pc = "idle"
<1>1. (CHOOSE c \in Companies : TRUE) \in Companies
  BY RegistryAssumption
<1> QED BY <1>1, BlankTypes DEF AtRest, SaveRecords, Places

LEMMA NoFlushTypes == NoFlush \in FlushRecords /\ NoFlush.pc = "idle"
<1>1. PICK c \in Companies : OrgOf[c] \in Orgs
  BY RegistryAssumption
<1>2. (CHOOSE o \in Orgs : TRUE) \in Orgs
  BY <1>1
<1> QED BY <1>2 DEF NoFlush, FlushRecords

LEMMA SaveTypes ==
    ASSUME TypeOK, NEW s \in Saves
    PROVE  /\ save[s] \in SaveRecords
           /\ save[s].pc \in Places /\ save[s].company \in Companies
           /\ save[s].form \in [Ambientes -> Series \cup {0}]
           /\ save[s].abandoned \in [Ambientes -> Series \cup {0}]
           /\ save[s].reserved \in BOOLEAN /\ save[s].guard \in Nat
           /\ save[s].left \subseteq Ambientes
           /\ Org(s) \in Orgs
<1>1. save[s] \in SaveRecords
  BY DEF TypeOK
<1> QED BY <1>1, RegistryAssumption DEF SaveRecords, Org

LEMMA FlushTypes ==
    ASSUME TypeOK, NEW f \in Flushers
    PROVE  /\ flush[f] \in FlushRecords
           /\ flush[f].pc \in {"idle", "count", "report", "clear"} /\ flush[f].org \in Orgs
           /\ flush[f].version \in Nat /\ flush[f].count \in Nat
<1>1. flush[f] \in FlushRecords
  BY DEF TypeOK
<1> QED BY <1>1 DEF FlushRecords

LEMMA FirstIsLeft ==
    ASSUME NEW left \in SUBSET Ambientes, left # {}
    PROVE  First(left) \in left
BY DEF First, Ambientes

\* Request s becomes r.
Becomes(s, r) == save' = [save EXCEPT ![s] = r]

LEMMA SaveBecomes ==
    ASSUME TypeOK, NEW s \in Saves, NEW r \in SaveRecords, Becomes(s, r)
    PROVE  /\ save' \in [Saves -> SaveRecords] /\ save'[s] = r
           /\ \A t \in Saves : t # s => save'[t] = save[t]
BY DEF Becomes, TypeOK

\* Delivery f becomes d.
Delivers(f, d) == flush' = [flush EXCEPT ![f] = d]

LEMMA FlushDelivers ==
    ASSUME TypeOK, NEW f \in Flushers, NEW d \in FlushRecords, Delivers(f, d)
    PROVE  /\ flush' \in [Flushers -> FlushRecords] /\ flush'[f] = d
           /\ \A g \in Flushers : g # f => flush'[g] = flush[g]
BY DEF Delivers, TypeOK

\* A request that goes on to pc, and nothing else of it.
LEMMA GotoBecomes ==
    ASSUME TypeOK, NEW s \in Saves, NEW pc \in Places, Goto(s, pc)
    PROVE  \E r \in SaveRecords :
              /\ Becomes(s, r) /\ r.pc = pc /\ r.company = save[s].company
              /\ r.form = save[s].form /\ r.abandoned = save[s].abandoned
              /\ r.reserved = save[s].reserved /\ r.guard = save[s].guard
              /\ r.left = save[s].left
<1> DEFINE r == [save[s] EXCEPT !.pc = pc]
<1>1. /\ r \in SaveRecords /\ r.pc = pc /\ r.company = save[s].company
      /\ r.form = save[s].form /\ r.abandoned = save[s].abandoned
      /\ r.reserved = save[s].reserved /\ r.guard = save[s].guard
      /\ r.left = save[s].left
  BY SaveTypes DEF SaveRecords
<1>2. Becomes(s, r)
  BY DEF Goto, Becomes
<1> QED BY <1>1, <1>2

LEMMA EndBecomes ==
    ASSUME NEW s \in Saves, End(s)
    PROVE  \E r \in SaveRecords : Becomes(s, r) /\ r.pc = "idle"
BY AtRestTypes DEF End, Becomes

-----------------------------------------------------------------------------
(* What an action makes of its request *)

LEMMA StartSaveMoves ==
    ASSUME TypeOK, NEW s \in Saves, NEW c \in Companies, NEW form \in Forms[c],
           StartSave(s, c, form)
    PROVE  \E r \in SaveRecords : Becomes(s, r) /\ r.pc = "reserve" /\ r.company = c
<1> DEFINE r == [save[s] EXCEPT !.pc = "reserve", !.company = c, !.form = form]
<1>1. form \in [Ambientes -> Series \cup {0}]
  BY RegistryAssumption
<1>2. r \in SaveRecords /\ r.pc = "reserve" /\ r.company = c
  BY <1>1, SaveTypes DEF SaveRecords, Places
<1>3. Becomes(s, r)
  BY DEF StartSave, Becomes, TypeOK
<1> QED BY <1>2, <1>3

LEMMA ReserveCompanyMoves ==
    ASSUME TypeOK, NEW s \in Saves, ReserveCompany(s)
    PROVE  \E r \in SaveRecords :
              /\ Becomes(s, r) /\ r.company = save[s].company
              /\ r.reserved <=> save[s].company \notin configured
              /\ r.reserved /\ Limit[Org(s)] # Unlimited => r.pc = "count" /\ r.guard = guard[Org(s)]
              /\ ~(r.reserved /\ Limit[Org(s)] # Unlimited) => r.pc = "previous"
<1> DEFINE first == save[s].company \notin configured
           limited == first /\ Limit[Org(s)] # Unlimited
           version0 == IF limited THEN guard[Org(s)] ELSE 0
           pc == IF limited THEN "count" ELSE "previous"
           r == [save[s] EXCEPT !.reserved = first, !.guard = version0, !.pc = pc]
<1>1. Becomes(s, r)
  BY DEF ReserveCompany, Becomes, TypeOK
<1>2. first \in BOOLEAN /\ version0 \in Nat /\ pc \in Places
  BY SaveTypes DEF TypeOK, Places
<1>3. /\ limited => version0 = guard[Org(s)] /\ pc = "count"
      /\ ~limited => pc = "previous"
      /\ limited <=> first /\ Limit[Org(s)] # Unlimited
      /\ first <=> save[s].company \notin configured
  OBVIOUS
<1> HIDE DEF first, limited, version0, pc
<1>4. /\ r \in SaveRecords /\ r.company = save[s].company
      /\ r.reserved = first /\ r.guard = version0 /\ r.pc = pc
  BY <1>2, SaveTypes DEF SaveRecords
<1> HIDE DEF r
<1> QED BY <1>1, <1>3, <1>4

\* A request gives up no série of its form.
GivesUp(r) == \A a \in Ambientes : r.abandoned[a] > 0 => r.abandoned[a] # r.form[a]

LEMMA ReadPreviousMoves ==
    ASSUME TypeOK, NEW s \in Saves, ReadPrevious(s)
    PROVE  \E r \in SaveRecords :
              /\ Becomes(s, r) /\ r.pc = "claim" /\ r.company = save[s].company
              /\ r.form = save[s].form /\ r.left = Declared(save[s].form)
              /\ r.reserved = save[s].reserved /\ r.guard = save[s].guard /\ GivesUp(r)
<1>1. PICK before \in {serie[save[s].company], Blank} :
         save' = [save EXCEPT ![s] = [@ EXCEPT !.abandoned = Abandoned(before, save[s].form),
                                               !.left = Declared(save[s].form),
                                               !.pc = "claim"]]
  BY DEF ReadPrevious
<1>2. before \in [Ambientes -> Series \cup {0}]
  BY <1>1, BlankTypes, SaveTypes DEF TypeOK
<1>3. PICK abandoned : abandoned = Abandoned(before, save[s].form)
  OBVIOUS
<1>4. /\ abandoned \in [Ambientes -> Series \cup {0}]
      /\ \A a \in Ambientes : abandoned[a] > 0 => abandoned[a] # save[s].form[a]
  BY <1>2, <1>3 DEF Abandoned
<1>5. Declared(save[s].form) \subseteq Ambientes
  BY DEF Declared
<1> DEFINE r == [save[s] EXCEPT !.abandoned = abandoned, !.left = Declared(save[s].form),
                                !.pc = "claim"]
<1>6. Becomes(s, r)
  BY <1>1, <1>3 DEF Becomes, TypeOK
<1>7. /\ r \in SaveRecords /\ r.pc = "claim" /\ r.company = save[s].company
      /\ r.form = save[s].form /\ r.left = Declared(save[s].form)
      /\ r.reserved = save[s].reserved /\ r.guard = save[s].guard
      /\ r.abandoned = abandoned
  BY <1>4, <1>5, SaveTypes DEF SaveRecords, Places
<1> HIDE DEF r
<1> QED BY <1>4, <1>6, <1>7 DEF GivesUp

\* The loop over the séries to claim takes one off.
TakesOff(s, a) == save' = [save EXCEPT ![s].left = @ \ {a}]

LEMMA LeftBecomes ==
    ASSUME TypeOK, NEW s \in Saves, NEW a, TakesOff(s, a)
    PROVE  \E r \in SaveRecords :
              /\ Becomes(s, r) /\ r.pc = save[s].pc /\ r.company = save[s].company
              /\ r.form = save[s].form /\ r.abandoned = save[s].abandoned
              /\ r.reserved = save[s].reserved /\ r.guard = save[s].guard
              /\ r.left = save[s].left \ {a}
<1> DEFINE r == [save[s] EXCEPT !.left = save[s].left \ {a}]
<1>1. save[s].left \ {a} \in SUBSET Ambientes
  BY SaveTypes
<1>2. /\ r \in SaveRecords /\ r.pc = save[s].pc /\ r.company = save[s].company
      /\ r.form = save[s].form /\ r.abandoned = save[s].abandoned
      /\ r.reserved = save[s].reserved /\ r.guard = save[s].guard
      /\ r.left = save[s].left \ {a}
  BY <1>1, SaveTypes DEF SaveRecords
<1>3. Becomes(s, r)
  BY DEF Becomes, TakesOff, TypeOK
<1> QED BY <1>2, <1>3

LEMMA ClaimMoves ==
    ASSUME TypeOK, NEW s \in Saves, Claim(s)
    PROVE  \/ /\ holder' = holder
              /\ \E r \in SaveRecords : Becomes(s, r) /\ r.pc = "idle"
           \/ \E a \in save[s].left, r \in SaveRecords :
                 /\ Claimable(Key(save[s].company, a, save[s].form[a]), save[s].company)
                 /\ holder' = [holder EXCEPT
                        ![Key(save[s].company, a, save[s].form[a])] = save[s].company]
                 /\ Becomes(s, r) /\ r.pc = "claim" /\ r.company = save[s].company
                 /\ r.form = save[s].form /\ r.abandoned = save[s].abandoned
                 /\ r.reserved = save[s].reserved /\ r.guard = save[s].guard
                 /\ r.left = save[s].left \ {a}
<1>1. PICK a : a = First(save[s].left)
  OBVIOUS
<1>2. a \in save[s].left /\ save[s].pc = "claim"
  BY <1>1, SaveTypes, FirstIsLeft DEF Claim
<1>3. CASE Claimable(Key(save[s].company, a, save[s].form[a]), save[s].company)
  <2>1. /\ holder' = [holder EXCEPT
               ![Key(save[s].company, a, save[s].form[a])] = save[s].company]
        /\ TakesOff(s, a)
    BY <1>1, <1>3 DEF Claim, TakesOff
  <2>2. PICK r \in SaveRecords :
           /\ Becomes(s, r) /\ r.pc = "claim" /\ r.company = save[s].company
           /\ r.form = save[s].form /\ r.abandoned = save[s].abandoned
           /\ r.reserved = save[s].reserved /\ r.guard = save[s].guard
           /\ r.left = save[s].left \ {a}
    BY <1>2, <2>1, LeftBecomes
  <2> QED BY <1>2, <1>3, <2>1, <2>2
<1>4. CASE ~Claimable(Key(save[s].company, a, save[s].form[a]), save[s].company)
  BY <1>1, <1>4, EndBecomes DEF Claim
<1> QED BY <1>3, <1>4

LEMMA UpsertMoves ==
    ASSUME TypeOK, NEW s \in Saves, Upsert(s),
           NEW c, c = save[s].company, NEW o, o = Org(s)
    PROVE  /\ save[s].pc = "claim" /\ save[s].left = {} /\ GuardHolds(s)
           /\ c \in Companies /\ o \in Orgs /\ o = OrgOf[c]
           /\ configured' = configured \cup {c}
           /\ serie' = [serie EXCEPT ![c] = save[s].form]
           /\ guard' = IF save[s].reserved /\ Limit[o] # Unlimited
                       THEN [guard EXCEPT ![o] = save[s].guard + 1] ELSE guard
           /\ version' = IF save[s].reserved THEN [version EXCEPT ![o] = version[o] + 1] ELSE version
           /\ dirty' = IF save[s].reserved THEN [dirty EXCEPT ![o] = TRUE] ELSE dirty
           /\ \E r \in SaveRecords :
                 /\ Becomes(s, r) /\ r.pc \in {"flush", "release"} /\ r.company = c
                 /\ r.form = save[s].form /\ r.abandoned = save[s].abandoned
<1>1. /\ c \in Companies /\ o \in Orgs /\ o = OrgOf[c]
  BY SaveTypes DEF Org
<1> DEFINE pc == IF save[s].reserved THEN "flush" ELSE "release"
           r == [save[s] EXCEPT !.pc = pc, !.reserved = FALSE, !.guard = 0]
<1>2. Becomes(s, r)
  BY DEF Upsert, Becomes, TypeOK
<1>3. pc \in {"flush", "release"}
  OBVIOUS
<1> HIDE DEF pc
<1>4. /\ r \in SaveRecords /\ r.pc = pc /\ r.company = c
      /\ r.form = save[s].form /\ r.abandoned = save[s].abandoned
  BY <1>3, SaveTypes DEF SaveRecords, Places
<1> HIDE DEF r
<1>5. \E r1 \in SaveRecords :
         /\ Becomes(s, r1) /\ r1.pc \in {"flush", "release"} /\ r1.company = c
         /\ r1.form = save[s].form /\ r1.abandoned = save[s].abandoned
  BY <1>2, <1>3, <1>4
<1>6. /\ save[s].pc = "claim" /\ save[s].left = {} /\ GuardHolds(s)
      /\ configured' = configured \cup {c}
      /\ serie' = [serie EXCEPT ![c] = save[s].form]
  BY DEF Upsert
<1>7. /\ guard' = IF save[s].reserved /\ Limit[o] # Unlimited
                  THEN [guard EXCEPT ![o] = save[s].guard + 1] ELSE guard
      /\ version' = IF save[s].reserved THEN [version EXCEPT ![o] = version[o] + 1] ELSE version
      /\ dirty' = IF save[s].reserved THEN [dirty EXCEPT ![o] = TRUE] ELSE dirty
  BY DEF Upsert
<1> QED BY <1>1, <1>5, <1>6, <1>7

\* The delete of a claim that request s gives up.
Frees(s, a) ==
    /\ holder' = [holder EXCEPT ![Key(save[s].company, a, save[s].abandoned[a])] =
                     IF @ = save[s].company THEN Nobody ELSE @]
    /\ raced' = IF Overtaken(s) THEN raced \cup {save[s].company} ELSE raced

LEMMA ReleaseMoves ==
    ASSUME TypeOK, NEW s \in Saves, Release(s)
    PROVE  \E a \in Declared(save[s].abandoned), r \in SaveRecords :
              /\ UNCHANGED <<holder, raced>> \/ Frees(s, a)
              /\ Becomes(s, r) /\ r.pc = "release" /\ r.company = save[s].company
              /\ r.form = save[s].form
              /\ \A b \in Ambientes : r.abandoned[b] > 0 => r.abandoned[b] = save[s].abandoned[b]
<1>1. PICK a : a = First(Declared(save[s].abandoned))
  OBVIOUS
<1>2. Declared(save[s].abandoned) \in SUBSET Ambientes
  BY DEF Declared
<1>3. a \in Declared(save[s].abandoned) /\ a \in Ambientes /\ save[s].pc = "release"
  BY <1>1, <1>2, FirstIsLeft DEF Release
<1>4. /\ save' = [save EXCEPT ![s].abandoned[a] = 0]
      /\ UNCHANGED <<holder, raced>> \/ Frees(s, a)
  BY <1>1 DEF Release, Frees
<1>5. PICK abandoned : abandoned = [save[s].abandoned EXCEPT ![a] = 0]
  OBVIOUS
<1>6. /\ abandoned \in [Ambientes -> Series \cup {0}]
      /\ \A b \in Ambientes : abandoned[b] > 0 => abandoned[b] = save[s].abandoned[b]
  BY <1>3, <1>5, SaveTypes
<1> DEFINE r == [save[s] EXCEPT !.abandoned = abandoned]
<1>7. Becomes(s, r)
  BY <1>4, <1>5 DEF Becomes, TypeOK
<1>8. /\ r \in SaveRecords /\ r.pc = "release" /\ r.company = save[s].company
      /\ r.form = save[s].form /\ r.abandoned = abandoned
  BY <1>3, <1>6, SaveTypes DEF SaveRecords
<1> HIDE DEF r
<1> QED BY <1>3, <1>4, <1>6, <1>7, <1>8

-----------------------------------------------------------------------------
(* What an action makes of a delivery *)

\* A delivery that ends; the request of a flush goes on to its releases.
LEMMA AfterFlushMoves ==
    ASSUME TypeOK, NEW f \in Flushers, AfterFlush(f)
    PROVE  /\ Delivers(f, NoFlush)
           /\ \/ save' = save
              \/ /\ f \in Saves
                 /\ \E r \in SaveRecords :
                       /\ Becomes(f, r) /\ r.pc = "release" /\ r.company = save[f].company
                       /\ r.form = save[f].form /\ r.abandoned = save[f].abandoned
<1>1. Delivers(f, NoFlush)
  BY DEF AfterFlush, Delivers
<1>2. CASE f \in Saves
  BY <1>1, <1>2, GotoBecomes DEF AfterFlush, Places
<1>3. CASE f \notin Saves
  BY <1>1, <1>3 DEF AfterFlush
<1> QED BY <1>2, <1>3

LEMMA GetLevelMarkerMoves ==
    ASSUME TypeOK, NEW f \in Flushers, NEW o \in Orgs, GetLevelMarker(f, o)
    PROVE  \E d \in FlushRecords :
              Delivers(f, d) /\ d.pc = "count" /\ d.org = o /\ d.version = version[o]
<1> DEFINE d == [flush[f] EXCEPT !.pc = "count", !.org = o, !.version = version[o]]
<1>1. version[o] \in Nat
  BY DEF TypeOK
<1>2. d \in FlushRecords /\ d.pc = "count" /\ d.org = o /\ d.version = version[o]
  BY <1>1, FlushTypes DEF FlushRecords
<1>3. Delivers(f, d)
  BY DEF GetLevelMarker, Delivers, TypeOK
<1> QED BY <1>2, <1>3

\* What counts of an organization is finite.
LEMMA EnabledIsFinite ==
    ASSUME TypeOK, NEW o
    PROVE  IsFiniteSet(configured) /\ IsFiniteSet(Enabled(o)) /\ Cardinality(Enabled(o)) \in Nat
<1>1. IsFiniteSet(configured)
  BY RegistryAssumption, FS_Subset DEF TypeOK
<1>2. Enabled(o) \subseteq configured
  BY DEF Enabled
<1> QED BY <1>1, <1>2, FS_Subset, FS_CardinalityType

LEMMA CountLevelMoves ==
    ASSUME TypeOK, NEW f \in Flushers, CountLevel(f)
    PROVE  \E d \in FlushRecords :
              /\ Delivers(f, d) /\ d.pc = "report" /\ d.org = flush[f].org
              /\ d.version = flush[f].version
              /\ d.count = Cardinality(Counted(flush[f].org, Included(f)))
<1> DEFINE n == Cardinality(Counted(flush[f].org, Included(f)))
           d == [flush[f] EXCEPT !.pc = "report", !.count = n]
<1>1. Counted(flush[f].org, Included(f)) \subseteq configured
  BY DEF Counted
<1>2. n \in Nat
  BY <1>1, EnabledIsFinite, FS_Subset, FS_CardinalityType
<1>3. Delivers(f, d)
  BY DEF CountLevel, Delivers, TypeOK
<1> HIDE DEF n
<1>4. /\ d \in FlushRecords /\ d.pc = "report" /\ d.org = flush[f].org
      /\ d.version = flush[f].version /\ d.count = n
  BY <1>2, FlushTypes DEF FlushRecords
<1> QED BY <1>3, <1>4 DEF n

LEMMA ReportLevelMoves ==
    ASSUME TypeOK, NEW f \in Flushers, ReportLevel(f)
    PROVE  /\ \E d \in FlushRecords :
                 /\ Delivers(f, d) /\ d.pc = "clear" /\ d.org = flush[f].org
                 /\ d.version = flush[f].version
           /\ \/ /\ recorded' = recorded
                 /\ \E r \in recorded : r[1] = flush[f].org /\ r[2] = flush[f].version
              \/ recorded' = recorded \cup {<<flush[f].org, flush[f].version, flush[f].count>>}
<1> DEFINE d == [flush[f] EXCEPT !.pc = "clear"]
<1>1. Delivers(f, d)
  BY DEF ReportLevel, Delivers, TypeOK
<1>2. /\ d \in FlushRecords /\ d.pc = "clear" /\ d.org = flush[f].org
      /\ d.version = flush[f].version
  BY FlushTypes DEF FlushRecords
<1>3. \/ /\ recorded' = recorded
         /\ \E r \in recorded : r[1] = flush[f].org /\ r[2] = flush[f].version
      \/ recorded' = recorded \cup {<<flush[f].org, flush[f].version, flush[f].count>>}
  BY DEF ReportLevel
<1> QED BY <1>1, <1>2, <1>3

-----------------------------------------------------------------------------
(* Types *)

LEMMA InitialTypes == Init => TypeOK
<1> SUFFICES ASSUME Init PROVE TypeOK
  OBVIOUS
<1>1. AtRest \in SaveRecords
  BY AtRestTypes
<1>2. /\ configured \subseteq Companies
      /\ serie \in [Companies -> [Ambientes -> Series \cup {0}]]
  BY BlankTypes, BeforeAssumption DEF Init
<1>3. holder \in [Keys -> Companies \cup {Nobody}]
  <2>1. ASSUME NEW k \in Keys, \E c \in DOMAIN Before : Declares(c, k)
        PROVE  (CHOOSE c \in DOMAIN Before : Declares(c, k)) \in Companies
    BY <2>1, BeforeAssumption
  <2> QED BY <2>1 DEF Init
<1> QED BY <1>1, <1>2, <1>3, NoFlushTypes, RegistryAssumption DEF Init, TypeOK

\* What a step of a request must do to keep the types.
LEMMA SaveTypesKept ==
    ASSUME TypeOK, NEW s \in Saves, NEW r \in SaveRecords, Becomes(s, r),
           flush' = flush \/ Delivers(s, NoFlush),
           configured' \subseteq Companies,
           serie' \in [Companies -> [Ambientes -> Series \cup {0}]],
           holder' \in [Keys -> Companies \cup {Nobody}],
           guard' \in [Orgs -> Nat], version' \in [Orgs -> Nat],
           dirty' \in [Orgs -> BOOLEAN], UNCHANGED <<recorded, indexed>>,
           raced' \subseteq Companies, puts' \in 0..MaxPuts
    PROVE  TypeOK'
<1>1. save' \in [Saves -> SaveRecords]
  BY SaveBecomes
<1>2. s \in Flushers
  BY DEF Flushers
<1>3. flush' \in [Flushers -> FlushRecords]
  <2>1. CASE flush' = flush
    BY <2>1 DEF TypeOK
  <2>2. CASE Delivers(s, NoFlush)
    BY <1>2, <2>2, FlushDelivers, NoFlushTypes
  <2> QED BY <2>1, <2>2
<1> QED BY <1>1, <1>3 DEF TypeOK

LEMMA RequestTypesKept ==
    ASSUME TypeOK, NEW s \in Saves, SaveStep(s)
    PROVE  TypeOK'
<1>1. ASSUME NEW c \in Companies, NEW form \in Forms[c], StartSave(s, c, form) PROVE TypeOK'
  <2>1. /\ UNCHANGED <<configured, serie, holder, guard, version, dirty, recorded, indexed,
                       flush, raced>>
        /\ puts < MaxPuts /\ puts' = puts + 1
    BY <1>1 DEF StartSave
  <2>2. puts' \in 0..MaxPuts
    BY <2>1, RegistryAssumption DEF TypeOK
  <2> QED BY <1>1, <2>1, <2>2, StartSaveMoves, SaveTypesKept DEF TypeOK
<1>2. CASE ReserveCompany(s)
  <2>1. UNCHANGED <<configured, serie, holder, guard, version, dirty, recorded, indexed, flush, raced, puts>>
    BY <1>2 DEF ReserveCompany
  <2> QED BY <1>2, <2>1, ReserveCompanyMoves, SaveTypesKept DEF TypeOK
<1>3. CASE CompaniesUsed(s) \/ UpsertConflict(s) \/ Answer(s)
  <2>1. /\ UNCHANGED <<configured, serie, holder, guard, version, dirty, recorded, indexed, flush, raced, puts>>
        /\ Goto(s, "previous") \/ End(s)
    BY <1>3 DEF CompaniesUsed, UpsertConflict, Answer
  <2>2. "previous" \in Places
    BY DEF Places
  <2>3. PICK r \in SaveRecords : Becomes(s, r)
    BY <2>1, <2>2, GotoBecomes, EndBecomes
  <2> QED BY <2>1, <2>3, SaveTypesKept DEF TypeOK
<1>4. CASE ReadPrevious(s)
  <2>1. UNCHANGED <<configured, serie, holder, guard, version, dirty, recorded, indexed, flush, raced, puts>>
    BY <1>4 DEF ReadPrevious
  <2> QED BY <1>4, <2>1, ReadPreviousMoves, SaveTypesKept DEF TypeOK
<1>5. CASE Claim(s)
  <2>1. UNCHANGED <<configured, serie, guard, version, dirty, recorded, indexed, flush, raced, puts>>
    BY <1>5 DEF Claim
  <2>2. \A k : [holder EXCEPT ![k] = save[s].company] \in [Keys -> Companies \cup {Nobody}]
    BY SaveTypes DEF TypeOK
  <2>3. holder' \in [Keys -> Companies \cup {Nobody}]
    BY <1>5, <2>2, ClaimMoves DEF TypeOK
  <2>4. PICK r \in SaveRecords : Becomes(s, r)
    BY <1>5, ClaimMoves
  <2> QED BY <2>1, <2>3, <2>4, SaveTypesKept DEF TypeOK
<1>6. CASE Upsert(s)
  <2>1. PICK c, o : c = save[s].company /\ o = Org(s)
    OBVIOUS
  <2>2. UNCHANGED <<holder, recorded, indexed, flush, raced, puts>>
    BY <1>6 DEF Upsert
  <2>3. configured' \subseteq Companies
    BY <1>6, <2>1, UpsertMoves DEF TypeOK
  <2>4. serie' \in [Companies -> [Ambientes -> Series \cup {0}]]
    BY <1>6, <2>1, UpsertMoves, SaveTypes DEF TypeOK
  <2>5. save[s].guard + 1 \in Nat /\ version[o] + 1 \in Nat
    BY <2>1, SaveTypes DEF TypeOK
  <2>6. guard' \in [Orgs -> Nat]
    BY <1>6, <2>1, <2>5, UpsertMoves DEF TypeOK
  <2>7. version' \in [Orgs -> Nat] /\ dirty' \in [Orgs -> BOOLEAN]
    <3>1. /\ version' = IF save[s].reserved THEN [version EXCEPT ![o] = version[o] + 1] ELSE version
          /\ dirty' = IF save[s].reserved THEN [dirty EXCEPT ![o] = TRUE] ELSE dirty
      BY <1>6, <2>1, UpsertMoves
    <3> QED BY <2>5, <3>1 DEF TypeOK
  <2>8. PICK r \in SaveRecords : Becomes(s, r)
    BY <1>6, <2>1, UpsertMoves
  <2>9. /\ holder' \in [Keys -> Companies \cup {Nobody}]
        /\ raced' \subseteq Companies /\ puts' \in 0..MaxPuts
    BY <2>2 DEF TypeOK
  <2> QED BY <2>2, <2>3, <2>4, <2>6, <2>7, <2>8, <2>9, SaveTypesKept
<1>7. CASE NothingDirty(s)
  <2>1. /\ UNCHANGED <<configured, serie, holder, guard, version, dirty, recorded, indexed, raced, puts>>
        /\ Goto(s, "release") /\ Delivers(s, NoFlush)
    BY <1>7 DEF NothingDirty, AfterFlush, Delivers
  <2>2. "release" \in Places
    BY DEF Places
  <2>3. PICK r \in SaveRecords : Becomes(s, r)
    BY <2>1, <2>2, GotoBecomes
  <2> QED BY <2>1, <2>3, SaveTypesKept DEF TypeOK
<1>8. CASE Release(s)
  <2>1. UNCHANGED <<configured, serie, guard, version, dirty, recorded, indexed, flush, puts>>
    BY <1>8 DEF Release
  <2>2. \A k : [holder EXCEPT ![k] = IF @ = save[s].company THEN Nobody ELSE @]
                  \in [Keys -> Companies \cup {Nobody}]
    BY DEF TypeOK
  <2>3. holder' \in [Keys -> Companies \cup {Nobody}] /\ raced' \subseteq Companies
    BY <1>8, <2>2, ReleaseMoves, SaveTypes DEF Frees, TypeOK
  <2>4. PICK r \in SaveRecords : Becomes(s, r)
    BY <1>8, ReleaseMoves
  <2> QED BY <2>1, <2>3, <2>4, SaveTypesKept DEF TypeOK
<1>9. CASE Stop(s)
  <2>1. /\ UNCHANGED <<configured, serie, holder, guard, version, dirty, recorded, indexed, raced, puts>>
        /\ End(s) /\ Delivers(s, NoFlush)
    BY <1>9 DEF Stop, Delivers
  <2>2. PICK r \in SaveRecords : Becomes(s, r)
    BY <2>1, EndBecomes
  <2> QED BY <2>1, <2>2, SaveTypesKept DEF TypeOK
<1> QED BY <1>1, <1>2, <1>3, <1>4, <1>5, <1>6, <1>7, <1>8, <1>9 DEF SaveStep

LEMMA DeliveryTypesKept ==
    ASSUME TypeOK, NEW f \in Flushers, FlushStep(f)
    PROVE  TypeOK'
<1>1. CASE (\E o \in Orgs : GetLevelMarker(f, o)) \/ CountLevel(f)
  <2>1. UNCHANGED <<configured, serie, holder, guard, version, dirty, recorded, indexed, save, raced, puts>>
    BY <1>1 DEF GetLevelMarker, CountLevel
  <2>2. PICK d \in FlushRecords : Delivers(f, d)
    BY <1>1, GetLevelMarkerMoves, CountLevelMoves
  <2> QED BY <2>1, <2>2, FlushDelivers DEF TypeOK
<1>2. CASE ReportLevel(f)
  <2>1. UNCHANGED <<configured, serie, holder, guard, version, dirty, indexed, save, raced, puts>>
    BY <1>2 DEF ReportLevel
  <2>2. <<flush[f].org, flush[f].version, flush[f].count>> \in Orgs \X Nat \X Nat
    BY FlushTypes
  <2>3. recorded' \subseteq Orgs \X Nat \X Nat
    BY <1>2, <2>2, ReportLevelMoves DEF TypeOK
  <2>4. PICK d \in FlushRecords : Delivers(f, d)
    BY <1>2, ReportLevelMoves
  <2> QED BY <2>1, <2>3, <2>4, FlushDelivers DEF TypeOK
<1>3. CASE ClearLevelDirty(f) \/ FlushFails(f)
  <2>1. /\ UNCHANGED <<configured, serie, holder, guard, version, recorded, indexed, raced, puts>>
        /\ AfterFlush(f)
    BY <1>3 DEF ClearLevelDirty, FlushFails
  <2>2. dirty' \in [Orgs -> BOOLEAN]
    BY <1>3 DEF ClearLevelDirty, FlushFails, TypeOK
  <2>3. save' = save \/ (f \in Saves /\ \E r \in SaveRecords : Becomes(f, r))
    BY <2>1, AfterFlushMoves
  <2>5. save' \in [Saves -> SaveRecords]
    BY <2>3, SaveBecomes DEF TypeOK
  <2>4. flush' \in [Flushers -> FlushRecords]
    BY <2>1, AfterFlushMoves, NoFlushTypes, FlushDelivers
  <2> QED BY <2>1, <2>2, <2>4, <2>5 DEF TypeOK
<1> QED BY <1>1, <1>2, <1>3 DEF FlushStep

LEMMA TypesKept == TypeOK /\ [Next]_vars => TypeOK'
<1> SUFFICES ASSUME TypeOK, [Next]_vars PROVE TypeOK'
  OBVIOUS
<1>1. ASSUME NEW o \in Orgs, MarkCompaniesLevel(o) PROVE TypeOK'
  BY <1>1 DEF MarkCompaniesLevel, TypeOK
<1>2. ASSUME NEW c \in Companies, IndexCatchesUp(c) PROVE TypeOK'
  BY <1>2 DEF IndexCatchesUp, TypeOK
<1>3. CASE UNCHANGED vars
  BY <1>3 DEF vars, TypeOK
<1> QED BY <1>1, <1>2, <1>3, RequestTypesKept, DeliveryTypesKept DEF Next

\* Every reachable state is well typed: no version, level or claim is ever of
\* something the registry does not know.
THEOREM TypeCorrect == Spec => []TypeOK
<1>1. Init => TypeOK
  BY InitialTypes
<1>2. TypeOK /\ [Next]_vars => TypeOK'
  BY TypesKept
<1> QED BY <1>1, <1>2, PTL DEF Spec

-----------------------------------------------------------------------------
(* The company quota *)

\* What a request knows of the quota between its reservation and its write: a
\* company it did not reserve is configured; a guard row that has not moved
\* since it was read means that the count still leaves room.
ReservedOf(r) ==
    r.pc \in {"count", "previous", "claim"} =>
       /\ r.reserved \/ r.company \in configured
       /\ r.reserved /\ Limit[OrgOf[r.company]] # Unlimited =>
             /\ r.guard <= guard[OrgOf[r.company]]
             /\ /\ r.pc # "count" /\ Visible(OrgOf[r.company])
                /\ r.guard = guard[OrgOf[r.company]]
                => Cardinality(Enabled(OrgOf[r.company])) < Limit[OrgOf[r.company]]

QuotaInv ==
    /\ Companies \ Late \subseteq indexed
    /\ \A s \in Saves : ReservedOf(save[s])
    /\ EnabledWithinLimit

\* An organization the index shows whole is counted whole.
LEMMA CountIsComplete ==
    ASSUME QuotaInv, TypeOK, NEW o, NEW include, Visible(o)
    PROVE  Counted(o, include) = Enabled(o)
BY DEF QuotaInv, TypeOK, Counted, Enabled, Visible

LEMMA QuotaStays ==
    ASSUME TypeOK, QuotaInv, UNCHANGED <<configured, guard>>, indexed \subseteq indexed',
           \/ save' = save
           \/ \E s \in Saves, r \in SaveRecords : Becomes(s, r) /\ ReservedOf(r)
    PROVE  QuotaInv'
<1>1. \A s \in Saves : ReservedOf(save'[s])
  BY SaveBecomes DEF QuotaInv
<1>2. \A r : ReservedOf(r) => ReservedOf(r)'
  BY DEF ReservedOf, Enabled, Visible
<1>3. \A s \in Saves : ReservedOf(save[s])'
  BY <1>1 DEF ReservedOf, Enabled, Visible
<1>4. EnabledWithinLimit'
  BY DEF QuotaInv, EnabledWithinLimit, Enabled, Visible
<1> QED BY <1>3, <1>4 DEF QuotaInv

\* Nothing is known of a request outside those places.
LEMMA NothingReserved ==
    ASSUME NEW r, r.pc \notin {"count", "previous", "claim"}
    PROVE  ReservedOf(r)
BY DEF ReservedOf

LEMMA UpsertKeepsQuota ==
    ASSUME TypeOK, QuotaInv, NEW s \in Saves, Upsert(s)
    PROVE  QuotaInv'
<1>1. PICK c, o : c = save[s].company /\ o = Org(s)
  OBVIOUS
<1>7. indexed' = indexed
  BY DEF Upsert
<1>2. /\ c \in Companies /\ o \in Orgs /\ o = OrgOf[c]
      /\ save[s].pc = "claim" /\ GuardHolds(s)
      /\ configured' = configured \cup {c}
      /\ guard' = IF save[s].reserved /\ Limit[o] # Unlimited
                  THEN [guard EXCEPT ![o] = save[s].guard + 1] ELSE guard
  BY <1>1, UpsertMoves
<1>3. PICK r \in SaveRecords : Becomes(s, r) /\ r.pc \in {"flush", "release"}
  BY <1>1, UpsertMoves
<1>4. /\ save[s].reserved \/ c \in configured
      /\ /\ save[s].reserved /\ Limit[o] # Unlimited /\ Visible(o)
         /\ save[s].guard = guard[o]
         => Cardinality(Enabled(o)) < Limit[o]
  BY <1>1, <1>2 DEF QuotaInv, ReservedOf
<1>5. CASE ~save[s].reserved
  <2>1. configured' = configured /\ guard' = guard
    BY <1>2, <1>4, <1>5
  <2> QED BY <1>3, <1>7, <2>1, NothingReserved, QuotaStays
<1>6. CASE save[s].reserved
  <2>1. save[s].guard \in Nat /\ \A x \in Orgs : guard[x] \in Nat
    BY SaveTypes DEF TypeOK
  <2>2. Limit[o] # Unlimited => guard[o] = save[s].guard /\ guard'[o] = guard[o] + 1
    BY <1>1, <1>2, <1>6 DEF GuardHolds, TypeOK
  <2>3. \A x \in Orgs : x # o => guard'[x] = guard[x] /\ Enabled(x)' = Enabled(x)
    <3>1. \A x \in Orgs : x # o => guard'[x] = guard[x]
      BY <1>2 DEF TypeOK
    <3>2. \A x \in Orgs : x # o => Enabled(x)' = Enabled(x)
      BY <1>2 DEF Enabled
    <3> QED BY <3>1, <3>2
  <2>4. Enabled(o)' = Enabled(o) \cup {c}
    BY <1>2 DEF Enabled
  <2>5. ASSUME NEW t \in Saves PROVE ReservedOf(save[t])'
    <3>1. CASE t = s
      <4>1. save'[t].pc \in {"flush", "release"}
        BY <1>3, <3>1, SaveBecomes
      <4> QED BY <4>1 DEF ReservedOf
    <3>2. CASE t # s
      <4>1. save'[t] = save[t] /\ ReservedOf(save[t])
        BY <1>3, <3>2, SaveBecomes DEF QuotaInv
      <4>2. PICK x \in Orgs : x = OrgOf[save[t].company]
        BY SaveTypes, RegistryAssumption
      <4>3. CASE x # o
        BY <1>2, <2>3, <4>1, <4>2, <4>3 DEF ReservedOf, Visible
      <4>4. CASE x = o
        <5>1. Limit[x] # Unlimited => guard'[x] = guard[x] + 1
          BY <2>2, <4>4
        <5>2. guard[x] \in Nat /\ save[t].guard \in Nat
          BY <2>1, SaveTypes
        <5> QED BY <1>2, <4>1, <4>2, <5>1, <5>2 DEF ReservedOf, Visible
      <4> QED BY <4>3, <4>4
    <3> QED BY <3>1, <3>2
  <2>6. ASSUME NEW x \in Orgs, Visible(x), Limit[x] # Unlimited
        PROVE  Cardinality(Enabled(x)') <= Limit[x]
    <3>1. CASE x # o
      BY <2>3, <2>6, <3>1 DEF QuotaInv, EnabledWithinLimit
    <3>2. CASE x = o
      <4>1. Cardinality(Enabled(o)) < Limit[o]
        BY <1>4, <1>6, <2>2, <2>6, <3>2
      <4>2. /\ IsFiniteSet(Enabled(o)) /\ Cardinality(Enabled(o)) \in Nat /\ Limit[o] \in Nat
        BY <2>6, <3>2, EnabledIsFinite, RegistryAssumption
      <4>3. PICK S, n, m : S = Enabled(o) /\ n = Cardinality(S) /\ m = Cardinality(S \cup {c})
        OBVIOUS
      <4>4. m = n \/ m = n + 1
        BY <4>2, <4>3, FS_AddElement
      <4>5. n \in Nat /\ n < Limit[o]
        BY <4>1, <4>2, <4>3
      <4>6. m <= Limit[o]
        BY <4>2, <4>4, <4>5
      <4> QED BY <2>4, <3>2, <4>3, <4>6
    <3> QED BY <3>1, <3>2
  <2>7. EnabledWithinLimit'
    BY <2>6 DEF EnabledWithinLimit, Visible
  <2> QED BY <1>7, <2>5, <2>7 DEF QuotaInv
<1> QED BY <1>5, <1>6

LEMMA QuotaKept == TypeOK /\ QuotaInv /\ [Next]_vars => QuotaInv'
<1> SUFFICES ASSUME TypeOK, QuotaInv, [Next]_vars PROVE QuotaInv'
  OBVIOUS
<1>1. ASSUME NEW s \in Saves, SaveStep(s) PROVE QuotaInv'
  <2>1. ASSUME NEW c \in Companies, NEW form \in Forms[c], StartSave(s, c, form) PROVE QuotaInv'
    <3>1. UNCHANGED <<configured, guard, indexed>>
      BY <2>1 DEF StartSave
    <3>2. PICK r \in SaveRecords : Becomes(s, r) /\ ReservedOf(r)
      BY <2>1, StartSaveMoves, NothingReserved
    <3> QED BY <3>1, <3>2, QuotaStays
  <2>2. CASE ReserveCompany(s)
    <3>1. UNCHANGED <<configured, guard, indexed>>
      BY <2>2 DEF ReserveCompany
    <3>2. PICK r \in SaveRecords :
             /\ Becomes(s, r) /\ r.company = save[s].company
             /\ r.reserved <=> save[s].company \notin configured
             /\ r.reserved /\ Limit[Org(s)] # Unlimited => r.pc = "count" /\ r.guard = guard[Org(s)]
             /\ ~(r.reserved /\ Limit[Org(s)] # Unlimited) => r.pc = "previous"
      BY <2>2, ReserveCompanyMoves
    <3>3. Org(s) = OrgOf[r.company] /\ guard[Org(s)] \in Nat
      BY <3>2, SaveTypes DEF Org, TypeOK
    <3>4. ReservedOf(r)
      BY <3>2, <3>3 DEF ReservedOf
    <3> QED BY <3>1, <3>2, <3>4, QuotaStays
  <2>3. CASE CompaniesUsed(s)
    <3>1. UNCHANGED <<configured, guard, indexed>> /\ save[s].pc = "count"
      BY <2>3 DEF CompaniesUsed
    <3>2. CASE Cardinality(Counted(Org(s), {})) < Limit[Org(s)]
      <4>1. Goto(s, "previous") /\ "previous" \in Places
        BY <2>3, <3>2 DEF CompaniesUsed, Places
      <4>2. PICK r \in SaveRecords :
               /\ Becomes(s, r) /\ r.pc = "previous" /\ r.company = save[s].company
               /\ r.reserved = save[s].reserved /\ r.guard = save[s].guard
        BY <4>1, GotoBecomes
      <4>3. Visible(Org(s)) => Cardinality(Enabled(Org(s))) < Limit[Org(s)]
        BY <3>2, CountIsComplete
      <4>4. ReservedOf(r)
        BY <3>1, <4>2, <4>3 DEF QuotaInv, ReservedOf, Org
      <4> QED BY <3>1, <4>2, <4>4, QuotaStays
    <3>3. CASE ~(Cardinality(Counted(Org(s), {})) < Limit[Org(s)])
      <4>1. PICK r \in SaveRecords : Becomes(s, r) /\ ReservedOf(r)
        BY <2>3, <3>3, EndBecomes, NothingReserved DEF CompaniesUsed
      <4> QED BY <3>1, <4>1, QuotaStays
    <3> QED BY <3>2, <3>3
  <2>4. CASE ReadPrevious(s)
    <3>1. UNCHANGED <<configured, guard, indexed>> /\ save[s].pc = "previous"
      BY <2>4 DEF ReadPrevious
    <3>2. PICK r \in SaveRecords :
             /\ Becomes(s, r) /\ r.pc = "claim" /\ r.company = save[s].company
             /\ r.reserved = save[s].reserved /\ r.guard = save[s].guard
      BY <2>4, ReadPreviousMoves
    <3>3. ReservedOf(r)
      BY <3>1, <3>2 DEF QuotaInv, ReservedOf
    <3> QED BY <3>1, <3>2, <3>3, QuotaStays
  <2>5. CASE Claim(s)
    <3>1. UNCHANGED <<configured, guard, indexed>> /\ save[s].pc = "claim"
      BY <2>5 DEF Claim
    <3>2. PICK r \in SaveRecords :
             /\ Becomes(s, r)
             /\ \/ r.pc = "idle"
                \/ /\ r.pc = "claim" /\ r.company = save[s].company
                   /\ r.reserved = save[s].reserved /\ r.guard = save[s].guard
      BY <2>5, ClaimMoves
    <3>3. ReservedOf(r)
      BY <3>1, <3>2 DEF QuotaInv, ReservedOf
    <3> QED BY <3>1, <3>2, <3>3, QuotaStays
  <2>6. CASE UpsertConflict(s) \/ Answer(s) \/ Stop(s)
    <3>1. UNCHANGED <<configured, guard, indexed>>
      BY <2>6 DEF UpsertConflict, Answer, Stop
    <3>2. PICK r \in SaveRecords : Becomes(s, r) /\ ReservedOf(r)
      BY <2>6, EndBecomes, NothingReserved DEF UpsertConflict, Answer, Stop
    <3> QED BY <3>1, <3>2, QuotaStays
  <2>7. CASE NothingDirty(s)
    <3>1. UNCHANGED <<configured, guard, indexed>> /\ Goto(s, "release") /\ "release" \in Places
      BY <2>7 DEF NothingDirty, AfterFlush, Places
    <3>2. PICK r \in SaveRecords : Becomes(s, r) /\ ReservedOf(r)
      BY <3>1, GotoBecomes, NothingReserved
    <3> QED BY <3>1, <3>2, QuotaStays
  <2>8. CASE Release(s)
    <3>1. UNCHANGED <<configured, guard, indexed>>
      BY <2>8 DEF Release
    <3>2. PICK r \in SaveRecords : Becomes(s, r) /\ ReservedOf(r)
      BY <2>8, ReleaseMoves, NothingReserved
    <3> QED BY <3>1, <3>2, QuotaStays
  <2> QED BY <1>1, <2>1, <2>2, <2>3, <2>4, <2>5, <2>6, <2>7, <2>8, UpsertKeepsQuota DEF SaveStep
<1>2. ASSUME NEW f \in Flushers, FlushStep(f) PROVE QuotaInv'
  <2>1. UNCHANGED <<configured, guard, indexed>>
    BY <1>2 DEF FlushStep, GetLevelMarker, CountLevel, ReportLevel, ClearLevelDirty, FlushFails
  <2>2. save' = save \/ AfterFlush(f)
    BY <1>2 DEF FlushStep, GetLevelMarker, CountLevel, ReportLevel, ClearLevelDirty, FlushFails
  <2>3. \/ save' = save
        \/ \E s \in Saves, r \in SaveRecords : Becomes(s, r) /\ r.pc = "release"
    BY <2>2, AfterFlushMoves
  <2> QED BY <2>1, <2>3, NothingReserved, QuotaStays
<1>3. ASSUME NEW o \in Orgs, MarkCompaniesLevel(o) PROVE QuotaInv'
  BY <1>3, QuotaStays DEF MarkCompaniesLevel
<1>4. ASSUME NEW c \in Companies, IndexCatchesUp(c) PROVE QuotaInv'
  BY <1>4, QuotaStays DEF IndexCatchesUp
<1>5. CASE UNCHANGED vars
  BY <1>5, QuotaStays DEF vars
<1> QED BY <1>1, <1>2, <1>3, <1>4, <1>5 DEF Next

LEMMA InitialQuota == Init => QuotaInv
<1> SUFFICES ASSUME Init PROVE QuotaInv
  OBVIOUS
<1>1. \A s \in Saves : save[s].pc = "idle"
  BY AtRestTypes DEF Init
<1>2. \A s \in Saves : ReservedOf(save[s])
  BY <1>1, NothingReserved
<1>3. \A o : Enabled(o) = {c \in DOMAIN Before : OrgOf[c] = o}
  BY DEF Init, Enabled
<1>4. EnabledWithinLimit
  BY <1>3, BeforeAssumption DEF EnabledWithinLimit
<1> QED BY <1>2, <1>4 DEF QuotaInv, Init

\* However many first configurations race, a plan never enables more companies
\* than it has: each is written only if the guard row has not moved since its
\* count.
THEOREM EnabledWithinLimitHolds == Spec => []EnabledWithinLimit
<1>1. Init => TypeOK /\ QuotaInv
  BY InitialTypes, InitialQuota
<1>2. (TypeOK /\ QuotaInv) /\ [Next]_vars => (TypeOK /\ QuotaInv)'
  BY TypesKept, QuotaKept
<1>3. QuotaInv => EnabledWithinLimit
  BY DEF QuotaInv
<1> QED BY <1>1, <1>2, <1>3, PTL DEF Spec

-----------------------------------------------------------------------------
(* The level marker *)

\* What billing recorded under the current version is the current number.
RecordsRight ==
    \A r \in recorded :
       /\ r[2] <= version[r[1]]
       /\ Visible(r[1]) /\ r[2] = version[r[1]] => r[3] = Cardinality(Enabled(r[1]))

\* A delivery of the current version counted the current number, and when it
\* goes to clear the marker billing has it.
DeliveryOf(d) ==
    d.pc # "idle" =>
       /\ d.version <= version[d.org]
       /\ Visible(d.org) /\ d.version = version[d.org] =>
             /\ d.pc = "report" => d.count = Cardinality(Enabled(d.org))
             /\ d.pc = "clear" => <<d.org, d.version, Cardinality(Enabled(d.org))>> \in recorded

LevelInv ==
    /\ RecordsRight /\ LevelRecorded
    /\ \A f \in Flushers : DeliveryOf(flush[f])

LEMMA IdleDelivery == DeliveryOf(NoFlush)
BY NoFlushTypes DEF DeliveryOf

LEMMA RecordTypes ==
    ASSUME TypeOK, NEW r \in recorded
    PROVE  r[1] \in Orgs /\ r[2] \in Nat
BY DEF TypeOK

\* Nothing moves but deliveries, one of which may have cleared the marker.
LEMMA LevelStays ==
    ASSUME TypeOK, LevelInv, UNCHANGED <<configured, version, dirty, recorded>>,
           \/ flush' = flush
           \/ \E f \in Flushers, d \in FlushRecords : Delivers(f, d) /\ DeliveryOf(d)
    PROVE  LevelInv'
<1>1. \A f \in Flushers : DeliveryOf(flush'[f])
  BY FlushDelivers DEF LevelInv
<1>2. \A f \in Flushers : DeliveryOf(flush[f])'
  BY <1>1 DEF DeliveryOf, Enabled, Visible
<1>3. RecordsRight' /\ LevelRecorded'
  BY DEF LevelInv, RecordsRight, LevelRecorded, Enabled, Visible
<1> QED BY <1>2, <1>3 DEF LevelInv

\* The marker of an organization moves: what was recorded or was being
\* delivered of it is of an older version, and the marker is dirty.
LEMMA MarkerMoves ==
    ASSUME TypeOK, LevelInv, NEW o \in Orgs, recorded' = recorded, flush' = flush,
           version' = [version EXCEPT ![o] = version[o] + 1],
           dirty' = [dirty EXCEPT ![o] = TRUE],
           \A x \in Orgs : x # o => Enabled(x)' = Enabled(x)
    PROVE  LevelInv'
<1>1. /\ version'[o] = version[o] + 1 /\ version[o] \in Nat /\ dirty'[o]
      /\ \A x \in Orgs : x # o => version'[x] = version[x] /\ dirty'[x] = dirty[x]
  BY DEF TypeOK
<1>2. RecordsRight'
  <2> SUFFICES ASSUME NEW r \in recorded
               PROVE  /\ r[2] <= version'[r[1]]
                      /\ Visible(r[1]) /\ r[2] = version'[r[1]]
                         => r[3] = Cardinality(Enabled(r[1])')
    BY DEF RecordsRight, Visible, Enabled
  <2>1. PICK x \in Orgs, v \in Nat : x = r[1] /\ v = r[2]
    BY RecordTypes
  <2>2. /\ v <= version[x] /\ version[x] \in Nat
        /\ Visible(x) /\ v = version[x] => r[3] = Cardinality(Enabled(x))
    BY <2>1 DEF LevelInv, RecordsRight, TypeOK
  <2>3. CASE x = o
    BY <1>1, <2>1, <2>2, <2>3
  <2>4. CASE x # o
    BY <1>1, <2>1, <2>2, <2>4
  <2> QED BY <2>3, <2>4
<1>3. LevelRecorded'
  <2> SUFFICES ASSUME NEW x \in Orgs, Visible(x), version'[x] > 0, ~dirty'[x]
               PROVE  <<x, version'[x], Cardinality(Enabled(x)')>> \in recorded
    BY DEF LevelRecorded, Visible
  <2>1. x # o
    BY <1>1
  <2> QED BY <1>1, <2>1 DEF LevelInv, LevelRecorded
<1>4. ASSUME NEW f \in Flushers PROVE DeliveryOf(flush[f])'
  <2>1. PICK d \in FlushRecords : d = flush[f] /\ flush'[f] = d /\ DeliveryOf(d)
    BY FlushTypes DEF LevelInv
  <2>2. PICK x \in Orgs, v \in Nat : x = d.org /\ v = d.version
    BY DEF FlushRecords
  <2>3. CASE x = o
    <3>1. d.pc # "idle" => v < version'[x]
      BY <1>1, <2>1, <2>2, <2>3 DEF DeliveryOf
    <3>2. v < version'[x] => v <= version'[x] /\ v # version'[x]
      BY <1>1, <2>2, <2>3
    <3> QED BY <2>1, <2>2, <3>1, <3>2 DEF DeliveryOf
  <2>4. CASE x # o
    BY <1>1, <2>1, <2>2, <2>4 DEF DeliveryOf, Visible
  <2> QED BY <2>3, <2>4
<1> QED BY <1>2, <1>3, <1>4 DEF LevelInv

LEMMA UpsertKeepsLevel ==
    ASSUME TypeOK, QuotaInv, LevelInv, NEW s \in Saves, Upsert(s)
    PROVE  LevelInv'
<1>1. PICK c, o : c = save[s].company /\ o = Org(s)
  OBVIOUS
<1>2. UNCHANGED <<recorded, flush>>
  BY DEF Upsert
<1>3. /\ c \in Companies /\ o \in Orgs /\ o = OrgOf[c] /\ save[s].pc = "claim"
      /\ configured' = configured \cup {c}
      /\ version' = IF save[s].reserved THEN [version EXCEPT ![o] = version[o] + 1] ELSE version
      /\ dirty' = IF save[s].reserved THEN [dirty EXCEPT ![o] = TRUE] ELSE dirty
  BY <1>1, UpsertMoves
<1>4. CASE ~save[s].reserved
  <2>1. c \in configured
    BY <1>1, <1>3, <1>4 DEF QuotaInv, ReservedOf
  <2> QED BY <1>2, <1>3, <1>4, <2>1, LevelStays
<1>5. CASE save[s].reserved
  <2>1. \A x \in Orgs : x # o => Enabled(x)' = Enabled(x)
    BY <1>3 DEF Enabled
  <2> QED BY <1>2, <1>3, <1>5, <2>1, MarkerMoves
<1> QED BY <1>4, <1>5

\* A report is recorded, or billing already has one under its version.
LEMMA ReportKeepsLevel ==
    ASSUME TypeOK, LevelInv, NEW f \in Flushers, ReportLevel(f)
    PROVE  LevelInv'
<1>1. UNCHANGED <<configured, version, dirty>> /\ flush[f].pc = "report"
  BY DEF ReportLevel
<1>2. PICK o \in Orgs, v \in Nat, n \in Nat :
         o = flush[f].org /\ v = flush[f].version /\ n = flush[f].count
  BY FlushTypes
<1>3. /\ v <= version[o]
      /\ Visible(o) /\ v = version[o] => n = Cardinality(Enabled(o))
  BY <1>1, <1>2 DEF LevelInv, DeliveryOf
<1>4. PICK d \in FlushRecords :
         Delivers(f, d) /\ d.pc = "clear" /\ d.org = o /\ d.version = v
  BY <1>2, ReportLevelMoves
<1>5. /\ recorded \subseteq recorded'
      /\ \A r \in recorded' : r \in recorded \/ r = <<o, v, n>>
      /\ \/ <<o, v, n>> \in recorded'
         \/ \E r \in recorded : r[1] = o /\ r[2] = v
  BY <1>2, ReportLevelMoves
<1>6. RecordsRight'
  <2> SUFFICES ASSUME NEW r \in recorded'
               PROVE  /\ r[2] <= version[r[1]]
                      /\ Visible(r[1]) /\ r[2] = version[r[1]]
                         => r[3] = Cardinality(Enabled(r[1]))
    BY <1>1 DEF RecordsRight, Visible, Enabled
  <2>1. CASE r \in recorded
    BY <2>1 DEF LevelInv, RecordsRight
  <2>2. CASE r = <<o, v, n>>
    BY <1>3, <2>2
  <2> QED BY <1>5, <2>1, <2>2
<1>7. Visible(o) /\ v = version[o] => <<o, v, Cardinality(Enabled(o))>> \in recorded'
  <2> SUFFICES ASSUME Visible(o), v = version[o]
               PROVE  <<o, v, Cardinality(Enabled(o))>> \in recorded'
    OBVIOUS
  <2>1. CASE <<o, v, n>> \in recorded'
    BY <1>3, <2>1
  <2>2. ASSUME NEW r \in recorded, r[1] = o, r[2] = v
        PROVE  <<o, v, Cardinality(Enabled(o))>> \in recorded'
    <3>1. r[3] = Cardinality(Enabled(o))
      BY <2>2 DEF LevelInv, RecordsRight
    <3>2. r = <<r[1], r[2], r[3]>>
      BY <2>2 DEF TypeOK
    <3> QED BY <1>5, <2>2, <3>1, <3>2
  <2> QED BY <1>5, <2>1, <2>2
<1>8. ASSUME NEW g \in Flushers PROVE DeliveryOf(flush[g])'
  <2>1. CASE g = f
    <3>1. flush'[g] = d
      BY <1>4, <2>1, FlushDelivers
    <3> QED BY <1>1, <1>3, <1>4, <1>7, <3>1 DEF DeliveryOf, Visible, Enabled
  <2>2. CASE g # f
    <3>1. flush'[g] = flush[g] /\ DeliveryOf(flush[g])
      BY <1>4, <2>2, FlushDelivers DEF LevelInv
    <3> QED BY <1>1, <1>5, <3>1 DEF DeliveryOf, Visible, Enabled
  <2> QED BY <2>1, <2>2
<1>9. LevelRecorded'
  BY <1>1, <1>5 DEF LevelInv, LevelRecorded, Visible, Enabled
<1> QED BY <1>6, <1>8, <1>9 DEF LevelInv

LEMMA ClearKeepsLevel ==
    ASSUME TypeOK, LevelInv, NEW f \in Flushers, ClearLevelDirty(f)
    PROVE  LevelInv'
<1>1. UNCHANGED <<configured, version, recorded>> /\ flush[f].pc = "clear"
  BY DEF ClearLevelDirty
<1>2. PICK o \in Orgs, v \in Nat : o = flush[f].org /\ v = flush[f].version
  BY FlushTypes
<1>3. Visible(o) /\ v = version[o] => <<o, v, Cardinality(Enabled(o))>> \in recorded
  BY <1>1, <1>2 DEF LevelInv, DeliveryOf
<1>4. \A x \in Orgs : dirty'[x] = dirty[x] \/ (x = o /\ v = version[o])
  BY <1>2 DEF ClearLevelDirty, Clearable, TypeOK
<1>5. LevelRecorded'
  <2> SUFFICES ASSUME NEW x \in Orgs, Visible(x), version[x] > 0, ~dirty'[x]
               PROVE  <<x, version[x], Cardinality(Enabled(x))>> \in recorded
    BY <1>1 DEF LevelRecorded, Visible, Enabled
  <2>1. CASE dirty'[x] = dirty[x]
    BY <2>1 DEF LevelInv, LevelRecorded
  <2>2. CASE x = o /\ v = version[o]
    BY <1>3, <2>2
  <2> QED BY <1>4, <2>1, <2>2
<1>6. Delivers(f, NoFlush)
  BY AfterFlushMoves DEF ClearLevelDirty
<1>7. \A g \in Flushers : DeliveryOf(flush'[g])
  BY <1>6, NoFlushTypes, IdleDelivery, FlushDelivers DEF LevelInv
<1>8. \A g \in Flushers : DeliveryOf(flush[g])'
  BY <1>1, <1>7 DEF DeliveryOf, Enabled, Visible
<1>9. RecordsRight'
  BY <1>1 DEF LevelInv, RecordsRight, Enabled, Visible
<1> QED BY <1>5, <1>8, <1>9 DEF LevelInv

LEMMA LevelKept == TypeOK /\ QuotaInv /\ LevelInv /\ [Next]_vars => LevelInv'
<1> SUFFICES ASSUME TypeOK, QuotaInv, LevelInv, [Next]_vars PROVE LevelInv'
  OBVIOUS
<1>1. ASSUME NEW s \in Saves, SaveStep(s) PROVE LevelInv'
  <2>1. CASE Upsert(s)
    BY <2>1, UpsertKeepsLevel
  <2>2. CASE ~Upsert(s)
    <3>1. UNCHANGED <<configured, version, dirty, recorded>>
      BY <1>1, <2>2 DEF SaveStep, StartSave, ReserveCompany, CompaniesUsed, ReadPrevious, Claim,
         UpsertConflict, NothingDirty, Release, Answer, Stop
    <3>2. flush' = flush \/ Delivers(s, NoFlush)
      BY <1>1, <2>2 DEF SaveStep, StartSave, ReserveCompany, CompaniesUsed, ReadPrevious, Claim,
         UpsertConflict, NothingDirty, AfterFlush, Release, Answer, Stop, Delivers
    <3>3. s \in Flushers
      BY DEF Flushers
    <3> QED BY <3>1, <3>2, <3>3, NoFlushTypes, IdleDelivery, LevelStays
  <2> QED BY <2>1, <2>2
<1>2. ASSUME NEW f \in Flushers, FlushStep(f) PROVE LevelInv'
  <2>1. ASSUME NEW o \in Orgs, GetLevelMarker(f, o) PROVE LevelInv'
    <3>1. UNCHANGED <<configured, version, dirty, recorded>>
      BY <2>1 DEF GetLevelMarker
    <3>2. PICK d \in FlushRecords :
             Delivers(f, d) /\ d.pc = "count" /\ d.org = o /\ d.version = version[o]
      BY <2>1, GetLevelMarkerMoves
    <3>3. DeliveryOf(d)
      BY <3>2 DEF DeliveryOf, TypeOK
    <3> QED BY <3>1, <3>2, <3>3, LevelStays
  <2>2. CASE CountLevel(f)
    <3>1. UNCHANGED <<configured, version, dirty, recorded>> /\ flush[f].pc = "count"
      BY <2>2 DEF CountLevel
    <3>2. PICK d \in FlushRecords :
             /\ Delivers(f, d) /\ d.pc = "report" /\ d.org = flush[f].org
             /\ d.version = flush[f].version
             /\ d.count = Cardinality(Counted(flush[f].org, Included(f)))
      BY <2>2, CountLevelMoves
    <3>3. Visible(d.org) => d.count = Cardinality(Enabled(d.org))
      BY <3>2, CountIsComplete
    <3>4. DeliveryOf(d)
      BY <3>1, <3>2, <3>3 DEF LevelInv, DeliveryOf
    <3> QED BY <3>1, <3>2, <3>4, LevelStays
  <2>3. CASE FlushFails(f)
    <3>1. UNCHANGED <<configured, version, dirty, recorded>> /\ Delivers(f, NoFlush)
      BY <2>3, AfterFlushMoves DEF FlushFails
    <3> QED BY <3>1, NoFlushTypes, IdleDelivery, LevelStays
  <2> QED BY <1>2, <2>1, <2>2, <2>3, ReportKeepsLevel, ClearKeepsLevel DEF FlushStep
<1>3. ASSUME NEW o \in Orgs, MarkCompaniesLevel(o) PROVE LevelInv'
  <2>1. \A x \in Orgs : Enabled(x)' = Enabled(x)
    BY <1>3 DEF MarkCompaniesLevel, Enabled
  <2>2. /\ recorded' = recorded /\ flush' = flush
        /\ version' = [version EXCEPT ![o] = version[o] + 1]
        /\ dirty' = [dirty EXCEPT ![o] = TRUE]
    BY <1>3 DEF MarkCompaniesLevel
  <2> QED BY <2>1, <2>2, MarkerMoves
<1>4. ASSUME NEW c \in Companies, IndexCatchesUp(c) PROVE LevelInv'
  BY <1>4, LevelStays DEF IndexCatchesUp
<1>5. CASE UNCHANGED vars
  BY <1>5, LevelStays DEF vars
<1> QED BY <1>1, <1>2, <1>3, <1>4, <1>5 DEF Next

LEMMA InitialLevel == Init => LevelInv
<1> SUFFICES ASSUME Init PROVE LevelInv
  OBVIOUS
<1>1. \A f \in Flushers : DeliveryOf(flush[f])
  BY IdleDelivery DEF Init
<1>2. RecordsRight /\ LevelRecorded
  BY DEF Init, RecordsRight, LevelRecorded
<1> QED BY <1>1, <1>2 DEF LevelInv

\* Whatever deliveries overlap, a marker leaves the dirty index only when
\* billing has the current number under the current version.
THEOREM LevelRecordedHolds == Spec => []LevelRecorded
<1>1. Init => TypeOK /\ QuotaInv /\ LevelInv
  BY InitialTypes, InitialQuota, InitialLevel
<1>2. (TypeOK /\ QuotaInv /\ LevelInv) /\ [Next]_vars => (TypeOK /\ QuotaInv /\ LevelInv)'
  BY TypesKept, QuotaKept, LevelKept
<1>3. LevelInv => LevelRecorded
  BY DEF LevelInv
<1> QED BY <1>1, <1>2, <1>3, PTL DEF Spec

-----------------------------------------------------------------------------
(* The série claims *)

\* What a request holds: on its way to the write, the séries it has claimed.
\* It gives up only what its form does not declare.
ClaimsOf(r) ==
    /\ r.pc \in {"claim", "flush", "release"} => GivesUp(r)
    /\ r.pc = "claim" =>
          /\ r.left \subseteq Declared(r.form)
          /\ r.company \notin raced =>
                \A a \in Declared(r.form) \ r.left :
                   holder[Key(r.company, a, r.form[a])] = r.company

FlushOwned == \A f \in Saves : flush[f].pc # "idle" => save[f].pc = "flush"

ClaimInv ==
    /\ ClaimsCoverConfig /\ FlushOwned
    /\ \A s \in Saves : ClaimsOf(save[s])

LEMMA KeyTypes ==
    ASSUME NEW c \in Companies, NEW a \in Ambientes,
           NEW form \in [Ambientes -> Series \cup {0}], form[a] > 0
    PROVE  form[a] \in Series /\ Key(c, a, form[a]) \in Keys
<1>1. form[a] \in Series /\ TaxIdOf[c] \in TaxIds
  BY RegistryAssumption
<1> QED BY <1>1 DEF Key, Keys

LEMMA NothingClaimed ==
    ASSUME NEW r, r.pc \notin {"claim", "flush", "release"}
    PROVE  ClaimsOf(r) /\ ClaimsOf(r)'
BY DEF ClaimsOf

\* A delivery stays that of a request at its flush.
LEMMA FlushStaysOwned ==
    ASSUME TypeOK, FlushOwned, NEW s \in Saves, NEW r \in SaveRecords, Becomes(s, r),
           (flush' = flush /\ save[s].pc # "flush") \/ Delivers(s, NoFlush)
    PROVE  FlushOwned'
<1>1. save'[s] = r /\ \A t \in Saves : t # s => save'[t] = save[t]
  BY SaveBecomes
<1>2. Saves \subseteq Flushers
  BY DEF Flushers
<1>3. flush'[s].pc = "idle" /\ \A f \in Saves : f # s => flush'[f] = flush[f]
  BY <1>2, NoFlushTypes, FlushDelivers DEF FlushOwned
<1> QED BY <1>1, <1>3 DEF FlushOwned

\* A step of a request that takes no claim from anybody and writes no row.
LEMMA ClaimsStay ==
    ASSUME TypeOK, ClaimInv, NEW s \in Saves, NEW r \in SaveRecords, Becomes(s, r),
           UNCHANGED <<serie, raced>>, ClaimsOf(r)',
           \A k \in Keys, c \in Companies : holder[k] = c => holder'[k] = c,
           (flush' = flush /\ save[s].pc # "flush") \/ Delivers(s, NoFlush)
    PROVE  ClaimInv'
<1>1. save'[s] = r /\ \A t \in Saves : t # s => save'[t] = save[t]
  BY SaveBecomes
<1>2. ClaimsCoverConfig'
  <2> SUFFICES ASSUME NEW c \in Companies \ raced, NEW a \in Ambientes, serie[c][a] > 0
               PROVE  holder'[Key(c, a, serie[c][a])] = c
    BY DEF ClaimsCoverConfig, Key
  <2>1. serie[c] \in [Ambientes -> Series \cup {0}]
    BY DEF TypeOK
  <2>2. Key(c, a, serie[c][a]) \in Keys
    BY <2>1, KeyTypes
  <2> QED BY <2>2 DEF ClaimInv, ClaimsCoverConfig
<1>3. ASSUME NEW t \in Saves, t # s PROVE ClaimsOf(save[t])'
  <2>1. PICK u \in SaveRecords : u = save[t] /\ save'[t] = u /\ ClaimsOf(u)
    BY <1>1, <1>3, SaveTypes DEF ClaimInv
  <2>2. u.company \in Companies /\ u.form \in [Ambientes -> Series \cup {0}]
    BY DEF SaveRecords
  <2>3. ASSUME u.pc = "claim", u.company \notin raced, NEW a \in Declared(u.form) \ u.left
        PROVE  holder'[Key(u.company, a, u.form[a])] = u.company
    <3>1. a \in Ambientes /\ u.form[a] > 0
      BY <2>3 DEF Declared
    <3>2. Key(u.company, a, u.form[a]) \in Keys
      BY <2>2, <3>1, KeyTypes
    <3> QED BY <2>1, <2>2, <2>3, <3>2 DEF ClaimsOf
  <2> QED BY <2>1, <2>3 DEF ClaimsOf, Key, GivesUp
<1>4. FlushOwned'
  BY FlushStaysOwned DEF ClaimInv
<1> QED BY <1>1, <1>2, <1>3, <1>4 DEF ClaimInv

LEMMA ClaimKeepsClaims ==
    ASSUME TypeOK, ClaimInv, NEW s \in Saves, Claim(s)
    PROVE  ClaimInv'
<1>1. /\ save[s].pc = "claim" /\ save[s].company \in Companies
      /\ save[s].form \in [Ambientes -> Series \cup {0}]
      /\ UNCHANGED <<serie, flush, raced>> /\ ClaimsOf(save[s])
  BY SaveTypes DEF Claim, ClaimInv
<1>2. ASSUME holder' = holder, NEW r \in SaveRecords, Becomes(s, r), r.pc = "idle"
      PROVE  ClaimInv'
  BY <1>1, <1>2, NothingClaimed, ClaimsStay
<1>3. ASSUME NEW a \in save[s].left, NEW r \in SaveRecords,
             Claimable(Key(save[s].company, a, save[s].form[a]), save[s].company),
             holder' = [holder EXCEPT
                ![Key(save[s].company, a, save[s].form[a])] = save[s].company],
             Becomes(s, r), r.pc = "claim", r.company = save[s].company,
             r.form = save[s].form, r.abandoned = save[s].abandoned,
             r.left = save[s].left \ {a}
      PROVE  ClaimInv'
  <2>1. PICK c, form, k : c = save[s].company /\ form = save[s].form /\ k = Key(c, a, form[a])
    OBVIOUS
  <2>2. a \in Ambientes /\ form[a] > 0 /\ save[s].left \subseteq Declared(form)
    BY <1>1, <1>3, <2>1 DEF ClaimsOf, Declared
  <2>3. k \in Keys /\ holder[k] \in {Nobody, c} /\ c \in Companies
    BY <1>1, <1>3, <2>1, <2>2, KeyTypes DEF Claimable
  <2>4. /\ holder'[k] = c /\ \A x \in Keys : x # k => holder'[x] = holder[x]
    BY <1>3, <2>1, <2>3 DEF TypeOK
  <2>5. \A x \in Keys, d \in Companies : holder[x] = d => holder'[x] = d
    BY <2>3, <2>4, RegistryAssumption
  <2>6. ASSUME c \notin raced, NEW b \in Declared(form) \ r.left
        PROVE  holder'[Key(c, b, form[b])] = c
    <3>1. b \in Ambientes /\ form[b] > 0
      BY <2>6 DEF Declared
    <3>2. Key(c, b, form[b]) \in Keys
      BY <1>1, <2>1, <3>1, KeyTypes
    <3>3. CASE b = a
      BY <2>1, <2>4, <3>3
    <3>4. CASE b # a
      <4>1. holder[Key(c, b, form[b])] = c
        BY <1>1, <1>3, <2>1, <2>6, <3>4 DEF ClaimsOf
      <4> QED BY <2>3, <2>5, <3>2, <4>1
    <3> QED BY <3>3, <3>4
  <2>7. GivesUp(r)
    BY <1>1, <1>3 DEF ClaimsOf, GivesUp
  <2>8. ClaimsOf(r)'
    BY <1>1, <1>3, <2>1, <2>2, <2>6, <2>7 DEF ClaimsOf, Key, GivesUp
  <2> QED BY <1>1, <1>3, <2>5, <2>8, ClaimsStay
<1> QED BY <1>2, <1>3, ClaimMoves

\* What the row now declares was claimed before it was written.
LEMMA UpsertKeepsClaims ==
    ASSUME TypeOK, ClaimInv, NEW s \in Saves, Upsert(s)
    PROVE  ClaimInv'
<1>1. PICK c, o : c = save[s].company /\ o = Org(s)
  OBVIOUS
<1>2. PICK form \in [Ambientes -> Series \cup {0}] : form = save[s].form
  BY SaveTypes
<1>3. UNCHANGED <<holder, flush, raced>>
  BY DEF Upsert
<1>4. /\ save[s].pc = "claim" /\ save[s].left = {} /\ c \in Companies
      /\ serie' = [serie EXCEPT ![c] = form]
  BY <1>1, <1>2, UpsertMoves
<1>5. PICK r \in SaveRecords :
         /\ Becomes(s, r) /\ r.pc \in {"flush", "release"} /\ r.company = c
         /\ r.form = form /\ r.abandoned = save[s].abandoned
  BY <1>1, <1>2, UpsertMoves
<1>6. serie'[c] = form /\ \A d \in Companies : d # c => serie'[d] = serie[d]
  BY <1>4 DEF TypeOK
<1>7. save'[s] = r /\ \A t \in Saves : t # s => save'[t] = save[t]
  BY <1>5, SaveBecomes
<1>8. c \notin raced => \A a \in Declared(form) : holder[Key(c, a, form[a])] = c
  BY <1>1, <1>2, <1>4 DEF ClaimInv, ClaimsOf
<1>9. ClaimsCoverConfig'
  <2> SUFFICES ASSUME NEW d \in Companies \ raced, NEW a \in Ambientes, serie'[d][a] > 0
               PROVE  holder[Key(d, a, serie'[d][a])] = d
    BY <1>3 DEF ClaimsCoverConfig, Key
  <2>1. CASE d = c
    BY <1>6, <1>8, <2>1 DEF Declared
  <2>2. CASE d # c
    BY <1>6, <2>2 DEF ClaimInv, ClaimsCoverConfig
  <2> QED BY <2>1, <2>2
<1>10. ASSUME NEW t \in Saves PROVE ClaimsOf(save[t])'
  <2>1. CASE t = s
    <3>1. GivesUp(r)
      BY <1>2, <1>4, <1>5 DEF ClaimInv, ClaimsOf, GivesUp
    <3> QED BY <1>5, <1>7, <2>1, <3>1 DEF ClaimsOf, GivesUp
  <2>2. CASE t # s
    <3>1. PICK u \in SaveRecords : u = save[t] /\ save'[t] = u /\ ClaimsOf(u)
      BY <1>7, <2>2, SaveTypes DEF ClaimInv
    <3> QED BY <1>3, <3>1 DEF ClaimsOf, Key, GivesUp
  <2> QED BY <2>1, <2>2
<1>11. FlushOwned'
  BY <1>3, <1>4, <1>5, FlushStaysOwned DEF ClaimInv
<1> QED BY <1>9, <1>10, <1>11 DEF ClaimInv

\* What is given up is not declared any more, and was not another company's;
\* or another save of the company overlapped this one, and the step says so.
LEMMA ReleaseKeepsClaims ==
    ASSUME TypeOK, ClaimInv, NEW s \in Saves, Release(s)
    PROVE  ClaimInv'
<1>1. /\ save[s].pc = "release" /\ save[s].company \in Companies
      /\ UNCHANGED <<serie, flush>> /\ GivesUp(save[s])
  BY SaveTypes DEF Release, ClaimInv, ClaimsOf
<1>2. PICK a \in Declared(save[s].abandoned), r \in SaveRecords :
         /\ UNCHANGED <<holder, raced>> \/ Frees(s, a)
         /\ Becomes(s, r) /\ r.pc = "release" /\ r.company = save[s].company
         /\ r.form = save[s].form
         /\ \A b \in Ambientes : r.abandoned[b] > 0 => r.abandoned[b] = save[s].abandoned[b]
  BY ReleaseMoves
<1>3. GivesUp(r)
  BY <1>1, <1>2 DEF GivesUp
<1>4. ClaimsOf(r)'
  BY <1>2, <1>3 DEF ClaimsOf, GivesUp
<1>5. CASE UNCHANGED <<holder, raced>>
  BY <1>1, <1>2, <1>4, <1>5, ClaimsStay
<1>6. CASE Frees(s, a)
  <2>1. PICK c, k : c = save[s].company /\ k = Key(c, a, save[s].abandoned[a])
    OBVIOUS
  <2>2. \A x \in Keys, d \in Companies : holder[x] = d /\ (x # k \/ d # c) => holder'[x] = d
    BY <1>6, <2>1 DEF Frees, TypeOK
  <2>3. /\ raced \subseteq raced'
        /\ c \notin raced' =>
              /\ serie[c] = save[s].form
              /\ \A t \in Saves : t # s /\ Active(t) => save[t].company # c
    BY <1>6, <2>1 DEF Frees, Overtaken
  <2>4. save[s].abandoned[a] # save[s].form[a]
    BY <1>1, <1>2 DEF Declared, GivesUp
  <2>5. ClaimsCoverConfig'
    <3> SUFFICES ASSUME NEW d \in Companies, d \notin raced', NEW b \in Ambientes, serie[d][b] > 0
                 PROVE  holder'[Key(d, b, serie[d][b])] = d
      BY <1>1 DEF ClaimsCoverConfig, Key
    <3>1. serie[d] \in [Ambientes -> Series \cup {0}]
      BY DEF TypeOK
    <3>2. Key(d, b, serie[d][b]) \in Keys
      BY <3>1, KeyTypes
    <3>3. holder[Key(d, b, serie[d][b])] = d
      BY <2>3 DEF ClaimInv, ClaimsCoverConfig
    <3>4. d # c \/ Key(d, b, serie[d][b]) # k
      BY <2>1, <2>3, <2>4 DEF Key
    <3> QED BY <2>2, <3>2, <3>3, <3>4
  <2>6. save'[s] = r /\ \A t \in Saves : t # s => save'[t] = save[t]
    BY <1>2, SaveBecomes
  <2>7. ASSUME NEW t \in Saves, t # s PROVE ClaimsOf(save[t])'
    <3>1. PICK u \in SaveRecords : u = save[t] /\ save'[t] = u /\ ClaimsOf(u)
      BY <2>6, <2>7, SaveTypes DEF ClaimInv
    <3>2. u.company \in Companies /\ u.form \in [Ambientes -> Series \cup {0}]
      BY DEF SaveRecords
    <3>3. ASSUME u.pc = "claim", u.company \notin raced', NEW b \in Declared(u.form) \ u.left
          PROVE  holder'[Key(u.company, b, u.form[b])] = u.company
      <4>1. b \in Ambientes /\ u.form[b] > 0
        BY <3>3 DEF Declared
      <4>2. Key(u.company, b, u.form[b]) \in Keys
        BY <3>2, <4>1, KeyTypes
      <4>3. holder[Key(u.company, b, u.form[b])] = u.company
        BY <2>3, <3>1, <3>3 DEF ClaimsOf
      <4>4. u.company # c
        BY <2>3, <2>7, <3>1, <3>3 DEF Active
      <4> QED BY <2>2, <3>2, <4>2, <4>3, <4>4
    <3> QED BY <3>1, <3>3 DEF ClaimsOf, Key, GivesUp
  <2>8. FlushOwned'
    BY <1>1, <1>2, FlushStaysOwned DEF ClaimInv
  <2> QED BY <1>4, <2>5, <2>6, <2>7, <2>8 DEF ClaimInv
<1> QED BY <1>2, <1>5, <1>6

\* A step after which a request claims nothing, or what it claimed.
LEMMA ClaimsUntouched ==
    ASSUME TypeOK, ClaimInv, NEW s \in Saves, NEW r \in SaveRecords, Becomes(s, r),
           UNCHANGED <<serie, holder, raced>>, ClaimsOf(r),
           (flush' = flush /\ save[s].pc # "flush") \/ Delivers(s, NoFlush)
    PROVE  ClaimInv'
<1>1. ClaimsOf(r)'
  BY DEF ClaimsOf, Key, GivesUp
<1> QED BY <1>1, ClaimsStay

\* The claims when no request moves.
LEMMA DeliveriesKeepClaims ==
    ASSUME TypeOK, ClaimInv, UNCHANGED <<serie, holder, raced, save>>,
           \A f \in Saves : flush'[f].pc # "idle" => save[f].pc = "flush"
    PROVE  ClaimInv'
<1>1. ClaimsCoverConfig' /\ FlushOwned'
  BY DEF ClaimInv, ClaimsCoverConfig, FlushOwned, Key
<1>2. \A s \in Saves : ClaimsOf(save[s])'
  BY DEF ClaimInv, ClaimsOf, Key, GivesUp
<1> QED BY <1>1, <1>2 DEF ClaimInv

\* Where a delivery leaves its request.
LEMMA FlushedKeepsClaims ==
    ASSUME TypeOK, ClaimInv, NEW f \in Saves, save[f].pc = "flush", AfterFlush(f),
           UNCHANGED <<serie, holder, raced>>
    PROVE  ClaimInv'
<1>1. Delivers(f, NoFlush)
  BY DEF AfterFlush, Delivers
<1>2. Goto(f, "release") /\ "release" \in Places
  BY DEF AfterFlush, Places
<1>3. PICK r \in SaveRecords :
         /\ Becomes(f, r) /\ r.pc = "release"
         /\ r.form = save[f].form /\ r.abandoned = save[f].abandoned
  BY <1>2, GotoBecomes
<1>4. ClaimsOf(r)
  BY <1>3 DEF ClaimInv, ClaimsOf, GivesUp
<1> QED BY <1>1, <1>3, <1>4, ClaimsUntouched

LEMMA RequestKeepsClaims ==
    ASSUME TypeOK, ClaimInv, NEW s \in Saves, SaveStep(s)
    PROVE  ClaimInv'
<1>1. ASSUME NEW c \in Companies, NEW form \in Forms[c], StartSave(s, c, form) PROVE ClaimInv'
  <2>1. save[s].pc = "idle" /\ UNCHANGED <<serie, holder, raced, flush>>
    BY <1>1 DEF StartSave
  <2>2. PICK r \in SaveRecords : Becomes(s, r) /\ r.pc = "reserve"
    BY <1>1, StartSaveMoves
  <2> QED BY <2>1, <2>2, NothingClaimed, ClaimsUntouched
<1>2. CASE ReserveCompany(s)
  <2>1. save[s].pc = "reserve" /\ UNCHANGED <<serie, holder, raced, flush>>
    BY <1>2 DEF ReserveCompany
  <2>2. PICK r \in SaveRecords : Becomes(s, r) /\ r.pc \in {"count", "previous"}
    BY <1>2, ReserveCompanyMoves
  <2> QED BY <2>1, <2>2, NothingClaimed, ClaimsUntouched
<1>3. CASE CompaniesUsed(s)
  <2>1. /\ save[s].pc = "count" /\ UNCHANGED <<serie, holder, raced, flush>>
        /\ Goto(s, "previous") \/ End(s)
    BY <1>3 DEF CompaniesUsed
  <2>2. "previous" \in Places
    BY DEF Places
  <2>3. PICK r \in SaveRecords : Becomes(s, r) /\ r.pc \in {"previous", "idle"}
    BY <2>1, <2>2, GotoBecomes, EndBecomes
  <2> QED BY <2>1, <2>3, NothingClaimed, ClaimsUntouched
<1>4. CASE ReadPrevious(s)
  <2>1. save[s].pc = "previous" /\ UNCHANGED <<serie, holder, raced, flush>>
    BY <1>4 DEF ReadPrevious
  <2>2. PICK r \in SaveRecords :
           /\ Becomes(s, r) /\ r.pc = "claim" /\ GivesUp(r)
           /\ r.form = save[s].form /\ r.left = Declared(save[s].form)
    BY <1>4, ReadPreviousMoves
  <2>3. ClaimsOf(r)
    BY <2>2 DEF ClaimsOf
  <2> QED BY <2>1, <2>2, <2>3, ClaimsUntouched
<1>5. CASE UpsertConflict(s) \/ Answer(s)
  <2>1. save[s].pc \in {"claim", "release"} /\ UNCHANGED <<serie, holder, raced, flush>> /\ End(s)
    BY <1>5 DEF UpsertConflict, Answer
  <2>2. PICK r \in SaveRecords : Becomes(s, r) /\ r.pc = "idle"
    BY <2>1, EndBecomes
  <2> QED BY <2>1, <2>2, NothingClaimed, ClaimsUntouched
<1>6. CASE NothingDirty(s)
  BY <1>6, FlushedKeepsClaims DEF NothingDirty
<1>7. CASE Stop(s)
  <2>1. UNCHANGED <<serie, holder, raced>> /\ End(s) /\ Delivers(s, NoFlush)
    BY <1>7 DEF Stop, Delivers
  <2>2. PICK r \in SaveRecords : Becomes(s, r) /\ r.pc = "idle"
    BY <2>1, EndBecomes
  <2> QED BY <2>1, <2>2, NothingClaimed, ClaimsUntouched
<1> QED BY <1>1, <1>2, <1>3, <1>4, <1>5, <1>6, <1>7,
           ClaimKeepsClaims, UpsertKeepsClaims, ReleaseKeepsClaims DEF SaveStep

LEMMA FlushKeepsClaims ==
    ASSUME TypeOK, ClaimInv, NEW f \in Flushers, FlushStep(f)
    PROVE  ClaimInv'
<1>1. UNCHANGED <<serie, holder, raced>>
  BY DEF FlushStep, GetLevelMarker, CountLevel, ReportLevel, ClearLevelDirty, FlushFails
<1>2. Saves \subseteq Flushers
  BY DEF Flushers
<1>3. ASSUME save' = save, f \in Saves => save[f].pc = "flush",
             NEW d \in FlushRecords, Delivers(f, d)
      PROVE  ClaimInv'
  <2>1. \A g \in Saves : flush'[g].pc # "idle" => save[g].pc = "flush"
    BY <1>2, <1>3, FlushDelivers DEF ClaimInv, FlushOwned
  <2> QED BY <1>1, <1>3, <2>1, DeliveriesKeepClaims
<1>4. ASSUME NEW o \in Orgs, GetLevelMarker(f, o) PROVE ClaimInv'
  <2>1. save' = save /\ (f \in Saves => save[f].pc = "flush")
    BY <1>4 DEF GetLevelMarker, MayFlush
  <2> QED BY <1>3, <1>4, <2>1, GetLevelMarkerMoves
<1>5. CASE CountLevel(f) \/ ReportLevel(f)
  <2>1. save' = save /\ (f \in Saves => save[f].pc = "flush")
    BY <1>5 DEF CountLevel, ReportLevel, ClaimInv, FlushOwned
  <2>2. PICK d \in FlushRecords : Delivers(f, d)
    BY <1>5, CountLevelMoves, ReportLevelMoves
  <2> QED BY <1>3, <2>1, <2>2
<1>6. CASE ClearLevelDirty(f) \/ FlushFails(f)
  <2>1. AfterFlush(f) /\ (f \in Saves => save[f].pc = "flush")
    BY <1>6 DEF ClearLevelDirty, FlushFails, ClaimInv, FlushOwned
  <2>2. CASE f \in Saves
    BY <1>1, <2>1, <2>2, FlushedKeepsClaims
  <2>3. CASE f \notin Saves
    <3>1. save' = save /\ Delivers(f, NoFlush)
      BY <2>1, <2>3 DEF AfterFlush, Delivers
    <3> QED BY <1>3, <2>3, <3>1, NoFlushTypes
  <2> QED BY <2>2, <2>3
<1> QED BY <1>4, <1>5, <1>6 DEF FlushStep

LEMMA ClaimsKept == TypeOK /\ ClaimInv /\ [Next]_vars => ClaimInv'
<1> SUFFICES ASSUME TypeOK, ClaimInv, [Next]_vars PROVE ClaimInv'
  OBVIOUS
<1>1. CASE \/ \E o \in Orgs : MarkCompaniesLevel(o)
           \/ \E c \in Companies : IndexCatchesUp(c)
           \/ UNCHANGED vars
  <2>1. UNCHANGED <<serie, holder, raced, save, flush>>
    BY <1>1 DEF MarkCompaniesLevel, IndexCatchesUp, vars
  <2>2. \A f \in Saves : flush'[f].pc # "idle" => save[f].pc = "flush"
    BY <2>1 DEF ClaimInv, FlushOwned
  <2> QED BY <2>1, <2>2, DeliveriesKeepClaims
<1> QED BY <1>1, RequestKeepsClaims, FlushKeepsClaims DEF Next

\* What was configured before is claimed by its company: no other declared it.
LEMMA InitialHolders ==
    ASSUME Init, NEW c \in DOMAIN Before, NEW a \in Ambientes, Before[c][a] > 0
    PROVE  holder[Key(c, a, Before[c][a])] = c
<1>1. PICK k : k = Key(c, a, Before[c][a])
  OBVIOUS
<1>2. k \in Keys
  BY <1>1, KeyTypes, BeforeAssumption
<1>3. Declares(c, k)
  BY <1>1 DEF Declares
<1>4. ASSUME NEW d \in DOMAIN Before, Declares(d, k) PROVE d = c
  <2>1. PICK b \in Ambientes : Before[d][b] > 0 /\ Key(d, b, Before[d][b]) = k
    BY <1>4 DEF Declares
  <2>2. TaxIdOf[d] = TaxIdOf[c] /\ b = a /\ Before[d][b] = Before[c][a]
    BY <1>1, <2>1 DEF Key
  <2> QED BY <2>2, BeforeAssumption
<1>5. (CHOOSE d \in DOMAIN Before : Declares(d, k)) = c
  BY <1>3, <1>4
<1> QED BY <1>1, <1>2, <1>3, <1>5 DEF Init

LEMMA InitialClaims == Init => ClaimInv
<1> SUFFICES ASSUME Init PROVE ClaimInv
  OBVIOUS
<1>1. \A s \in Saves : save[s].pc = "idle" /\ flush[s].pc = "idle"
  BY AtRestTypes, NoFlushTypes DEF Init, Flushers
<1>2. ClaimsCoverConfig
  <2> SUFFICES ASSUME NEW c \in Companies, NEW a \in Ambientes, serie[c][a] > 0
               PROVE  holder[Key(c, a, serie[c][a])] = c
    BY DEF ClaimsCoverConfig
  <2>1. c \in DOMAIN Before /\ serie[c] = Before[c]
    BY DEF Init, Blank
  <2> QED BY <2>1, InitialHolders
<1> QED BY <1>1, <1>2, NothingClaimed DEF ClaimInv, FlushOwned

\* Whatever saves interleave and fail half way, a série that a configuration
\* declares is claimed by its company, unless a save of that company gave up a
\* claim while another save of it overlapped.
THEOREM ClaimsCoverConfigHolds == Spec => []ClaimsCoverConfig
<1>1. Init => TypeOK /\ ClaimInv
  BY InitialTypes, InitialClaims
<1>2. (TypeOK /\ ClaimInv) /\ [Next]_vars => (TypeOK /\ ClaimInv)'
  BY TypesKept, ClaimsKept
<1>3. ClaimInv => ClaimsCoverConfig
  BY DEF ClaimInv
<1> QED BY <1>1, <1>2, <1>3, PTL DEF Spec

LEMMA CoveredIsUnique == ClaimsCoverConfig => SeriesUnique
<1> SUFFICES ASSUME ClaimsCoverConfig, NEW c \in Companies \ raced, NEW d \in Companies \ raced,
                    NEW a \in Ambientes, c # d, TaxIdOf[c] = TaxIdOf[d],
                    serie[c][a] > 0, serie[d][a] = serie[c][a]
             PROVE  FALSE
  BY DEF SeriesUnique, Distinct
<1>1. Key(c, a, serie[c][a]) = Key(d, a, serie[d][a])
  BY DEF Key
<1>2. holder[Key(c, a, serie[c][a])] = c /\ holder[Key(d, a, serie[d][a])] = d
  BY DEF ClaimsCoverConfig
<1> QED BY <1>1, <1>2

\* So two such companies on one CNPJ never declare the same série: a claim has
\* one holder.
THEOREM SeriesUniqueHolds == Spec => []SeriesUnique
BY ClaimsCoverConfigHolds, CoveredIsUnique, PTL

-----------------------------------------------------------------------------
(* What one save of a company at a time would give *)

\* The saves of one company do not overlap.  Nothing in the code sees to it.
SerialSaves ==
    \A s, t \in Saves : s # t /\ Active(s) /\ Active(t) => save[s].company # save[t].company

\* Then a request that wrote its row finds it there until it ends, and no claim
\* is given up that anybody needs.
SerialInv ==
    /\ raced = {}
    /\ \A s \in Saves :
          save[s].pc \in {"flush", "release"} => serie[save[s].company] = save[s].form

\* A step of a request that writes no row and gives up nothing.
LEMMA SerialStays ==
    ASSUME TypeOK, SerialInv, NEW s \in Saves, NEW r \in SaveRecords, Becomes(s, r),
           UNCHANGED <<serie, raced>>,
           r.pc \in {"flush", "release"} =>
              /\ save[s].pc \in {"flush", "release"}
              /\ r.company = save[s].company /\ r.form = save[s].form
    PROVE  SerialInv'
<1>1. save'[s] = r /\ \A t \in Saves : t # s => save'[t] = save[t]
  BY SaveBecomes
<1> QED BY <1>1 DEF SerialInv

LEMMA UpsertKeepsSerial ==
    ASSUME TypeOK, SerialInv, SerialSaves, NEW s \in Saves, Upsert(s)
    PROVE  SerialInv'
<1>1. PICK c, o : c = save[s].company /\ o = Org(s)
  OBVIOUS
<1>2. /\ save[s].pc = "claim" /\ c \in Companies /\ raced' = raced
      /\ serie' = [serie EXCEPT ![c] = save[s].form]
  BY <1>1, UpsertMoves DEF Upsert
<1>3. PICK r \in SaveRecords : Becomes(s, r) /\ r.company = c /\ r.form = save[s].form
  BY <1>1, UpsertMoves
<1>4. save'[s] = r /\ \A t \in Saves : t # s => save'[t] = save[t]
  BY <1>3, SaveBecomes
<1>5. serie'[c] = save[s].form /\ \A d \in Companies : d # c => serie'[d] = serie[d]
  BY <1>2 DEF TypeOK
<1>6. ASSUME NEW t \in Saves, t # s, save[t].pc \in {"flush", "release"}
      PROVE  serie'[save[t].company] = save[t].form
  <2>1. save[t].company # c
    BY <1>1, <1>2, <1>6 DEF SerialSaves, Active
  <2> QED BY <1>5, <1>6, <2>1, SaveTypes DEF SerialInv
<1> QED BY <1>2, <1>3, <1>4, <1>5, <1>6 DEF SerialInv

LEMMA SerialKept ==
    TypeOK /\ ClaimInv /\ SerialInv /\ SerialSaves /\ [Next]_vars => SerialInv'
<1> SUFFICES ASSUME TypeOK, ClaimInv, SerialInv, SerialSaves, [Next]_vars PROVE SerialInv'
  OBVIOUS
<1>1. ASSUME NEW s \in Saves, SaveStep(s) PROVE SerialInv'
  <2>1. ASSUME NEW c \in Companies, NEW form \in Forms[c], StartSave(s, c, form)
        PROVE  SerialInv'
    <3>1. UNCHANGED <<serie, raced>>
      BY <2>1 DEF StartSave
    <3>2. PICK r \in SaveRecords : Becomes(s, r) /\ r.pc = "reserve"
      BY <2>1, StartSaveMoves
    <3> QED BY <3>1, <3>2, SerialStays
  <2>2. CASE ReserveCompany(s) \/ CompaniesUsed(s) \/ ReadPrevious(s)
    <3>1. UNCHANGED <<serie, raced>>
      BY <2>2 DEF ReserveCompany, CompaniesUsed, ReadPrevious
    <3>2. "previous" \in Places
      BY DEF Places
    <3>3. PICK r \in SaveRecords :
             Becomes(s, r) /\ r.pc \in {"count", "previous", "claim", "idle"}
      BY <2>2, <3>2, ReserveCompanyMoves, ReadPreviousMoves, GotoBecomes, EndBecomes
         DEF CompaniesUsed
    <3> QED BY <3>1, <3>3, SerialStays
  <2>3. CASE Claim(s)
    <3>1. UNCHANGED <<serie, raced>>
      BY <2>3 DEF Claim
    <3>2. PICK r \in SaveRecords : Becomes(s, r) /\ r.pc \in {"claim", "idle"}
      BY <2>3, ClaimMoves
    <3> QED BY <3>1, <3>2, SerialStays
  <2>4. CASE UpsertConflict(s) \/ Answer(s) \/ Stop(s)
    <3>1. UNCHANGED <<serie, raced>>
      BY <2>4 DEF UpsertConflict, Answer, Stop
    <3>2. PICK r \in SaveRecords : Becomes(s, r) /\ r.pc = "idle"
      BY <2>4, EndBecomes DEF UpsertConflict, Answer, Stop
    <3> QED BY <3>1, <3>2, SerialStays
  <2>5. CASE NothingDirty(s)
    <3>1. /\ UNCHANGED <<serie, raced>> /\ save[s].pc = "flush"
          /\ Goto(s, "release") /\ "release" \in Places
      BY <2>5 DEF NothingDirty, AfterFlush, Places
    <3>2. PICK r \in SaveRecords :
             Becomes(s, r) /\ r.company = save[s].company /\ r.form = save[s].form
      BY <3>1, GotoBecomes
    <3> QED BY <3>1, <3>2, SerialStays
  <2>6. CASE Release(s)
    <3>1. save[s].pc = "release" /\ serie' = serie
      BY <2>6 DEF Release
    <3>2. ~Overtaken(s)
      BY <3>1 DEF SerialInv, SerialSaves, Overtaken, Active
    <3>3. PICK r \in SaveRecords :
             Becomes(s, r) /\ r.company = save[s].company /\ r.form = save[s].form
      BY <2>6, ReleaseMoves
    <3>4. raced' = raced
      BY <2>6, <3>2, ReleaseMoves DEF Frees
    <3> QED BY <3>1, <3>3, <3>4, SerialStays
  <2> QED BY <1>1, <2>1, <2>2, <2>3, <2>4, <2>5, <2>6, UpsertKeepsSerial DEF SaveStep
<1>2. ASSUME NEW f \in Flushers, FlushStep(f) PROVE SerialInv'
  <2>1. UNCHANGED <<serie, raced>>
    BY <1>2 DEF FlushStep, GetLevelMarker, CountLevel, ReportLevel, ClearLevelDirty, FlushFails
  <2>2. save' = save \/ (AfterFlush(f) /\ flush[f].pc # "idle")
    BY <1>2 DEF FlushStep, GetLevelMarker, CountLevel, ReportLevel, ClearLevelDirty, FlushFails
  <2>3. CASE save' = save
    BY <2>1, <2>3 DEF SerialInv
  <2>4. ASSUME AfterFlush(f), flush[f].pc # "idle", f \in Saves PROVE SerialInv'
    <3>1. save[f].pc = "flush"
      BY <2>4 DEF ClaimInv, FlushOwned
    <3>2. Goto(f, "release") /\ "release" \in Places
      BY <2>4 DEF AfterFlush, Places
    <3>3. PICK r \in SaveRecords :
             Becomes(f, r) /\ r.company = save[f].company /\ r.form = save[f].form
      BY <2>4, <3>2, GotoBecomes
    <3> QED BY <2>1, <2>4, <3>1, <3>3, SerialStays
  <2>5. f \notin Saves /\ AfterFlush(f) => save' = save
    BY DEF AfterFlush
  <2> QED BY <2>2, <2>3, <2>4, <2>5
<1>3. CASE \/ \E o \in Orgs : MarkCompaniesLevel(o)
           \/ \E c \in Companies : IndexCatchesUp(c)
           \/ UNCHANGED vars
  <2>1. UNCHANGED <<serie, raced, save>>
    BY <1>3 DEF MarkCompaniesLevel, IndexCatchesUp, vars
  <2> QED BY <2>1 DEF SerialInv
<1> QED BY <1>1, <1>2, <1>3 DEF Next

LEMMA InitialSerial == Init => SerialInv
<1> SUFFICES ASSUME Init PROVE SerialInv
  OBVIOUS
<1>1. \A s \in Saves : save[s].pc = "idle"
  BY AtRestTypes DEF Init
<1> QED BY <1>1 DEF Init, SerialInv

\* The claim table "keeps two companies on one CNPJ off the same série" in every
\* behaviour in which the saves of one company do not overlap, whatever fails
\* half way and however the saves of different companies interleave.
THEOREM SeriesUniqueIfSavesAreSerial == Spec /\ []SerialSaves => []SeriesUniqueAlways
<1>1. Init => TypeOK /\ ClaimInv /\ SerialInv
  BY InitialTypes, InitialClaims, InitialSerial
<1>2. (TypeOK /\ ClaimInv /\ SerialInv) /\ SerialSaves /\ [Next]_vars
      => (TypeOK /\ ClaimInv /\ SerialInv)'
  BY TypesKept, ClaimsKept, SerialKept
<1>3. TypeOK /\ ClaimInv /\ SerialInv => SeriesUniqueAlways
  BY CoveredIsUnique DEF ClaimInv, SerialInv, SeriesUnique, SeriesUniqueAlways
<1> QED BY <1>1, <1>2, <1>3, PTL DEF Spec

=============================================================================
