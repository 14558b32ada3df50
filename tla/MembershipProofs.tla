-------------------------- MODULE MembershipProofs --------------------------
(***************************************************************************)
(* What holds of Membership for any people, roles, invitations and         *)
(* requests.  Besides types, two facts carry the properties: an invitation *)
(* that admitted somebody is accepted, and a request that is about to      *)
(* write saw, when it decided, that an OWNER would be left.                *)
(***************************************************************************)
EXTENDS Membership, FiniteSetTheorems, TLAPS

LEMMA InitType == Init => TypeOK
<1> SUFFICES ASSUME Init PROVE TypeOK
  OBVIOUS
<1>1. role \in [Users -> Rows]
  BY DEF Init, Rows, Roles
<1>2. req \in [Requests -> RequestRecords]
  BY DEF Init, Idle, RequestRecords, Rows
<1> QED
  BY <1>1, <1>2 DEF Init, TypeOK

\* A request's record stays one when a field takes a value of its kind.
LEMMA IdleType == Idle \in RequestRecords
  BY DEF Idle, RequestRecords, Rows

\* What starting a request does to the requests.
LEMMA StartMoves ==
    ASSUME TypeOK, NEW r \in Requests, Start(r)
    PROVE  /\ UNCHANGED <<role, cache, invitation, admitted>>
           /\ \E x \in RequestRecords :
                 /\ req' = [req EXCEPT ![r] = x]
                 /\ x.pc \in {"fill", "guard", "admit"}
                 /\ x.user \in Users
                 /\ x.pc = "admit" => x.inv \in Invitations
<1>1. PICK u \in Users :
         \/ ReadRow(r, u)
         \/ \E target \in Users, to \in Grantable \cup {NoRole} : StartChange(r, u, target, to)
         \/ \E i \in Invitations : StartAccept(r, i, u)
  BY DEF Start
<1>2. CASE ReadRow(r, u)
  <2> DEFINE x == [Idle EXCEPT !.pc = "fill", !.user = u, !.to = role[u]]
  <2>1. role[u] \in Rows
    BY DEF TypeOK
  <2>2. x \in RequestRecords /\ x.pc = "fill" /\ x.user = u
    BY <2>1 DEF Idle, RequestRecords
  <2>3. req' = [req EXCEPT ![r] = x] /\ UNCHANGED <<role, cache, invitation, admitted>>
    BY <1>2 DEF ReadRow, Begin
  <2> HIDE DEF x
  <2> QED
    BY <2>2, <2>3
<1>3. ASSUME NEW target \in Users, NEW to \in Grantable \cup {NoRole},
             StartChange(r, u, target, to)
      PROVE  /\ UNCHANGED <<role, cache, invitation, admitted>>
             /\ \E x \in RequestRecords :
                   req' = [req EXCEPT ![r] = x] /\ x.pc = "guard" /\ x.user \in Users
  <2> DEFINE x == [Idle EXCEPT !.pc = "guard", !.user = target, !.to = to]
  <2>1. x \in RequestRecords /\ x.pc = "guard" /\ x.user = target
    BY DEF Idle, RequestRecords, Rows, Roles
  <2>2. req' = [req EXCEPT ![r] = x] /\ UNCHANGED <<role, cache, invitation, admitted>>
    BY <1>3 DEF StartChange, Begin
  <2> HIDE DEF x
  <2> QED
    BY <2>1, <2>2
<1>4. ASSUME NEW i \in Invitations, StartAccept(r, i, u)
      PROVE  /\ UNCHANGED <<role, cache, invitation, admitted>>
             /\ \E x \in RequestRecords :
                   /\ req' = [req EXCEPT ![r] = x]
                   /\ x.pc = "admit" /\ x.user \in Users /\ x.inv \in Invitations
  <2> DEFINE x == [Idle EXCEPT !.pc = "admit", !.user = u, !.inv = i, !.to = InvitedRole[i]]
  <2>1. InvitedRole[i] \in Rows
    BY MembershipAssumption DEF Rows, Roles
  <2>2. x \in RequestRecords /\ x.pc = "admit" /\ x.user = u /\ x.inv = i
    BY <2>1 DEF Idle, RequestRecords
  <2>3. req' = [req EXCEPT ![r] = x] /\ UNCHANGED <<role, cache, invitation, admitted>>
    BY <1>4 DEF StartAccept
  <2> HIDE DEF x
  <2> QED
    BY <2>2, <2>3
<1> QED
  BY <1>1, <1>2, <1>3, <1>4

\* What going on with a request does to the requests: it ends, or it keeps its
\* person and, when it is to write, has just seen the owners.
Decides(x) == x.saw = Owners /\ (role[x.user] # Owner \/ EnoughOwners)

LEMMA ContinueMoves ==
    ASSUME TypeOK, NEW r \in Requests, Continue(r)
    PROVE  \E x \in RequestRecords :
              /\ req' = [req EXCEPT ![r] = x]
              /\ \/ x = Idle
                 \/ /\ ~At(r, "idle")
                    /\ x.user = req[r].user
                    /\ x.pc # "admit"
                    /\ x.pc = "write" => Decides(x)
<1> DEFINE Moved(x) == x = Idle \/ (/\ ~At(r, "idle") /\ x.user = req[r].user
                                    /\ x.pc # "admit" /\ (x.pc = "write" => Decides(x)))
<1>1. req[r] \in RequestRecords
  BY DEF TypeOK
<1>2. CASE End(r)
  BY <1>2, IdleType DEF End
<1>3. CASE GuardLastOwner(r)
  <2> DEFINE x == [req[r] EXCEPT !.pc = IF role[req[r].user] = Owner THEN "count" ELSE "write",
                                 !.saw = Owners]
  <2>1. x \in RequestRecords
    BY <1>1 DEF RequestRecords, Owners
  <2>2. req' = [req EXCEPT ![r] = x]
    BY <1>3 DEF GuardLastOwner, TypeOK
  <2>3. Moved(x)
    BY <1>1, <1>3 DEF GuardLastOwner, At, Decides, RequestRecords
  <2> HIDE DEF x
  <2> QED
    BY <2>1, <2>2, <2>3
<1>4. CASE CountOwners(r) /\ ~End(r)
  <2> DEFINE x == [req[r] EXCEPT !.pc = "write", !.saw = Owners]
  <2>1. x \in RequestRecords
    BY <1>1 DEF RequestRecords, Owners
  <2>2. req' = [req EXCEPT ![r] = x]
    BY <1>4 DEF CountOwners, TypeOK
  <2>3. Moved(x)
    BY <1>1, <1>4 DEF CountOwners, At, Decides, RequestRecords
  <2> HIDE DEF x
  <2> QED
    BY <2>1, <2>2, <2>3
<1>5. CASE WriteMember(r) /\ ~End(r)
  <2> DEFINE x == [req[r] EXCEPT !.pc = "uncache", !.saw = {}]
  <2>1. x \in RequestRecords
    BY <1>1 DEF RequestRecords
  <2>2. req' = [req EXCEPT ![r] = x]
    BY <1>5 DEF WriteMember, TypeOK
  <2>3. Moved(x)
    BY <1>1, <1>5 DEF WriteMember, At, RequestRecords
  <2> HIDE DEF x
  <2> QED
    BY <2>1, <2>2, <2>3
<1>6. CASE Admit(r) /\ ~End(r)
  <2> DEFINE x == [req[r] EXCEPT !.pc = "uncache", !.inv = Nobody]
  <2>1. x \in RequestRecords
    BY <1>1 DEF RequestRecords
  <2>2. req' = [req EXCEPT ![r] = x]
    BY <1>6 DEF Admit, TypeOK
  <2>3. Moved(x)
    BY <1>1, <1>6 DEF Admit, At, RequestRecords
  <2> HIDE DEF x
  <2> QED
    BY <2>1, <2>2, <2>3
<1> QED
  BY <1>2, <1>3, <1>4, <1>5, <1>6 DEF Continue, Fill, Invalidate, Fails

\* A request that is under way names its person, and an acceptance its invitation.
Named ==
    \A r \in Requests :
       /\ ~At(r, "idle") => req[r].user \in Users
       /\ At(r, "admit") => req[r].inv \in Invitations

LEMMA ContinueType ==
    ASSUME TypeOK, Named, NEW r \in Requests, Continue(r)
    PROVE  TypeOK'
<1>1. req' \in [Requests -> RequestRecords]
  BY ContinueMoves DEF TypeOK
<1>2. req[r].to \in Rows
  BY DEF TypeOK, RequestRecords
<1>3. role' \in [Users -> Rows]
  BY <1>2 DEF TypeOK, Continue, Fill, GuardLastOwner, CountOwners, WriteMember,
              Invalidate, Admit, Fails
<1>4. cache' \in [Users -> Rows \cup {Nothing}]
  <2>1. AfterWrite(r) \in Rows \cup {Nothing}
    BY DEF AfterWrite, Rows
  <2> QED
    BY <1>2, <2>1 DEF TypeOK, Continue, Fill, GuardLastOwner, CountOwners, WriteMember,
                      Invalidate, Admit, Fails
<1>5. invitation' \in [Invitations -> {"pending", "expired", "accepted", "revoked"}]
  BY DEF TypeOK, Continue, Fill, GuardLastOwner, CountOwners, WriteMember,
         Invalidate, Admit, Fails
<1>6. admitted' \subseteq Invitations \X Users
  <2>1. CASE Admit(r)
    <3>1. req[r].inv \in Invitations /\ req[r].user \in Users
      BY <2>1 DEF Admit, Named, At
    <3> QED
      BY <2>1, <3>1 DEF Admit, TypeOK
  <2> QED
    BY <2>1 DEF TypeOK, Continue, Fill, GuardLastOwner, CountOwners, WriteMember,
                Invalidate, Fails
<1> QED
  BY <1>1, <1>3, <1>4, <1>5, <1>6 DEF TypeOK

LEMMA TypeStep == TypeOK /\ Named /\ [Next]_vars => TypeOK'
<1> SUFFICES ASSUME TypeOK, Named, [Next]_vars PROVE TypeOK'
  OBVIOUS
<1>1. ASSUME NEW r \in Requests, Start(r) PROVE TypeOK'
  BY <1>1, StartMoves DEF TypeOK
<1>2. ASSUME NEW r \in Requests, Continue(r) PROVE TypeOK'
  BY <1>2, ContinueType
<1>3. ASSUME NEW u \in Users, EnsureOwner(u) PROVE TypeOK'
  BY <1>3 DEF EnsureOwner, TypeOK, Rows, Roles
<1>4. ASSUME NEW u \in Users, CacheExpires(u) PROVE TypeOK'
  BY <1>4 DEF CacheExpires, TypeOK
<1>5. ASSUME NEW i \in Invitations, Expire(i) \/ Revoke(i) PROVE TypeOK'
  BY <1>5 DEF Expire, Revoke, TypeOK
<1>6. CASE UNCHANGED vars
  BY <1>6 DEF vars, TypeOK
<1> QED
  BY <1>1, <1>2, <1>3, <1>4, <1>5, <1>6 DEF Next

LEMMA InitNamed == Init => Named
<1> SUFFICES ASSUME Init, NEW r \in Requests PROVE At(r, "idle")
  BY DEF Named, At
<1> QED
  BY DEF Init, At, Idle

LEMMA NamedStep == TypeOK /\ Named /\ [Next]_vars => Named'
<1> SUFFICES ASSUME TypeOK, Named, [Next]_vars PROVE Named'
  OBVIOUS
<1> USE DEF TypeOK, Named, At
<1>1. ASSUME NEW r \in Requests, Start(r) PROVE Named'
  BY <1>1, StartMoves
<1>2. ASSUME NEW r \in Requests, Continue(r) PROVE Named'
  BY <1>2, ContinueMoves DEF Idle
<1>3. CASE UNCHANGED req
  BY <1>3
<1>4. ASSUME NEW u \in Users, EnsureOwner(u) \/ CacheExpires(u) PROVE UNCHANGED req
  BY <1>4 DEF EnsureOwner, CacheExpires
<1>5. ASSUME NEW i \in Invitations, Expire(i) \/ Revoke(i) PROVE UNCHANGED req
  BY <1>5 DEF Expire, Revoke
<1> QED
  BY <1>1, <1>2, <1>3, <1>4, <1>5 DEF Next, vars

\* Every reachable state is well typed: the handlers of memberships.go, link.go
\* and invitations.go only move between the places and the roles they name.
THEOREM TypeCorrect == Spec => []TypeOK
<1>1. Init => TypeOK /\ Named
  BY InitType, InitNamed
<1>2. TypeOK /\ Named /\ [Next]_vars => (TypeOK /\ Named)'
  BY TypeStep, NamedStep
<1> QED
  BY <1>1, <1>2, PTL DEF Spec

-----------------------------------------------------------------------------
(* Invitations *)

LEMMA UsedOnceStep ==
    TypeOK /\ Named /\ InvitationUsedOnce /\ [Next]_vars => InvitationUsedOnce'
<1> SUFFICES ASSUME TypeOK, Named, InvitationUsedOnce, [Next]_vars
             PROVE  InvitationUsedOnce'
  OBVIOUS
<1> USE DEF TypeOK, InvitationUsedOnce
<1>1. CASE UNCHANGED <<invitation, admitted>>
  BY <1>1
<1>2. ASSUME NEW r \in Requests, Admit(r) PROVE InvitationUsedOnce'
  <2>1. CASE UNCHANGED <<invitation, admitted>>
    BY <2>1
  <2>2. ASSUME StillOpen(req[r].inv), req[r].inv \in Invitations, req[r].user \in Users,
               invitation' = [invitation EXCEPT ![req[r].inv] = "accepted"],
               admitted' = admitted \cup {<<req[r].inv, req[r].user>>}
        PROVE  InvitationUsedOnce'
    <3>1. \A v \in Users : <<req[r].inv, v>> \notin admitted
      BY <2>2 DEF StillOpen
    <3> QED
      BY <2>2, <3>1
  <2> QED
    BY <1>2, <2>1, <2>2 DEF Admit, Named
<1>3. ASSUME NEW i \in Invitations, Expire(i) \/ Revoke(i) PROVE InvitationUsedOnce'
  <2>1. \A v \in Users : <<i, v>> \notin admitted
    BY <1>3 DEF Expire, Revoke
  <2> QED
    BY <1>3, <2>1 DEF Expire, Revoke
<1>4. ASSUME NEW r \in Requests, Start(r) PROVE UNCHANGED <<invitation, admitted>>
  BY <1>4 DEF Start, ReadRow, StartChange, StartAccept
<1>5. ASSUME NEW r \in Requests, Continue(r)
      PROVE  Admit(r) \/ UNCHANGED <<invitation, admitted>>
  BY <1>5 DEF Continue, Fill, GuardLastOwner, CountOwners, WriteMember, Invalidate, Fails
<1>6. ASSUME NEW u \in Users, EnsureOwner(u) \/ CacheExpires(u)
      PROVE  UNCHANGED <<invitation, admitted>>
  BY <1>6 DEF EnsureOwner, CacheExpires
<1> QED
  BY <1>1, <1>2, <1>3, <1>4, <1>5, <1>6 DEF Next, vars

\* For any number of acceptances and revocations at once an invitation admits
\* one person, and none once it is revoked: the transaction of Accept.
THEOREM InvitationUsedOnceHolds == Spec => []InvitationUsedOnce
<1>1. Init => TypeOK /\ Named /\ InvitationUsedOnce
  BY InitType, InitNamed DEF Init, InvitationUsedOnce
<1>2. TypeOK /\ Named /\ InvitationUsedOnce /\ [Next]_vars
         => (TypeOK /\ Named /\ InvitationUsedOnce)'
  BY TypeStep, NamedStep, UsedOnceStep
<1> QED
  BY <1>1, <1>2, PTL DEF Spec

-----------------------------------------------------------------------------
(* The last OWNER *)

\* A request about to write either saw that its member was no OWNER, or saw
\* another OWNER beside the member.
Decided ==
    \A r \in Requests : At(r, "write") =>
       \/ req[r].user \notin req[r].saw
       \/ \E other \in req[r].saw : other # req[r].user

LEMMA AnotherOwner ==
    ASSUME EnoughOwners, NEW u
    PROVE  \E other \in Owners : other # u
<1> SUFFICES ASSUME Owners \subseteq {u} PROVE FALSE
  OBVIOUS
<1>1. IsFiniteSet({u}) /\ Cardinality({u}) = 1
  BY FS_Singleton
<1>2. Cardinality(Owners) \in Nat /\ Cardinality(Owners) <= 1
  BY <1>1, FS_Subset, FS_CardinalityType
<1> QED
  BY <1>2 DEF EnoughOwners

LEMMA InitDecided == Init => Decided
<1> SUFFICES ASSUME Init, NEW r \in Requests PROVE ~At(r, "write")
  BY DEF Decided
<1> QED
  BY DEF Init, At, Idle

LEMMA DecidedStep == TypeOK /\ Decided /\ [Next]_vars => Decided'
<1> SUFFICES ASSUME TypeOK, Decided, [Next]_vars PROVE Decided'
  OBVIOUS
<1> USE DEF TypeOK, Decided, At
<1>1. ASSUME NEW r \in Requests, Start(r) PROVE Decided'
  BY <1>1, StartMoves
<1>2. ASSUME NEW r \in Requests, Continue(r) PROVE Decided'
  <2>1. PICK x \in RequestRecords :
           /\ req' = [req EXCEPT ![r] = x]
           /\ x = Idle \/ (x.pc = "write" => Decides(x))
    BY <1>2, ContinueMoves
  <2>2. x.pc = "write" => x.user \notin x.saw \/ \E other \in x.saw : other # x.user
    BY <2>1, AnotherOwner DEF Decides, Owners, Idle
  <2> QED
    BY <2>1, <2>2
<1>3. CASE UNCHANGED req
  BY <1>3
<1>4. ASSUME NEW u \in Users, EnsureOwner(u) \/ CacheExpires(u) PROVE UNCHANGED req
  BY <1>4 DEF EnsureOwner, CacheExpires
<1>5. ASSUME NEW i \in Invitations, Expire(i) \/ Revoke(i) PROVE UNCHANGED req
  BY <1>5 DEF Expire, Revoke
<1> QED
  BY <1>1, <1>2, <1>3, <1>4, <1>5 DEF Next, vars

\* What every step does to the owners.
LostToARace ==
    Owners # {} /\ Owners' = {} =>
       \E r \in Requests : At(r, "write") /\ ~At(r, "write")' /\ req[r].saw # Owners

\* A request that wrote, or answered, has no decided write left.
LEMMA WroteOrEnded ==
    ASSUME TypeOK, NEW r \in Requests,
           Fill(r) \/ WriteMember(r) \/ Invalidate(r) \/ Admit(r) \/ Fails(r)
    PROVE  req'[r].pc # "write" /\ \A q \in Requests \ {r} : req'[q] = req[q]
<1> DEFINE wrote == [req[r] EXCEPT !.pc = "uncache", !.saw = {}]
           answered == [req[r] EXCEPT !.pc = "uncache", !.inv = Nobody]
<1>1. req \in [Requests -> RequestRecords] /\ req[r] \in RequestRecords
  BY DEF TypeOK
<1>2. wrote.pc # "write" /\ answered.pc # "write" /\ Idle.pc # "write"
  BY <1>1 DEF RequestRecords, Idle
<1>3. \E x \in {wrote, answered, Idle} : req' = [req EXCEPT ![r] = x]
  BY <1>1 DEF Fill, WriteMember, Invalidate, Admit, Fails, End
<1> HIDE DEF wrote, answered
<1> QED
  BY <1>1, <1>2, <1>3

LEMMA WriteLosesToARace ==
    ASSUME TypeOK, Decided, NEW r \in Requests, WriteMember(r)
    PROVE  LostToARace
<1>1. CASE UNCHANGED role
  <2>1. Owners' = Owners
    BY <1>1 DEF Owners
  <2> QED
    BY <2>1 DEF LostToARace
<1>2. CASE role' = [role EXCEPT ![req[r].user] = req[r].to] /\ req[r].saw = Owners
  <2>1. CASE Owners = {}
    BY <2>1 DEF LostToARace
  <2>2. CASE Owners # {}
    <3>1. PICK other \in Owners : other # req[r].user
      BY <1>2, <2>2 DEF Decided, WriteMember
    <3>2. other \in Owners'
      BY <1>2, <3>1 DEF Owners, TypeOK
    <3> QED
      BY <3>2 DEF LostToARace
  <2> QED
    BY <2>1, <2>2
<1>3. CASE ~At(r, "write")' /\ req[r].saw # Owners
  BY <1>3 DEF LostToARace, WriteMember
<1>4. \/ UNCHANGED role
      \/ role' = [role EXCEPT ![req[r].user] = req[r].to] /\ ~At(r, "write")'
  BY WroteOrEnded DEF WriteMember, At
<1> QED
  BY <1>1, <1>2, <1>3, <1>4

LEMMA OwnersStep == TypeOK /\ Named /\ Decided /\ [Next]_vars => LostToARace
<1> SUFFICES ASSUME TypeOK, Named, Decided, [Next]_vars PROVE LostToARace
  OBVIOUS
<1>1. CASE Owners \subseteq Owners'
  BY <1>1 DEF LostToARace
<1>2. CASE UNCHANGED role
  BY <1>1, <1>2 DEF Owners
<1>3. ASSUME NEW r \in Requests, Start(r) PROVE UNCHANGED role
  BY <1>3 DEF Start, ReadRow, StartChange, StartAccept
<1>4. ASSUME NEW r \in Requests, Admit(r) PROVE Owners \subseteq Owners'
  <2>1. CASE UNCHANGED role
    BY <2>1 DEF Owners
  <2>2. CASE role[req[r].user] = NoRole /\ role' = [role EXCEPT ![req[r].user] = req[r].to]
    BY <2>2 DEF Owners, TypeOK, NoRole, Owner
  <2> QED
    BY <1>4, <2>1, <2>2 DEF Admit
<1>5. ASSUME NEW r \in Requests, Continue(r)
      PROVE  WriteMember(r) \/ Admit(r) \/ UNCHANGED role
  BY <1>5 DEF Continue, Fill, GuardLastOwner, CountOwners, Invalidate, Fails
<1>6. ASSUME NEW u \in Users, EnsureOwner(u) PROVE Owners \subseteq Owners'
  BY <1>6 DEF EnsureOwner, Owners, TypeOK
<1>7. ASSUME NEW u \in Users, CacheExpires(u) PROVE UNCHANGED role
  BY <1>7 DEF CacheExpires
<1>8. ASSUME NEW i \in Invitations, Expire(i) \/ Revoke(i) PROVE UNCHANGED role
  BY <1>8 DEF Expire, Revoke
<1> QED
  BY <1>1, <1>2, <1>3, <1>4, <1>5, <1>6, <1>7, <1>8, WriteLosesToARace DEF Next, vars

\* For any number of overlapping changes, the step that takes the last OWNER away
\* was decided on owners that were no longer the owners: guardLastOwner.
THEOREM LastOwnerLostOnlyToARaceHolds == Spec => LastOwnerLostOnlyToARace
<1>1. Init => TypeOK /\ Named /\ Decided
  BY InitType, InitNamed, InitDecided
<1>2. TypeOK /\ Named /\ Decided /\ [Next]_vars => (TypeOK /\ Named /\ Decided)'
  BY TypeStep, NamedStep, DecidedStep
<1>3. TypeOK /\ Named /\ Decided /\ [Next]_vars => [LostToARace]_vars
  BY OwnersStep
<1>4. [][LostToARace]_vars => LastOwnerLostOnlyToARace
  BY PTL DEF LostToARace, LastOwnerLostOnlyToARace
<1> QED
  BY <1>1, <1>2, <1>3, <1>4, PTL DEF Spec

-----------------------------------------------------------------------------
(* The last OWNER, when writes do not overlap *)

\* One change at a time between its decision and its write.  Nothing in the code
\* makes it so: it is what guardLastOwner needs to keep its word.
OneWriteAtATime == \A q, r \in Requests : At(q, "write") /\ At(r, "write") => q = r

\* An organization without an OWNER never had one: nobody is taken for an OWNER,
\* and no change, which only an OWNER starts, is under way.
NeverOwned ==
    Owners = {} =>
       /\ \A u \in Users : cache[u] # Owner
       /\ \A r \in Requests : /\ req[r].pc \notin {"guard", "count", "write"}
                              /\ At(r, "fill") => req[r].to # Owner

\* The owners a request decided on are owners still.
StillOwners == \A r \in Requests : At(r, "write") => req[r].saw # {} /\ req[r].saw \subseteq Owners

OwnerInv == Decided /\ NeverOwned /\ StillOwners

\* A change that was decided on people who are owners still leaves one of them.
LEMMA WriteLeavesOwner ==
    ASSUME TypeOK, OwnerInv, NEW r \in Requests, WriteMember(r)
    PROVE  Owners' # {}
<1>1. PICK other \in req[r].saw : other # req[r].user
  BY DEF OwnerInv, Decided, StillOwners, WriteMember
<1>2. other \in Owners
  BY DEF OwnerInv, StillOwners, WriteMember
<1>3. other \in Owners'
  <2>1. CASE UNCHANGED role
    BY <1>2, <2>1 DEF Owners
  <2>2. CASE role' = [role EXCEPT ![req[r].user] = req[r].to]
    BY <1>1, <1>2, <2>2 DEF Owners, TypeOK
  <2> QED
    BY <2>1, <2>2 DEF WriteMember
<1> QED
  BY <1>3

\* Every step but a write leaves every OWNER one.
LEMMA OnlyWritesRemove ==
    ASSUME TypeOK, Named, [Next]_vars, \A r \in Requests : ~WriteMember(r)
    PROVE  Owners \subseteq Owners'
<1>1. CASE UNCHANGED role
  BY <1>1 DEF Owners
<1>2. ASSUME NEW r \in Requests, Start(r) PROVE UNCHANGED role
  BY <1>2, StartMoves
<1>3. ASSUME NEW r \in Requests, Admit(r), ~UNCHANGED role PROVE Owners \subseteq Owners'
  <2>1. role[req[r].user] = NoRole /\ role' = [role EXCEPT ![req[r].user] = req[r].to]
    BY <1>3 DEF Admit
  <2> QED
    BY <2>1 DEF Owners, TypeOK, NoRole, Owner
<1>4. ASSUME NEW r \in Requests, Continue(r) PROVE Admit(r) \/ UNCHANGED role
  BY <1>4 DEF Continue, Fill, GuardLastOwner, CountOwners, Invalidate, Fails
<1>5. ASSUME NEW u \in Users, EnsureOwner(u) PROVE Owners \subseteq Owners'
  BY <1>5 DEF EnsureOwner, Owners, TypeOK
<1>6. ASSUME NEW u \in Users, CacheExpires(u) PROVE UNCHANGED role
  BY <1>6 DEF CacheExpires
<1>7. ASSUME NEW i \in Invitations, Expire(i) \/ Revoke(i) PROVE UNCHANGED role
  BY <1>7 DEF Expire, Revoke
<1> QED
  BY <1>1, <1>2, <1>3, <1>4, <1>5, <1>6, <1>7 DEF Next, vars

LEMMA OwnersKept ==
    TypeOK /\ Named /\ OwnerInv /\ [Next]_vars => (Owners # {} => Owners' # {})
<1>1. ASSUME TypeOK, Named, [Next]_vars, \A r \in Requests : ~WriteMember(r), Owners # {}
      PROVE  Owners' # {}
  BY <1>1, OnlyWritesRemove
<1> QED
  BY <1>1, WriteLeavesOwner

LEMMA NeverOwnedStep == TypeOK /\ Named /\ OwnerInv /\ [Next]_vars => NeverOwned'
<1> SUFFICES ASSUME TypeOK, Named, OwnerInv, [Next]_vars, Owners = {}, Owners' = {}
             PROVE  NeverOwned'
  BY OwnersKept DEF NeverOwned
<1>1. /\ \A u \in Users : cache[u] # Owner /\ role[u] # Owner
      /\ \A r \in Requests : /\ req[r].pc \notin {"guard", "count", "write"}
                             /\ At(r, "fill") => req[r].to # Owner
  BY DEF OwnerInv, NeverOwned, Owners
<1> USE DEF TypeOK, NeverOwned, At
<1>2. ASSUME NEW r \in Requests, Start(r) PROVE NeverOwned'
  <2>1. CASE \E u \in Users : ReadRow(r, u)
    BY <1>1, <2>1 DEF ReadRow, Begin, Idle
  <2>2. ASSUME NEW u \in Users, NEW target \in Users, NEW to \in Grantable \cup {NoRole},
               StartChange(r, u, target, to)
        PROVE  FALSE
    BY <1>1, <2>2 DEF StartChange, Seen
  <2>3. CASE \E u \in Users, i \in Invitations : StartAccept(r, i, u)
    BY <1>1, <2>3 DEF StartAccept, Idle
  <2> QED
    BY <1>2, <2>1, <2>2, <2>3 DEF Start
<1>3. ASSUME NEW r \in Requests, Continue(r) PROVE NeverOwned'
  <2>1. CASE Fill(r)
    BY <1>1, <2>1 DEF Fill, End, Idle
  <2>2. CASE Invalidate(r)
    <3>1. AfterWrite(r) # Owner
      BY DEF AfterWrite, NoRole, Nothing, Owner
    <3>2. \A u \in Users : cache'[u] # Owner
      BY <1>1, <2>2, <3>1 DEF Invalidate
    <3> QED
      BY <1>1, <2>2, <3>2 DEF Invalidate, End, Idle
  <2>3. CASE Admit(r)
    <3>1. UNCHANGED cache /\ (End(r) \/ req' = [req EXCEPT ![r] = [@ EXCEPT !.pc = "uncache",
                                                                            !.inv = Nobody]])
      BY <2>3 DEF Admit
    <3>2. CASE End(r)
      BY <1>1, <3>1, <3>2 DEF End, Idle
    <3>3. CASE req' = [req EXCEPT ![r] = [@ EXCEPT !.pc = "uncache", !.inv = Nobody]]
      <4>1. /\ req'[r].pc = "uncache"
            /\ \A q \in Requests \ {r} : req'[q] = req[q]
        BY <3>3 DEF RequestRecords
      <4> QED
        BY <1>1, <3>1, <4>1
    <3> QED
      BY <3>1, <3>2, <3>3
  <2>4. CASE Fails(r)
    BY <1>1, <2>4 DEF Fails, End, Idle
  <2> QED
    BY <1>1, <1>3, <2>1, <2>2, <2>3, <2>4
       DEF Continue, GuardLastOwner, CountOwners, WriteMember
<1>4. ASSUME NEW u \in Users, EnsureOwner(u) PROVE FALSE
  BY <1>4 DEF EnsureOwner, Owners
<1>5. ASSUME NEW u \in Users, CacheExpires(u) PROVE NeverOwned'
  BY <1>1, <1>5 DEF CacheExpires, Nothing, Owner
<1>6. CASE UNCHANGED <<cache, req>>
  BY <1>1, <1>6
<1>7. ASSUME NEW i \in Invitations, Expire(i) \/ Revoke(i) PROVE UNCHANGED <<cache, req>>
  BY <1>7 DEF Expire, Revoke
<1> QED
  BY <1>2, <1>3, <1>4, <1>5, <1>6, <1>7 DEF Next, vars

LEMMA StillOwnersStep ==
    TypeOK /\ Named /\ OwnerInv /\ OneWriteAtATime /\ [Next]_vars => StillOwners'
<1> SUFFICES ASSUME TypeOK, Named, OwnerInv, OneWriteAtATime, [Next]_vars PROVE StillOwners'
  OBVIOUS
<1> USE DEF At
<1>1. ASSUME NEW r \in Requests, WriteMember(r) PROVE StillOwners'
  <2>1. \A q \in Requests \ {r} : req'[q] = req[q] /\ req[q].pc # "write"
    BY <1>1 DEF WriteMember, End, TypeOK, OneWriteAtATime
  <2>2. req'[r].pc # "write"
    BY <1>1, WroteOrEnded
  <2> QED
    BY <2>1, <2>2 DEF StillOwners
<1>2. CASE \A r \in Requests : ~WriteMember(r)
  <2>1. Owners \subseteq Owners'
    BY <1>2, OnlyWritesRemove
  <2>2. ASSUME NEW r \in Requests, NEW x \in RequestRecords, req' = [req EXCEPT ![r] = x],
               x.pc = "write" => x.saw # {} /\ x.saw \subseteq Owners
        PROVE  StillOwners'
    BY <2>1, <2>2 DEF StillOwners, OwnerInv, TypeOK
  <2>3. ASSUME NEW r \in Requests, Start(r) PROVE StillOwners'
    BY <2>2, <2>3, StartMoves
  <2>4. ASSUME NEW r \in Requests, Continue(r) PROVE StillOwners'
    <3>1. PICK x \in RequestRecords :
             req' = [req EXCEPT ![r] = x] /\ (x = Idle \/ (x.pc = "write" => Decides(x)))
      BY <2>4, ContinueMoves
    <3>2. x.pc = "write" => x.saw = Owners
      BY <3>1 DEF Idle, Decides
    <3>3. CASE GuardLastOwner(r) \/ CountOwners(r)
      <4>1. Owners # {}
        BY <3>3 DEF OwnerInv, NeverOwned, GuardLastOwner, CountOwners
      <4> QED
        BY <2>2, <3>1, <3>2, <4>1
    <3>4. CASE ~(GuardLastOwner(r) \/ CountOwners(r))
      <4>1. req'[r].pc # "write"
        BY <1>2, <2>4, <3>4, WroteOrEnded DEF Continue
      <4> QED
        BY <2>2, <3>1, <4>1 DEF TypeOK
    <3> QED
      BY <3>3, <3>4
  <2>5. CASE UNCHANGED req
    BY <2>1, <2>5 DEF StillOwners, OwnerInv
  <2>6. ASSUME NEW u \in Users, EnsureOwner(u) \/ CacheExpires(u) PROVE UNCHANGED req
    BY <2>6 DEF EnsureOwner, CacheExpires
  <2>7. ASSUME NEW i \in Invitations, Expire(i) \/ Revoke(i) PROVE UNCHANGED req
    BY <2>7 DEF Expire, Revoke
  <2> QED
    BY <2>3, <2>4, <2>5, <2>6, <2>7 DEF Next, vars
<1> QED
  BY <1>1, <1>2

\* An organization that has an OWNER keeps one.
OwnerKept == [][Owners # {} => Owners' # {}]_vars

\* What guardLastOwner is there for (it "blocks any change that would drop
\* the last OWNER") is true when no other change writes between a change's decision and
\* its write; links, acceptances, stale caches and failures cannot spoil it.
THEOREM OwnerKeptIfWritesAreSerial == Spec /\ []OneWriteAtATime => OwnerKept
<1>1. Init => TypeOK /\ Named /\ OwnerInv
  <2>1. Init => NeverOwned /\ StillOwners
    <3> SUFFICES ASSUME Init PROVE NeverOwned /\ StillOwners
      OBVIOUS
    <3>1. \A r \in Requests : req[r].pc = "idle"
      BY DEF Init, Idle
    <3>2. \A u \in Users : cache[u] # Owner
      BY DEF Init, Nothing, Owner
    <3> QED
      BY <3>1, <3>2 DEF NeverOwned, StillOwners, At
  <2> QED
    BY <2>1, InitType, InitNamed, InitDecided DEF OwnerInv
<1>2. TypeOK /\ Named /\ OwnerInv /\ OneWriteAtATime /\ [Next]_vars
         => (TypeOK /\ Named /\ OwnerInv)'
  BY TypeStep, NamedStep, DecidedStep, NeverOwnedStep, StillOwnersStep DEF OwnerInv
<1>3. TypeOK /\ Named /\ OwnerInv /\ [Next]_vars => [Owners # {} => Owners' # {}]_vars
  BY OwnersKept
<1> QED
  BY <1>1, <1>2, <1>3, PTL DEF Spec, OwnerKept

=============================================================================
