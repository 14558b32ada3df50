----------------------------- MODULE Membership -----------------------------
(***************************************************************************)
(* Who belongs to an organization, and as what: the membership rows, the   *)
(* cache in front of them that backs every authorization, and the          *)
(* invitations.  Requests overlap: linking a company created in            *)
(* ctech-account, changing a role, removing a member, accepting an         *)
(* invitation, and reading a membership.  Every request may stop after any *)
(* of its calls.  One organization; rows are read consistently.            *)
(***************************************************************************)
EXTENDS Naturals, FiniteSets

CONSTANTS Users,         \* people ctech-account lets act for the company
          Grantable,     \* the roles member management may hand out
          Invitations,
          InvitedRole,   \* the role an invitation grants
          Requests,      \* requests at once, each of any kind, again and again
          Nobody

Owner == "OWNER"
NoRole == "none"         \* no row; in the cache, the tombstone
Nothing == "empty"       \* nothing cached

ASSUME MembershipAssumption ==
    /\ IsFiniteSet(Users) /\ Nobody \notin Users
    /\ InvitedRole \in [Invitations -> Grantable]
    /\ {Owner, NoRole, Nothing} \cap Grantable = {}

VARIABLES
    role,         \* role[u]: the membership row
    cache,        \* cache[u]: what Get answers without reading the row
    invitation,   \* expired: the row still says PENDING
    admitted,     \* history: <<invitation, user>> of every acceptance
    req           \* the requests

vars == <<role, cache, invitation, admitted, req>>

Roles == {Owner} \cup Grantable
Rows == Roles \cup {NoRole}
Owners == {u \in Users : role[u] = Owner}

Idle == [pc |-> "idle", user |-> Nobody, to |-> NoRole, inv |-> Nobody, saw |-> {}]

\* user: whom the request is about; to: the role it writes, or the row it read;
\* saw: history, the owners when it last read a row.
RequestRecords ==
    [pc : {"idle", "guard", "count", "write", "uncache", "admit", "fill"},
     user : Users \cup {Nobody}, to : Rows, inv : Invitations \cup {Nobody},
     saw : SUBSET Users]

At(r, pc) == req[r].pc = pc
Goto(r, pc) == req' = [req EXCEPT ![r].pc = pc]
End(r) == req' = [req EXCEPT ![r] = Idle]
Begin(r, pc, u, to) ==
    /\ At(r, "idle")
    /\ req' = [req EXCEPT ![r] = [Idle EXCEPT !.pc = pc, !.user = u, !.to = to]]

\* An organization made here has its owner from the start: one transaction.  A
\* company to be linked has nobody yet.
Init ==
    /\ \E founder \in Users \cup {Nobody} :
          role = [u \in Users |-> IF u = founder THEN Owner ELSE NoRole]
    /\ cache = [u \in Users |-> Nothing]
    /\ invitation = [i \in Invitations |-> "pending"]
    /\ admitted = {}
    /\ req = [r \in Requests |-> Idle]

-----------------------------------------------------------------------------
(* Reading a membership: the cache first; a miss reads the row and fills the   *)
(* cache with it, or with a tombstone.                                         *)

\* Mutant: only a tombstone has a time to live.
TombstoneExpires(u) ==
    /\ cache[u] = NoRole
    /\ cache' = [cache EXCEPT ![u] = Nothing]
    /\ UNCHANGED <<role, invitation, admitted, req>>

CacheExpires(u) ==
    /\ cache[u] # Nothing
    /\ cache' = [cache EXCEPT ![u] = Nothing]
    /\ UNCHANGED <<role, invitation, admitted, req>>

ReadRow(r, u) ==
    /\ cache[u] = Nothing
    /\ Begin(r, "fill", u, role[u])
    /\ UNCHANGED <<role, cache, invitation, admitted>>

\* Whatever was written since the row was read; a failure is logged.
Fill(r) ==
    /\ At(r, "fill")
    /\ cache' \in {cache, [cache EXCEPT ![req[r].user] = req[r].to]}
    /\ End(r)
    /\ UNCHANGED <<role, invitation, admitted>>

\* What the gate of another request sees; its own reading of the row is a
\* request like any other.
Seen(u) == IF cache[u] = Nothing THEN role[u] ELSE cache[u]

\* Mutant: a role the table of roles does not know.
EnsureManager(u) ==
    /\ role[u] = NoRole
    /\ role' = [role EXCEPT ![u] = "MANAGER"]
    /\ UNCHANGED <<cache, invitation, admitted, req>>

\* Linking a company makes the caller OWNER.  Its other calls find the company's
\* item, or put it: no row depends on them.  The cache is not told.
EnsureOwner(u) ==
    /\ role[u] = NoRole
    /\ role' = [role EXCEPT ![u] = Owner]
    /\ UNCHANGED <<cache, invitation, admitted, req>>

-----------------------------------------------------------------------------
(* Changing a role, or removing a member: "to" is NoRole for a removal *)

\* Only an OWNER, and nobody removes themselves.
StartChange(r, actor, target, to) ==
    /\ Seen(actor) = Owner
    /\ to = NoRole => actor # target
    /\ Begin(r, "guard", target, to)
    /\ UNCHANGED <<role, cache, invitation, admitted>>

\* guardLastOwner reads the member, and counts only for an OWNER.
GuardLastOwner(r) ==
    /\ At(r, "guard")
    /\ req' = [req EXCEPT ![r] = [@ EXCEPT !.pc = IF role[req[r].user] = Owner THEN "count" ELSE "write",
                                           !.saw = Owners]]
    /\ UNCHANGED <<role, cache, invitation, admitted>>

\* Mutant: an owner too few is enough.
EnoughOwnersOffByOne == Cardinality(Owners) > 0

EnoughOwners == Cardinality(Owners) > 1

CountOwners(r) ==
    /\ At(r, "count")
    /\ IF EnoughOwners
       THEN req' = [req EXCEPT ![r] = [@ EXCEPT !.pc = "write", !.saw = Owners]]
       ELSE End(r)
    /\ UNCHANGED <<role, cache, invitation, admitted>>

\* Both writes are conditional on the row.
Writable(u) == role[u] # NoRole

WriteMember(r) ==
    /\ At(r, "write")
    /\ IF Writable(req[r].user)
       THEN /\ role' = [role EXCEPT ![req[r].user] = req[r].to]
            /\ req' = [req EXCEPT ![r] = [@ EXCEPT !.pc = "uncache", !.saw = {}]]
       ELSE End(r) /\ UNCHANGED role
    /\ UNCHANGED <<cache, invitation, admitted>>

\* A removal leaves a tombstone, anything else an empty entry.
AfterWrite(r) == IF req[r].to = NoRole THEN NoRole ELSE Nothing

\* A failure is logged.
Invalidate(r) ==
    /\ At(r, "uncache")
    /\ cache' \in {cache, [cache EXCEPT ![req[r].user] = AfterWrite(r)]}
    /\ End(r)
    /\ UNCHANGED <<role, invitation, admitted>>

-----------------------------------------------------------------------------
(* Invitations *)

Expire(i) ==
    /\ invitation[i] = "pending"
    /\ invitation' = [invitation EXCEPT ![i] = "expired"]
    /\ UNCHANGED <<role, cache, admitted, req>>

\* Revoked by an administrator, or declined.
Revoke(i) ==
    /\ invitation[i] \in {"pending", "expired"}
    /\ invitation' = [invitation EXCEPT ![i] = "revoked"]
    /\ UNCHANGED <<role, cache, admitted, req>>

\* The membership is looked up too, but an error of it is taken for none.
StartAccept(r, i, u) ==
    /\ invitation[i] = "pending"
    /\ At(r, "idle")
    /\ req' = [req EXCEPT ![r] = [Idle EXCEPT !.pc = "admit", !.user = u, !.inv = i,
                                              !.to = InvitedRole[i]]]
    /\ UNCHANGED <<role, cache, invitation, admitted>>

\* Mutant: the read of the status is all there is.
StillOpenAlways(i) == i \in Invitations

\* PENDING, and before the row's ttl: two days after it expires.
StillOpen(i) == invitation[i] \in {"pending", "expired"}

\* The invitation and the row in one transaction, each with its condition.
Admit(r) ==
    /\ At(r, "admit")
    /\ LET u == req[r].user
           i == req[r].inv
       IN IF StillOpen(i) /\ role[u] = NoRole
          THEN /\ role' = [role EXCEPT ![u] = req[r].to]
               /\ invitation' = [invitation EXCEPT ![i] = "accepted"]
               /\ admitted' = admitted \cup {<<i, u>>}
               /\ req' = [req EXCEPT ![r] = [@ EXCEPT !.pc = "uncache", !.inv = Nobody]]
          ELSE End(r) /\ UNCHANGED <<role, invitation, admitted>>
    /\ UNCHANGED cache

\* An error, or the end of the process.
Fails(r) ==
    /\ ~At(r, "idle")
    /\ End(r)
    /\ UNCHANGED <<role, cache, invitation, admitted>>

-----------------------------------------------------------------------------
Start(r) ==
    \E u \in Users :
       \/ ReadRow(r, u)
       \/ \E target \in Users, to \in Grantable \cup {NoRole} : StartChange(r, u, target, to)
       \/ \E i \in Invitations : StartAccept(r, i, u)

Continue(r) ==
    \/ Fill(r)
    \/ GuardLastOwner(r) \/ CountOwners(r) \/ WriteMember(r) \/ Invalidate(r)
    \/ Admit(r) \/ Fails(r)

Next ==
    \/ \E r \in Requests : Start(r) \/ Continue(r)
    \/ \E u \in Users : EnsureOwner(u) \/ CacheExpires(u)
    \/ \E i \in Invitations : Expire(i) \/ Revoke(i)

Spec == Init /\ [][Next]_vars

\* A request ends, and an entry expires.
Fairness ==
    /\ \A r \in Requests : WF_vars(Continue(r))
    /\ \A u \in Users : WF_vars(CacheExpires(u))

FairSpec == Spec /\ Fairness

-----------------------------------------------------------------------------
(* Properties *)

\* Every variable has its type: the one type invariant of the module.
TypeOK ==
    /\ role \in [Users -> Rows]
    /\ cache \in [Users -> Rows \cup {Nothing}]
    /\ invitation \in [Invitations -> {"pending", "expired", "accepted", "revoked"}]
    /\ admitted \subseteq Invitations \X Users
    /\ req \in [Requests -> RequestRecords]

\* An invitation admits one person, and none once it is revoked, whoever presses
\* the link at the same time: "single-use semantics even under concurrent accepts".
InvitationUsedOnce ==
    \A i \in Invitations, u \in Users : <<i, u>> \in admitted =>
       /\ invitation[i] = "accepted"
       /\ \A v \in Users : <<i, v>> \in admitted => v = u

\* An organization loses its last OWNER only to a change that was decided before
\* the owners changed: guardLastOwner, whose count and write are separate calls.
LastOwnerLostOnlyToARace ==
    [][Owners # {} /\ Owners' = {} =>
          \E r \in Requests : At(r, "write") /\ ~At(r, "write")' /\ req[r].saw # Owners]_vars

\* Access follows the row: whatever reads were under way when a row was written,
\* and whatever invalidation failed, the cache ends up silent or right.
AccessCatchesUp ==
    \A u \in Users :
       <>[][role'[u] = role[u]]_vars => <>[](cache[u] \in {Nothing, role[u]})

=============================================================================
