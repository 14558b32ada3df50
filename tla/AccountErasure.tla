--------------------------- MODULE AccountErasure ---------------------------
(***************************************************************************)
(* What the system promises of a deleted account, with no queue, lock,     *)
(* delivery or settle window in sight.  What is held of each company goes, *)
(* in any order and with jobs still adding to it, until the company is     *)
(* sealed, empty, for good; only then may it leave the list by which it is *)
(* found.  The account's own rows go after the last company, and the       *)
(* request is answered once, when nothing is left.  Erasure is shown to    *)
(* implement this module.                                                  *)
(***************************************************************************)
CONSTANT Companies   \* the companies of the account

VARIABLES
    holds,     \* holds[c]: the kinds of data held of the company
    listed,    \* the companies that can be found from the account
    sealed,    \* the companies that take no data any more
    account,   \* the account's own rows that are left
    answered   \* the request was answered and its message deleted

vars == <<holds, listed, sealed, account, answered>>

Kinds == {"rows", "objects", "claims"}

Init ==
    /\ holds = [c \in Companies |-> Kinds]
    /\ listed = Companies
    /\ sealed = {}
    /\ account = {"billing", "person"}
    /\ answered = FALSE

\* A job of the company writes; none does once the company is sealed.
Write(c, kinds) ==
    /\ c \notin sealed
    /\ holds' = [holds EXCEPT ![c] = @ \union kinds]
    /\ UNCHANGED <<listed, sealed, account, answered>>

\* What can be found is removed.
Remove(c, kinds) ==
    /\ c \in listed
    /\ holds' = [holds EXCEPT ![c] = @ \ kinds]
    /\ UNCHANGED <<listed, sealed, account, answered>>

Seal(c) ==
    /\ holds[c] = {}
    /\ sealed' = sealed \union {c}
    /\ UNCHANGED <<holds, listed, account, answered>>

Delist(c) ==
    /\ c \in sealed
    /\ listed' = listed \ {c}
    /\ UNCHANGED <<holds, sealed, account, answered>>

\* The account's rows, billing's before the person's.
Forget(part) ==
    /\ listed = {}
    /\ part = "person" => "billing" \notin account
    /\ account' = account \ {part}
    /\ UNCHANGED <<holds, listed, sealed, answered>>

Answer ==
    /\ listed = {} /\ account = {}
    /\ answered' = TRUE
    /\ UNCHANGED <<holds, listed, sealed, account>>

Next ==
    \/ \E c \in Companies :
          \/ \E kinds \in SUBSET Kinds : Write(c, kinds) \/ Remove(c, kinds)
          \/ Seal(c) \/ Delist(c)
    \/ \E part \in {"billing", "person"} : Forget(part)
    \/ Answer

Spec == Init /\ [][Next]_vars

\* What follows: a sealed company holds nothing, one that cannot be found is
\* sealed, and an answered request leaves nothing of the account behind.
Consistent ==
    /\ \A c \in sealed : holds[c] = {}
    /\ \A c \in Companies : c \in listed \/ c \in sealed
    /\ account # {"billing", "person"} => listed = {}
    /\ answered => account = {} /\ \A c \in Companies : holds[c] = {}
=============================================================================
