----------------------------- MODULE QuotaLedger -----------------------------
(***************************************************************************)
(* What the usage counters of an account promise, with no counter in       *)
(* sight: in every period the documents that hold a unit of the plan's     *)
(* quota never outnumber its limit, a document holds at most one unit, and *)
(* a unit that was given back is never given to the same document again.   *)
(* Issuance is shown to implement this module.                             *)
(***************************************************************************)
EXTENDS Integers, FiniteSets

CONSTANTS
    Docs,     \* the documents that may ask for a unit
    Periods,  \* the usage periods
    Limit     \* units per period; negative: unlimited

VARIABLES
    granted,  \* granted[p]: the documents holding a unit of period p
    returned  \* the documents whose unit was given back

vars == <<granted, returned>>

Init ==
    /\ granted = [p \in Periods |-> {}]
    /\ returned = {}

\* A document takes a unit of the period, if the plan has one left.
Grant(d, p) ==
    /\ d \notin returned
    /\ \A q \in Periods : d \notin granted[q]
    /\ Limit < 0 \/ Cardinality(granted[p]) < Limit
    /\ granted' = [granted EXCEPT ![p] = @ \union {d}]
    /\ UNCHANGED returned

\* The document's own unit goes back to the period it was taken from.
GiveBack(d, p) ==
    /\ d \in granted[p]
    /\ granted' = [granted EXCEPT ![p] = @ \ {d}]
    /\ returned' = returned \union {d}

Next == \E d \in Docs, p \in Periods : Grant(d, p) \/ GiveBack(d, p)

Spec == Init /\ [][Next]_vars
=============================================================================
