--------------------------- MODULE FiscalDocument ---------------------------
(***************************************************************************)
(* What the system promises of an issued document, with no queue, lease,   *)
(* attempt or message in sight.  SEFAZ holds facts about a document, which *)
(* are never taken back; the row is decided once and says nothing SEFAZ    *)
(* does not hold; and billing learns what the row says.  Only two things   *)
(* reopen a decision: a dead-lettered message, and a user who asks for an  *)
(* event of an authorized document.  DfeWorker is shown to implement this  *)
(* module.                                                                 *)
(***************************************************************************)
CONSTANT Docs   \* the issued documents

VARIABLES
    sefaz,     \* sefaz[d]: "authorized", "cancelled", "closed", as far as SEFAZ holds them
    stored,    \* the documents whose processed XML is stored
    row,       \* row[d]: what the row says of the document; "open" while undecided
    overruled, \* the documents with a dead-lettered message
    asked,     \* the documents some user has asked an event of
    reported,  \* the documents whose usage was reported
    returned   \* the documents whose quota unit was given back

vars == <<sefaz, stored, row, overruled, asked, reported, returned>>

Decisions == {"authorized", "rejected", "failed"}
Endings == {"cancelled", "closed"}

Init ==
    /\ sefaz = [d \in Docs |-> {}]
    /\ row = [d \in Docs |-> "open"]
    /\ stored = {}
    /\ overruled = {}
    /\ asked = {}
    /\ reported = {}
    /\ returned = {}

\* Nothing but the normal course has touched the document.
Undisturbed(d) == d \notin overruled \union asked

\* What a row may say of a document: a fact only if SEFAZ holds it and the XML
\* is stored.
Truthful(d, s) == s \in {"open", "rejected", "failed"} \/ (s \in sefaz[d] /\ d \in stored)

Says(d, s) == row' = [row EXCEPT ![d] = s]

\* SEFAZ authorizes the document, or ends an authorized one, for good.
Holds(d, fact) ==
    /\ sefaz' = [sefaz EXCEPT ![d] = @ \union {fact}]
    /\ UNCHANGED <<stored, row, overruled, asked, reported, returned>>

Authorize(d) == sefaz[d] = {} /\ Holds(d, "authorized")

Register(d, fact) ==
    /\ d \in asked
    /\ sefaz[d] = {"authorized"}
    /\ Holds(d, fact)

Store(d) ==
    /\ "authorized" \in sefaz[d]
    /\ stored' = stored \union {d}
    /\ UNCHANGED <<sefaz, row, overruled, asked, reported, returned>>

\* The decision on an open row.
Decide(d, s) ==
    /\ row[d] = "open"
    /\ Truthful(d, s)
    /\ Says(d, s)
    /\ UNCHANGED <<sefaz, stored, overruled, asked, reported, returned>>

\* A row that is no longer in its normal course may say anything but a lie.
Revise(d, s) ==
    /\ ~Undisturbed(d)
    /\ Truthful(d, s)
    /\ Says(d, s)
    /\ UNCHANGED <<sefaz, stored, overruled, asked, reported, returned>>

\* A message of the document is dead-lettered.
Overrule(d) ==
    /\ overruled' = overruled \union {d}
    /\ Says(d, "failed")
    /\ UNCHANGED <<sefaz, stored, asked, reported, returned>>

\* A user asks for an event of a document whose row calls it authorized.
Ask(d) ==
    /\ row[d] = "authorized"
    /\ asked' = asked \union {d}
    /\ UNCHANGED <<sefaz, stored, row, overruled, reported, returned>>

\* Usage is reported of a document SEFAZ authorized, and, in the normal course,
\* whose row says so.
Report(d) ==
    /\ "authorized" \in sefaz[d]
    /\ Undisturbed(d) => row[d] = "authorized"
    /\ reported' = reported \union {d}
    /\ UNCHANGED <<sefaz, stored, row, overruled, asked, returned>>

\* The unit of a document that was not authorized goes back.
Return(d) ==
    /\ Undisturbed(d) => row[d] \in {"rejected", "failed"}
    /\ returned' = returned \union {d}
    /\ UNCHANGED <<sefaz, stored, row, overruled, asked, reported>>

Next ==
    \E d \in Docs :
        \/ Authorize(d) \/ Store(d) \/ Overrule(d) \/ Ask(d) \/ Report(d) \/ Return(d)
        \/ \E fact \in Endings : Register(d, fact)
        \/ \E s \in Decisions : Decide(d, s)
        \/ \E s \in Decisions \union Endings \union {"open"} : Revise(d, s)

Spec == Init /\ [][Next]_vars

\* What follows: SEFAZ ends a document one way at most, the row never lies, no
\* usage is billed of a document SEFAZ did not authorize, and billing is not
\* told two things unless the document left its normal course.
Consistent ==
    \A d \in Docs :
        /\ sefaz[d] \in {{}, {"authorized"}} \union {{"authorized", fact} : fact \in Endings}
        /\ Truthful(d, row[d])
        /\ d \in reported => "authorized" \in sefaz[d]
        /\ Undisturbed(d) => ~(d \in reported /\ d \in returned)
=============================================================================
