------------------------------ MODULE MCErasure ------------------------------
(* Small instances of Erasure for TLC. *)
EXTENDS Erasure, TLC

CONSTANTS c1, e1, d1

\* One company with a job of each kind.
MCJobOf == [j \in Jobs |-> c1]
MCKindOf == e1 :> "emission" @@ d1 :> "distribution"

=============================================================================
