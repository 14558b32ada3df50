---------------------------- MODULE MCDfeWorker ----------------------------
(* Small instances of DfeWorker for TLC. *)
EXTENDS DfeWorker, TLC

CONSTANT d1

MCNoEvents == [e \in {} |-> d1]
MCDocOf == [e \in Events |-> d1]

=============================================================================
