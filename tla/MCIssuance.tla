----------------------------- MODULE MCIssuance -----------------------------
(* Small instances of Issuance for TLC. *)
EXTENDS Issuance, TLC

\* Requests of one kind are interchangeable: no action or property names one.
MCSymmetry == Permutations(Emissions)

=============================================================================
