---------------------------- MODULE MCMembership ----------------------------
(* Small instances of Membership for TLC. *)
EXTENDS Membership

CONSTANT admin

\* Every invitation is for an administrator.
MCInvitedRole == [i \in Invitations |-> admin]

=============================================================================
