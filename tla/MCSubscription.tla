--------------------------- MODULE MCSubscription ---------------------------
(***************************************************************************)
(* A small instance of Subscription for TLC; the .cfg gives the values.    *)
(* One request and one delivery: two deliveries would read billing in one  *)
(* order and put in the other, the exception GateCatchesUp makes.          *)
(***************************************************************************)
EXTENDS Subscription

=============================================================================
