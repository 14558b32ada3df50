--------------------------- MODULE MCDistribution ---------------------------
(* Small instances of Distribution for TLC. *)
EXTENDS Distribution, TLC

\* A user's job is retried.  The dispatcher's jobs start again anyway, and a
\* look-up that is made again is another look-up.
MCMaxAttempts == [j \in Jobs |-> IF j \in Syncs THEN 2 ELSE 1]

=============================================================================
