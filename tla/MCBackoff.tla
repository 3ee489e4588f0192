----------------------------- MODULE MCBackoff -----------------------------
(* Backoff with every value of the jitter. *)
EXTENDS Backoff

AllJitters == 0 .. 99
=============================================================================
