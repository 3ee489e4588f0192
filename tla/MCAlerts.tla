------------------------------ MODULE MCAlerts ------------------------------
(* Small instances of Alerts for TLC. *)
EXTENDS Alerts, TLC

CONSTANTS r1, r2, off, low

TwoDefaults == r1 :> off @@ r2 :> low
=============================================================================
