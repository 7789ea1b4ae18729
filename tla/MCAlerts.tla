------------------------------ MODULE MCAlerts ------------------------------
(* TLC instance of Alerts.                                                 *)
EXTENDS Alerts
=============================================================================
