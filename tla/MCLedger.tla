------------------------------ MODULE MCLedger ------------------------------
(* Instances of LedgerClients: the coordinator's own device and one subordinate. *)
EXTENDS LedgerClients

CONSTANTS home, helper    \* the devices
=============================================================================
