---------------------------- MODULE MCRfEvidence ----------------------------
(* Adversaries for the runs of RfExchange and RfEvidence.                   *)
EXTENDS RfEvidence

AllDisturbances == DisturbanceKinds
\* A status bit seen too late, and a restarted gateway.
TwoPowerOns == {"tx_status", "gateway_restart"}
=============================================================================
