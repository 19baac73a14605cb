----------------------------- MODULE MCTphipLink -----------------------------
(* Suites and adversaries for the runs of TphipLink.                        *)
EXTENDS TphipLink

\* The probe's whole suite: ten valid exchanges and the five error tests.
FullSuite ==
  [ i \in 1 .. 10 |-> ValidExchange(i) ] \o
  << UnknownVersion(1001), ReservedFlags(1002), OversizedPayload(1003),
     BadCrc(1004), UnknownOpcode(1005) >>

\* Two valid exchanges with neighbouring sequences, then an error test.
ShortSuite == << ValidExchange(1), ValidExchange(2), BadCrc(3) >>

NoFaults   == {}
AllFaults  == FaultKinds
\* The faults the protocol absorbs.
MildFaults == {"garble", "dwm_arm", "ready_set"}
=============================================================================
