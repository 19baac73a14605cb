------------------------------ MODULE TphipRpc ------------------------------
(***************************************************************************)
(* What the wired host interface promises, without its wires: the host     *)
(* works through a suite of numbered tests, one at a time; the endpoint    *)
(* may answer a test that has been reached, even one already given up;     *)
(* and a pass of a witnessed test is only ever recorded once the endpoint  *)
(* has answered that test since the host's last power-on.                  *)
(***************************************************************************)
EXTENDS Naturals

CONSTANTS
  Size,       \* how many tests the suite has
  Witnessed   \* the tests whose pass proves that they were answered

VARIABLES session, turn, answered, verdict

rpcVars == <<session, turn, answered, verdict>>

Blank == [i \in 1 .. Size |-> "none"]

RpcInit ==
  /\ session = 1
  /\ turn = 1
  /\ answered = {}
  /\ verdict = Blank

Answer ==
  /\ \E i \in 1 .. Size : i <= turn /\ answered' = answered \cup {i}
  /\ UNCHANGED <<session, turn, verdict>>

Record(v) ==
  /\ turn \in 1 .. Size
  /\ verdict' = [verdict EXCEPT ![turn] = v]
  /\ turn' = turn + 1
  /\ UNCHANGED <<session, answered>>

Pass ==
  /\ turn \in Witnessed => turn \in answered
  /\ Record("pass")

Restart ==
  /\ session' = session + 1
  /\ turn' = 1
  /\ answered' = {}
  /\ verdict' = Blank

RpcNext == Answer \/ Pass \/ Record("fail") \/ Restart

RpcSpec == RpcInit /\ [][RpcNext]_rpcVars
=============================================================================
