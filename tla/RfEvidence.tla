----------------------------- MODULE RfEvidence -----------------------------
(***************************************************************************)
(* The logs of the RF proof and their checker                              *)
(* (scripts/check_dw3110_rf_exchange.py): a record is accepted when a      *)
(* passing transmitter summary and a passing receiver summary share their  *)
(* sequence window and each log holds the passing lines of SuiteFrames     *)
(* frames.  The logs are captured by a debugger and outlive every restart; *)
(* it may be attached late, fall behind or be stopped in the middle of a   *)
(* line.  Every line says result= last, so a line that is cut does not     *)
(* pass and is the same to the checker as one that is lost.  The checker   *)
(* reads the logs several times, but they only grow: it is one step.       *)
(* Name_Something is a wrong version of Name that the properties notice.   *)
(***************************************************************************)
EXTENDS RfExchange

CONSTANT MaxLostLines   \* bound: how many passing lines are not captured

ASSUME EvidenceAssumption == MaxLostLines \in Nat

VARIABLES
  txLog, rxLog,        \* the passing summaries in each log
  txPasses, rxPasses,  \* its passing frame lines, counted to SuiteFrames + 1
  lost,                \* history: how many passing lines were not captured
  capturing            \* the loggers run

evidenceVars == <<txLog, rxLog, txPasses, rxPasses, lost, capturing, rfVars>>

EvidenceInit ==
  /\ RfInit
  /\ txLog = {} /\ rxLog = {} /\ txPasses = 0 /\ rxPasses = 0
  /\ lost = 0 /\ capturing = TRUE

-----------------------------------------------------------------------------
\* summaries: the lines of one kind whose fields pass
Summaries(log, kind, lines) == log \cup { l \in lines : l.kind = kind }

\* count_result_lines
Counted(passes, kind, lines) ==
  IF FrameLine(kind) \in lines /\ passes <= SuiteFrames THEN passes + 1 ELSE passes

Capture ==
  /\ capturing' = TRUE
  /\ \E missed \in SUBSET printed' :
       LET lines == printed' \ missed
       IN  /\ lost' = lost + Cardinality(missed)
           /\ lost' <= MaxLostLines
           /\ txLog' = Summaries(txLog, "tx", lines)
           /\ rxLog' = Summaries(rxLog, "rx", lines)
           /\ txPasses' = Counted(txPasses, "tx_frame", lines)
           /\ rxPasses' = Counted(rxPasses, "rx_frame", lines)

\* The loggers are stopped before the sequence wraps.
StopCapture ==
  /\ capturing' = FALSE
  /\ txLog' = {} /\ rxLog' = {} /\ txPasses' = 0 /\ rxPasses' = 0 /\ lost' = 0

Wraps == sequence = SeqMod - 1 /\ sequence' = 0

EvidenceNext ==
  /\ RfNext
  /\ \/ capturing /\ ~Wraps /\ Capture
     \/ (capturing => Wraps) /\ StopCapture

EvidenceSpec == EvidenceInit /\ [][EvidenceNext]_evidenceVars

\* Both programs are single loops, a stall of the node ends, and an armed
\* receiver always reports something: its timeout is programmed at every arming.
\* What is captured delays neither program.
EvidenceFairSpec ==
  /\ EvidenceSpec
  /\ WF_rfVars(GatewayStep)
  /\ WF_rfVars(NodeStep)
  /\ WF_rfVars(RadioEvent)

-----------------------------------------------------------------------------
\* choose_matching_passing
Matches_AnyPair(t, r) == TRUE
Matches(t, r) == t.first = r.first /\ t.last = r.last

\* A log shows as many passing frames as a suite has.
Enough_OneMore(passes) == passes > SuiteFrames
Enough(passes) == passes >= SuiteFrames

\* main's verdict
RecordAccepted ==
  /\ \E t \in txLog, r \in rxLog : Matches(t, r)
  /\ Enough(txPasses) /\ Enough(rxPasses)

\* The frames a transmitter suite put on the air.
SentIn(t) == { <<t.boot, s>> : s \in Window(t.first) }

\* An accepted record shows an exchange: some transmitter suite that passed
\* was received, frame by frame, as one suite of the node (the report's
\* validated claim).  The captures end between two frames, not between a
\* frame's arrival and the gateway's own account of it.
EvidenceSound ==
  (RecordAccepted /\ tpc # "sent")
    => \E t \in txLog, r \in rxLog : SentIn(t) = r.heard

\* Within one power-on of the gateway and before the sequence wraps that is so,
\* whatever goes wrong between the boards and whatever lines the logs lack
\* (passing_tx, passing_rx, choose_matching_passing, main).
SessionSound == boot = 1 => EvidenceSound

\* The procedure suffices: when the node listened before the gateway's first
\* frame, nothing went wrong and the logs lack nothing, then the record is
\* accepted as soon as the first suite is over on both sides (main's counts
\* and the alignment of the two sides' windows).
ProcedureSuffices ==
  ( /\ disturbances = 0 /\ lost = 0 /\ tpc = "start"
    /\ \E r \in rxLog : r.first = 1 )
  => RecordAccepted
=============================================================================
