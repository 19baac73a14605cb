----------------------------- MODULE RfExchange -----------------------------
(***************************************************************************)
(* The one-way RF proof: the gateway transmits numbered frames for ever,   *)
(* the node receives them and judges them in suites                        *)
(* (firmware/common/qorvo_dw3000/src/thinpod_dw3000_rf_proof.c and the two *)
(* stage-2 main.c), each printing a summary per suite into its log.        *)
(*                                                                         *)
(* The radios are polled, so what matters of the node's DW3110 is which    *)
(* event it holds when the node looks.  Of a suite's counters the programs *)
(* and the log checker only ask whether they are zero, so they are the set *)
(* `blemishes` of the kinds that are not; of the lines printed only those  *)
(* that say PASS are shown, and failed suites are counted.                 *)
(* Name_Something is a wrong version of Name that the properties notice.   *)
(***************************************************************************)
EXTENDS Naturals, FiniteSets

CONSTANTS
  SuiteFrames,      \* THINPOD_RF_PROOF_SUITE_FRAMES, 20
  SeqMod,           \* the sequences of a uint16_t, 65536
  RfAdversary,      \* the kinds of disturbance that may happen
  MaxDisturbances,  \* bound: how many disturbances happen in a behaviour
  LastSequence      \* bound: the highest sequence ever transmitted

DisturbanceKinds ==
  { "prepare",          \* rf_prepare fails: the program parks for good
    "tx_start",         \* the frame is not written or not started
    "tx_status",        \* the frame leaves, TXFRS is not seen in time
    "loss",             \* a listening receiver does not notice the frame
    "noise",            \* the receiver reports an error
    "alien",            \* a good frame of another length, or not our payload
    "rx_enable",        \* the receiver cannot be enabled
    "late",             \* the node's own deadline beats the event
    "stall",            \* the node is not back at its radio for the next slots
    "gateway_restart",
    "node_restart" }

ASSUME RfAssumption ==
  /\ SuiteFrames \in Nat \ {0}
  /\ SeqMod \in Nat /\ SeqMod > SuiteFrames
  /\ RfAdversary \subseteq DisturbanceKinds
  /\ MaxDisturbances \in Nat
  /\ LastSequence \in Nat

Seqs   == 0 .. (SeqMod - 1)
Flaws  == {"invalid", "timeouts", "errors", "gaps", "duplicates"}
Events == {"none", "good", "timeout", "error"}
None   == [ kind |-> "none" ]

VARIABLES
  tpc, sequence, tx,            \* gateway
  npc, started, expected, rx,   \* node
  event, held,                  \* the node's DW3110: its status and its buffer
  overdue,                      \* timing: the receive timeout is the next thing
  stalled,                      \* timing: slots pass before the node is back
  printed,                      \* the lines with result=PASS of the last step
  boot, heard,                  \* history: gateway power-ons, frames of a clean suite
  spoiled, disturbances         \* history: suites failed (counted to
                                \* MaxDisturbances + 1), disturbances so far

gateway == <<tpc, sequence, tx>>
node    == <<npc, started, expected, rx, heard>>
radio   == <<event, held, overdue>>
rfVars  == <<tpc, sequence, tx, npc, started, expected, rx, event, held, overdue,
             stalled, printed, boot, heard, spoiled, disturbances>>

Succ_NoWrap(s) == s + 1
Succ(s) == (s + 1) % SeqMod
Pred(s) == (s + SeqMod - 1) % SeqMod
Window(first) == { (first + k) % SeqMod : k \in 0 .. (SuiteFrames - 1) }

Frames == [ kind : {"data"}, seq : Seqs, boot : Nat ] \cup {[kind |-> "alien"]}

\* Passing lines: a frame's, and a summary's with its window and whose frames
\* it holds.
FrameLine(side) == [ kind |-> side ]
TxSummary(first, last, power) ==
  [ kind |-> "tx", first |-> first, last |-> last, boot |-> power ]
RxSummary(first, last, frames) ==
  [ kind |-> "rx", first |-> first, last |-> last, heard |-> frames ]

\* The suites in progress.
FreshTx(first) == [ first |-> first, attempts |-> 0, failed |-> FALSE ]
FreshRx(first, last) ==
  [ first |-> first, last |-> last, valid |-> 0, blemishes |-> {} ]

RfTypeOK ==
  /\ tpc \in {"boot", "start", "sent", "unsent", "parked"}
  /\ sequence \in Seqs
  /\ tx \in [ first : Seqs, attempts : 0 .. (SuiteFrames - 1), failed : BOOLEAN ]
  /\ npc \in {"boot", "arm", "listen", "parked"}
  /\ started \in BOOLEAN
  /\ expected \in Seqs
  /\ rx \in [ first : Seqs, last : Seqs, valid : 0 .. (SuiteFrames - 1),
              blemishes : SUBSET Flaws ]
  /\ event \in Events
  /\ held \in Frames \cup {None}
  /\ event = "good" <=> held # None
  /\ overdue \in BOOLEAN /\ stalled \in BOOLEAN
  /\ boot \in Nat
  /\ heard \in SUBSET (Nat \X Seqs)
  /\ printed \subseteq
       { FrameLine("tx_frame"), FrameLine("rx_frame") }
       \cup [ kind : {"tx"}, first : Seqs, last : Seqs, boot : Nat ]
       \cup [ kind : {"rx"}, first : Seqs, last : Seqs,
               heard : SUBSET (Nat \X Seqs) ]
  /\ spoiled \in 0 .. (MaxDisturbances + 1)
  /\ disturbances \in 0 .. MaxDisturbances

RfInit ==
  /\ tpc = "boot" /\ sequence = 1 /\ tx = FreshTx(1)
  /\ npc = "boot" /\ started = FALSE /\ expected = 0 /\ rx = FreshRx(0, 0)
  /\ event = "none" /\ held = None /\ overdue = FALSE /\ stalled = FALSE
  /\ printed = {} /\ boot = 1 /\ heard = {}
  /\ spoiled = 0 /\ disturbances = 0

Disturbance(kind) ==
  /\ kind \in RfAdversary
  /\ disturbances < MaxDisturbances
  /\ disturbances' = disturbances + 1

Calm == UNCHANGED disturbances

\* No passing line in this step.
Quiet == printed' = {}

-----------------------------------------------------------------------------
(* The air.                                                                *)

Listening == npc = "listen" /\ event = "none"

\* The node's radio latches the frame; it stays off until it is armed again.
Latch(frame) ==
  /\ Listening
  /\ event' = "good" /\ held' = frame
  /\ UNCHANGED overdue

\* The slot passes without the node hearing its frame.  Depending on when it
\* was armed, its receive timeout (900 ms) may come before the next slot.
Unheard ==
  /\ UNCHANGED <<event, held>>
  /\ overdue' \in {overdue, Listening}

\* Unless it stalls, the node has armed its receiver again before the next
\* slot; and the radio's own timeout does not wait for the node.
SlotComes ==
  IF Listening THEN ~overdue ELSE stalled \/ npc \in {"boot", "parked"}

-----------------------------------------------------------------------------
(* The gateway.                                                            *)

\* rf_prepare, then run_transmitter.
BootGateway ==
  /\ tpc = "boot"
  /\ \/ tpc' = "start" /\ Calm
     \/ tpc' = "parked" /\ Disturbance("prepare")
  /\ UNCHANGED <<sequence, tx, node, radio, stalled, boot, spoiled>>
  /\ Quiet

\* dwt_writetxdata and dwt_starttx: the frame leaves, or not.
StartTransmit ==
  /\ tpc = "start"
  /\ sequence <= LastSequence
  /\ SlotComes
  /\ \/ /\ tpc' = "sent"
        /\ \/ Calm /\ Latch([kind |-> "data", seq |-> sequence, boot |-> boot])
           \/ Calm /\ ~Listening /\ Unheard
           \/ Disturbance("loss") /\ Listening /\ Unheard
     \/ tpc' = "unsent" /\ Disturbance("tx_start") /\ Unheard
  /\ UNCHANGED <<sequence, tx, node, stalled, boot, spoiled>>
  /\ Quiet

\* The wait for TXFRS, the suite's accounting and its summary, and on to the
\* next sequence.
FinishTransmit ==
  /\ tpc \in {"sent", "unsent"}
  /\ \E passed \in BOOLEAN :
       /\ passed => tpc = "sent" /\ Calm
       /\ ~passed => \/ tpc = "unsent" /\ Calm
                     \/ tpc = "sent" /\ Disturbance("tx_status")
       /\ LET failed == tx.failed \/ ~passed
              over   == tx.attempts + 1 = SuiteFrames
          IN  /\ tx' = IF over THEN FreshTx(Succ(sequence))
                       ELSE [tx EXCEPT !.attempts = @ + 1, !.failed = failed]
              /\ printed' = { l \in {FrameLine("tx_frame")} : passed }
                    \cup { l \in {TxSummary(tx.first, sequence, boot)} : over /\ ~failed }
  /\ tpc' = "start"
  /\ sequence' = Succ(sequence)
  /\ UNCHANGED <<node, radio, stalled, boot, spoiled>>

-----------------------------------------------------------------------------
(* The node.                                                               *)

BootNode ==
  /\ npc = "boot"
  /\ \/ npc' = "arm" /\ Calm
     \/ npc' = "parked" /\ Disturbance("prepare")
  /\ UNCHANGED <<started, expected, rx, heard, gateway, radio, stalled, boot, spoiled>>
  /\ Quiet

\* A flaw that is no good frame counts only once the exchange has started.
CountFlaw(flaw) ==
  IF started
  THEN rx' = [rx EXCEPT !.blemishes = @ \cup {flaw}] /\ heard' = {}
  ELSE UNCHANGED <<rx, heard>>

\* dwt_forcetrxoff, clear_rx_events, dwt_rxenable
Arm ==
  /\ npc = "arm"
  /\ event' = "none" /\ held' = None /\ overdue' = FALSE
  /\ \/ npc' = "listen" /\ stalled' = FALSE /\ Calm /\ UNCHANGED <<rx, heard>>
     \/ /\ npc' = "arm" /\ UNCHANGED stalled
        /\ Disturbance("rx_enable") /\ CountFlaw("errors")
  /\ UNCHANGED <<started, expected, gateway, boot, spoiled>>
  /\ Quiet

\* The node stays away from its radio: slots may pass until it arms again.
NodeStalls ==
  /\ npc \in {"arm", "listen"}
  /\ Disturbance("stall")
  /\ stalled' = TRUE
  /\ UNCHANGED <<gateway, node, radio, boot, spoiled>>
  /\ Quiet

\* The DW3110's own events: its receive timeout (which is longer than a slot),
\* a reception error, somebody else's frame.
RadioEvent ==
  /\ Listening
  /\ \/ /\ event' = "timeout" /\ held' = None /\ Calm
        /\ overdue \/ tpc = "parked"
     \/ event' = "error" /\ held' = None /\ Disturbance("noise")
     \/ event' = "good" /\ held' = [kind |-> "alien"] /\ Disturbance("alien")
  /\ UNCHANGED <<overdue, stalled, node, gateway, boot, spoiled>>
  /\ Quiet

\* What a valid payload's sequence does: in order, repeated, or out of order.
SequenceFlaws_NoGaps(seq) ==
  IF ~started \/ seq # Pred(expected) THEN {} ELSE {"duplicates", "invalid"}
SequenceFlaws_NoBaseline(seq) ==
  IF seq = expected             THEN {}
  ELSE IF seq = Pred(expected)  THEN {"duplicates", "invalid"}
  ELSE {"gaps", "invalid"}
SequenceFlaws(seq) ==
  IF ~started \/ seq = expected THEN {}
  ELSE IF seq = Pred(expected)  THEN {"duplicates", "invalid"}
  ELSE {"gaps", "invalid"}

\* The suite after an event whose own line is `line` (none if it failed):
\* unfinished, or over with its summary printed.
EndIteration(suite, clean, next, line) ==
  IF suite.valid = SuiteFrames
  THEN /\ rx' = FreshRx(next, suite.last)
       /\ heard' = {}
       /\ \/ /\ suite.blemishes = {}
             /\ printed' = line \cup {RxSummary(suite.first, suite.last, clean)}
             /\ UNCHANGED spoiled
          \/ /\ suite.blemishes # {}
             /\ printed' = line
             /\ spoiled' = IF spoiled > MaxDisturbances THEN spoiled ELSE spoiled + 1
  ELSE /\ rx' = suite
       /\ heard' = clean
       /\ printed' = line
       /\ UNCHANGED spoiled

\* The good_frame branch for one of ours.
TakeFrame ==
  /\ npc = "listen" /\ event = "good" /\ held.kind = "data"
  /\ npc' = "arm"
  /\ event' = "none" /\ held' = None
  /\ started' = TRUE
  /\ expected' = Succ(held.seq)
  /\ LET flaws == SequenceFlaws(held.seq)
         suite == [ first     |-> IF started THEN rx.first ELSE held.seq,
                    last      |-> held.seq,
                    valid     |-> IF flaws = {} THEN rx.valid + 1 ELSE rx.valid,
                    blemishes |-> rx.blemishes \cup flaws ]
     IN  EndIteration(suite,
                      IF suite.blemishes = {}
                      THEN heard \cup {<<held.boot, held.seq>>} ELSE {},
                      Succ(held.seq),
                      { l \in {FrameLine("rx_frame")} : flaws = {} })
  /\ UNCHANGED <<overdue, stalled, gateway, boot, disturbances>>

\* The good_frame branch for any other frame: invalid, started or not.
TakeAlien ==
  /\ npc = "listen" /\ event = "good" /\ held.kind = "alien"
  /\ npc' = "arm"
  /\ event' = "none" /\ held' = None
  /\ rx' = [rx EXCEPT !.blemishes = @ \cup {"invalid"}]
  /\ heard' = {}
  /\ UNCHANGED <<started, expected, overdue, stalled, gateway, boot, spoiled, disturbances>>
  /\ Quiet

TakeTimeout ==
  /\ npc = "listen" /\ event = "timeout"
  /\ npc' = "arm" /\ event' = "none"
  /\ CountFlaw("timeouts")
  /\ UNCHANGED <<started, expected, held, overdue, stalled, gateway, boot, spoiled,
                 disturbances>>
  /\ Quiet

TakeError_NotCleared ==
  /\ npc = "listen" /\ event = "error"
  /\ CountFlaw("errors")
  /\ UNCHANGED <<npc, event, started, expected, held, overdue, stalled, gateway,
                 boot, spoiled, disturbances>>
  /\ Quiet
TakeError ==
  /\ npc = "listen" /\ event = "error"
  /\ npc' = "arm" /\ event' = "none"
  /\ CountFlaw("errors")
  /\ UNCHANGED <<started, expected, held, overdue, stalled, gateway, boot, spoiled,
                 disturbances>>
  /\ Quiet

\* wait_for_status gives up.  Whatever the radio holds by then, the status read
\* last included, is cleared unseen.
HostDeadline ==
  /\ npc = "listen"
  /\ Disturbance("late")
  /\ npc' = "arm"
  /\ event' = "none" /\ held' = None
  /\ CountFlaw("timeouts")
  /\ UNCHANGED <<started, expected, overdue, stalled, gateway, boot, spoiled>>
  /\ Quiet

-----------------------------------------------------------------------------
(* Power cycles.  The logs are captured outside and survive them.          *)

GatewayRestart ==
  /\ Disturbance("gateway_restart")
  /\ tpc' = "boot" /\ sequence' = 1 /\ tx' = FreshTx(1)
  /\ boot' = boot + 1
  /\ overdue' \in {overdue, Listening}
  /\ UNCHANGED <<node, event, held, stalled, spoiled>>
  /\ Quiet

NodeRestart ==
  /\ Disturbance("node_restart")
  /\ npc' = "boot" /\ started' = FALSE /\ expected' = 0 /\ rx' = FreshRx(0, 0)
  /\ event' = "none" /\ held' = None /\ overdue' = FALSE /\ stalled' = FALSE
  /\ heard' = {}
  /\ UNCHANGED <<gateway, boot, spoiled>>
  /\ Quiet

-----------------------------------------------------------------------------
GatewayStep == BootGateway \/ StartTransmit \/ FinishTransmit

NodeStep ==
  \/ BootNode \/ Arm \/ TakeFrame \/ TakeAlien \/ TakeTimeout \/ TakeError

RfNext ==
  \/ GatewayStep \/ NodeStep \/ RadioEvent \/ HostDeadline \/ NodeStalls
  \/ GatewayRestart \/ NodeRestart

RfSpec == RfInit /\ [][RfNext]_rfVars

-----------------------------------------------------------------------------
(* Properties.                                                             *)

\* The node's PASS for a suite means what the summary says of it: exactly the
\* SuiteFrames consecutive sequences from first_seq to last_seq were received,
\* wrap-around of the 16-bit sequence, earlier failed suites and lost events
\* notwithstanding (run_receiver).
PassedWindowHeard ==
  \A s \in printed : s.kind = "rx" =>
    /\ { h[2] : h \in s.heard } = Window(s.first)
    /\ Cardinality(s.heard) = SuiteFrames
    /\ s.last = (s.first + SuiteFrames - 1) % SeqMod

\* One thing that goes wrong spoils one suite of the node at most, never the
\* next one too: what is left of it (the gap behind a timeout or an error)
\* falls into the suite that already failed (run_receiver's resynchronisation
\* and the reset of its counters at the end of a suite).
OneDisturbanceOneSuite == spoiled <= disturbances

\* While both run, the node goes on passing suites: no sequence of
\* disturbances leaves it out of step for good.
SuitesKeepPassing ==
  \/ <>(tpc = "parked" \/ npc = "parked")
  \/ []<>(\E s \in printed : s.kind = "rx")
=============================================================================
