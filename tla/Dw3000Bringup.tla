---------------------------- MODULE Dw3000Bringup ----------------------------
(***************************************************************************)
(* How a board brings up its DW3110 before the RF proof: the platform, the *)
(* reset pulse, the identity proof and the radio's configuration           *)
(* (firmware/common/qorvo_dw3000/src: thinpod_dw3000_platform.c,           *)
(* thinpod_dw3000_identity.c and rf_prepare in thinpod_dw3000_rf_proof.c). *)
(* RfExchange knows of all this only that it succeeds or parks.            *)
(*                                                                         *)
(* A stage may fail for any reason of its own.  The identity is read over  *)
(* an SPI whose errors the driver drops (dwt_readdevid), so a read gives   *)
(* the chip's identity or, when it is corrupted, any other.  Nothing calls *)
(* the platform before platform_prepare or after it failed, so its later   *)
(* callers always find it prepared.  The OTP values are only printed.      *)
(* Name_Something is a wrong version of Name that the properties notice.   *)
(***************************************************************************)
EXTENDS Naturals

CONSTANTS
  Identities,    \* what the four bytes of the identity register may read as
  Accepted,      \* those that match the driver's under its mask (devmatch)
  Zero,          \* the value of a field that nothing was read into
  IdleAttempts,  \* THINPOD_IDLE_RC_ATTEMPTS, 500
  MaxCorrupted   \* bound: how many reads are corrupted in one power-on

ASSUME BringupAssumption ==
  /\ Accepted \subseteq Identities
  /\ Zero \in Identities \ Accepted
  /\ IdleAttempts \in Nat \ {0}
  /\ MaxCorrupted \in Nat

VARIABLES
  pc,          \* the stage in progress
  resetPin,    \* the GPIO on the DW3110's RESET; only "low" holds it in reset
  rate,        \* the SPI rate of the next transfer
  radio,       \* how far the DW3110 has come
  attempts,    \* wait_for_idle_rc's loop counter
  result,      \* struct thinpod_dw3000_identity_result
  chip,        \* the identity of the chip on the board
  corrupted    \* history: how many reads were corrupted in this power-on

bringupVars == <<pc, resetPin, rate, radio, attempts, result, chip, corrupted>>

\* The stages of the identity proof, in order, and the two of rf_prepare.
Stages == << "platform", "reset", "irq_before", "probe", "device_id", "idle_rc",
             "initialise", "post_initialise_device_id", "fast_spi", "irq_after" >>
StageNames == { Stages[i] : i \in 1 .. 10 }

Codes == {"unset", "ok", "failed"}

Results == [ final : Codes, stage : StageNames \cup {"none"},
             platform : Codes, reset : Codes, irqBefore : Codes,
             probe : Codes, slow : Identities, idle : BOOLEAN,
             init : Codes, after : Identities, fast : Identities,
             stable : BOOLEAN, irqAfter : Codes ]

BringupTypeOK ==
  /\ pc \in StageNames \cup {"release", "configure", "ready", "parked"}
  /\ resetPin \in {"unset", "input", "low"}
  /\ rate \in {"slow", "fast"}
  /\ radio \in {"off", "held", "reset", "initialised", "configured"}
  /\ attempts \in 0 .. IdleAttempts
  /\ result \in Results
  /\ chip \in Identities
  /\ corrupted \in 0 .. MaxCorrupted

NoResult ==
  [ final |-> "unset", stage |-> "none", platform |-> "unset", reset |-> "unset",
    irqBefore |-> "unset", probe |-> "unset", slow |-> Zero, idle |-> FALSE,
    init |-> "unset", after |-> Zero, fast |-> Zero, stable |-> FALSE,
    irqAfter |-> "unset" ]

BringupInit ==
  /\ pc = "platform" /\ resetPin = "unset" /\ rate = "fast" /\ radio = "off"
  /\ attempts = 0
  /\ result = NoResult
  /\ chip \in Identities
  /\ corrupted = 0

-----------------------------------------------------------------------------
\* A stage that has filled in its part of the result goes on, or it is
\* record_failure, every caller returns the error and main parks.
Advance(filled, next) == result' = filled /\ pc' = next

Fail(filled, stage) ==
  /\ result' = [filled EXCEPT !.final = "failed", !.stage = stage]
  /\ pc' = "parked"

Read(id) ==
  \/ id = chip /\ UNCHANGED corrupted
  \/ /\ id \in Identities \ {chip}
     /\ corrupted < MaxCorrupted
     /\ corrupted' = corrupted + 1

\* thinpod_dw3000_platform_prepare, then the slow rate
PreparePlatform ==
  /\ pc = "platform"
  /\ \/ /\ Advance([result EXCEPT !.platform = "ok"], "reset")
        /\ resetPin' = "input"
        /\ rate' = "slow"
     \/ /\ Fail([result EXCEPT !.platform = "failed"], "platform")
        /\ resetPin' \in {"unset", "input"}
        /\ UNCHANGED rate
  /\ UNCHANGED <<radio, attempts, chip, corrupted>>

\* thinpod_dw3000_reset: RESET low for 2 ms
AssertReset ==
  /\ pc = "reset"
  /\ \/ pc' = "release" /\ resetPin' = "low" /\ radio' = "held" /\ UNCHANGED result
     \/ /\ Fail([result EXCEPT !.reset = "failed"], "reset")
        /\ UNCHANGED <<resetPin, radio>>
  /\ UNCHANGED <<rate, attempts, chip, corrupted>>

\* If the pin cannot be made an input again the chip stays in reset.
ReleaseReset_Unchecked ==
  /\ pc = "release"
  /\ Advance([result EXCEPT !.reset = "ok"], "irq_before")
  /\ \/ resetPin' = "input" /\ radio' = "reset"
     \/ UNCHANGED <<resetPin, radio>>
  /\ UNCHANGED <<rate, attempts, chip, corrupted>>
ReleaseReset ==
  /\ pc = "release"
  /\ \/ /\ Advance([result EXCEPT !.reset = "ok"], "irq_before")
        /\ resetPin' = "input" /\ radio' = "reset"
     \/ /\ Fail([result EXCEPT !.reset = "failed"], "reset")
        /\ UNCHANGED <<resetPin, radio>>
  /\ UNCHANGED <<rate, attempts, chip, corrupted>>

ReadIrqBefore ==
  /\ pc = "irq_before"
  /\ \/ Advance([result EXCEPT !.irqBefore = "ok"], "probe")
     \/ Fail([result EXCEPT !.irqBefore = "failed"], "irq_before")
  /\ UNCHANGED <<resetPin, rate, radio, attempts, chip, corrupted>>

Probe ==
  /\ pc = "probe"
  /\ \/ Advance([result EXCEPT !.probe = "ok"], "device_id")
     \/ Fail([result EXCEPT !.probe = "failed"], "probe")
  /\ UNCHANGED <<resetPin, rate, radio, attempts, chip, corrupted>>

ReadSlow ==
  /\ pc = "device_id"
  /\ \E id \in Identities :
       /\ Read(id)
       /\ \/ id \in Accepted /\ Advance([result EXCEPT !.slow = id], "idle_rc")
          \/ id \notin Accepted /\ Fail([result EXCEPT !.slow = id], "device_id")
  /\ UNCHANGED <<resetPin, rate, radio, attempts, chip>>

\* One turn of wait_for_idle_rc
AwaitIdle_CounterWraps ==
  /\ pc = "idle_rc"
  /\ \/ Advance([result EXCEPT !.idle = TRUE], "initialise") /\ UNCHANGED attempts
     \/ attempts' = (attempts + 1) % IdleAttempts /\ UNCHANGED <<pc, result>>
  /\ UNCHANGED <<resetPin, rate, radio, chip, corrupted>>
AwaitIdle_OneTooMany ==
  /\ pc = "idle_rc"
  /\ \/ /\ attempts <= IdleAttempts
        /\ attempts' = attempts + 1
        /\ UNCHANGED <<pc, result>>
     \/ /\ attempts > IdleAttempts
        /\ Fail(result, "idle_rc")
        /\ UNCHANGED attempts
  /\ UNCHANGED <<resetPin, rate, radio, chip, corrupted>>
AwaitIdle ==
  /\ pc = "idle_rc"
  /\ \/ /\ attempts < IdleAttempts
        /\ Advance([result EXCEPT !.idle = TRUE], "initialise")
        /\ UNCHANGED attempts
     \/ /\ attempts < IdleAttempts
        /\ attempts' = attempts + 1
        /\ UNCHANGED <<pc, result>>
     \/ /\ attempts = IdleAttempts
        /\ Fail(result, "idle_rc")
        /\ UNCHANGED attempts
  /\ UNCHANGED <<resetPin, rate, radio, chip, corrupted>>

Initialise ==
  /\ pc = "initialise"
  /\ \/ /\ Advance([result EXCEPT !.init = "ok"], "post_initialise_device_id")
        /\ radio' = "initialised"
     \/ /\ Fail([result EXCEPT !.init = "failed"], "initialise")
        /\ UNCHANGED radio
  /\ UNCHANGED <<resetPin, rate, attempts, chip, corrupted>>

ReadAfterInitialise ==
  /\ pc = "post_initialise_device_id"
  /\ \E id \in Identities :
       /\ Read(id)
       /\ \/ /\ id \in Accepted
             /\ Advance([result EXCEPT !.after = id], "fast_spi")
             /\ rate' = "fast"
          \/ /\ id \notin Accepted
             /\ Fail([result EXCEPT !.after = id], "post_initialise_device_id")
             /\ UNCHANGED rate
  /\ UNCHANGED <<resetPin, radio, attempts, chip>>

\* device_id_stable
Stable_EndsAgree(slow, after, fast) == slow = fast
Stable(slow, after, fast) == slow = after /\ after = fast

FastRead(id) ==
  [ result EXCEPT !.fast = id, !.stable = Stable(result.slow, result.after, id) ]

ReadFast_MatchSuffices ==
  /\ pc = "fast_spi"
  /\ \E id \in Identities :
       /\ Read(id)
       /\ \/ id \in Accepted /\ Advance(FastRead(id), "irq_after")
          \/ id \notin Accepted /\ Fail(FastRead(id), "fast_spi")
  /\ UNCHANGED <<resetPin, rate, radio, attempts, chip>>
ReadFast ==
  /\ pc = "fast_spi"
  /\ \E id \in Identities :
       LET good == id \in Accepted /\ FastRead(id).stable
       IN  /\ Read(id)
           /\ \/ good /\ Advance(FastRead(id), "irq_after")
              \/ ~good /\ Fail(FastRead(id), "fast_spi")
  /\ UNCHANGED <<resetPin, rate, radio, attempts, chip>>

ReadIrqAfter ==
  /\ pc = "irq_after"
  /\ \/ Advance([result EXCEPT !.irqAfter = "ok", !.final = "ok"], "configure")
     \/ Fail([result EXCEPT !.irqAfter = "failed"], "irq_after")
  /\ UNCHANGED <<resetPin, rate, radio, attempts, chip, corrupted>>

\* rf_prepare after a passed identity proof.  Its failure parks the program
\* too, but the identity's summary has said PASS by then.
Configure ==
  /\ pc = "configure"
  /\ \/ pc' = "ready" /\ radio' = "configured"
     \/ pc' = "parked" /\ UNCHANGED radio
  /\ UNCHANGED <<resetPin, rate, attempts, result, chip, corrupted>>

BringupStep ==
  \/ PreparePlatform \/ AssertReset \/ ReleaseReset \/ ReadIrqBefore \/ Probe
  \/ ReadSlow \/ AwaitIdle \/ Initialise \/ ReadAfterInitialise \/ ReadFast
  \/ ReadIrqAfter \/ Configure

\* The board is reset while its DW3110 stays powered: the program starts with
\* its static data and its pins as they were, the chip as it was left, or out
\* of reset if it was held.
Restart ==
  /\ pc' = "platform" /\ resetPin' = "unset" /\ rate' = "fast"
  /\ attempts' = 0 /\ result' = NoResult /\ corrupted' = 0
  /\ radio' = IF radio = "held" THEN "reset" ELSE radio
  /\ UNCHANGED chip

BringupNext == BringupStep \/ Restart

BringupSpec == BringupInit /\ [][BringupNext]_bringupVars

-----------------------------------------------------------------------------
(* Properties.                                                             *)

\* A passed identity proof has read the chip on the board: unless three reads
\* of this power-on were corrupted, all three identities it reports are the chip's, and the
\* driver supports it (identity_proof: the matches and device_id_stable).
IdentityGenuine ==
  (result.final = "ok" /\ corrupted < 3)
    => /\ chip \in Accepted
       /\ result.slow = chip /\ result.after = chip /\ result.fast = chip

\* No SPI transfer meets a chip that is held in reset, although the release of
\* its pin may fail, or one that an earlier power-on has left as it was: up to
\* its initialisation the chip is as RESET left it, then initialised, and what is
\* handed over to the RF proof is configured and clocked at the fast rate
\* (thinpod_dw3000_reset, identity_proof, rf_prepare).
TransfersMeetLiveChip ==
  /\ pc \in {"probe", "device_id", "idle_rc", "initialise"}
       => resetPin = "input" /\ radio = "reset"
  /\ pc \in {"post_initialise_device_id", "fast_spi", "configure"}
       => resetPin = "input" /\ radio = "initialised"
  /\ pc = "ready" => resetPin = "input" /\ radio = "configured" /\ rate = "fast"

\* What the fields of TPDW_RESULT, as they are printed, say of a stage.
Passed(r, stage) ==
  CASE stage = "platform"   -> r.platform = "ok"
    [] stage = "reset"      -> r.reset = "ok"
    [] stage = "irq_before" -> r.irqBefore = "ok"
    [] stage = "probe"      -> r.probe = "ok"
    [] stage = "device_id"  -> r.slow \in Accepted
    [] stage = "idle_rc"    -> r.idle
    [] stage = "initialise" -> r.init = "ok"
    [] stage = "post_initialise_device_id" -> r.after \in Accepted
    [] stage = "fast_spi"   -> r.fast \in Accepted /\ r.stable
    [] stage = "irq_after"  -> r.irqAfter = "ok"

\* The summary explains itself: a PASS shows ten stages passed, and a FAIL
\* names the first stage that did not pass and shows none behind it as passed
\* (record_failure, print_summary, initialise_result's defaults).
SummaryExplains ==
  /\ result.final = "ok" =>
       result.stage = "none" /\ \A i \in 1 .. 10 : Passed(result, Stages[i])
  /\ result.final = "failed" =>
       \E i \in 1 .. 10 :
         /\ result.stage = Stages[i]
         /\ \A j \in 1 .. 10 : Passed(result, Stages[j]) <=> j < i
=============================================================================
