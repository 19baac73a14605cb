---------------------------- MODULE NucleoProbes ----------------------------
(***************************************************************************)
(* The NUCLEO's bench probes, which check the way to the DWM3001-CDK before *)
(* any protocol runs on it: nucleo_gpio_probe toggles RESET and CS,        *)
(* nucleo_spi5_dummy_probe clocks a pattern, nucleo_dw3110_register_probe  *)
(* looks for the DW3110's identity in what four framings read.  One of     *)
(* them is flashed at a time; flashing or restarting lets the pins float.  *)
(*                                                                         *)
(* The IRQ level, the patterns sent and the cycle numbers are printed and  *)
(* read by nothing.  Name_Something is a wrong version of Name that the    *)
(* properties notice.                                                      *)
(***************************************************************************)
EXTENDS Naturals

CONSTANT Answers    \* what may be shifted out to the NUCLEO, by description

Programs == {"gpio", "dummy", "register"}
Levels   == {"float", "low", "high"}

\* probe_variants: how many bytes each framing clocks, header included
Lengths  == <<5, 6, 6, 7>>
Variants == 1 .. 4
MaxLen   == 7

\* DW3110_EXPECTED_DEV_ID as a little- and as a big-endian device shifts it
Identity  == [ le |-> <<"02", "03", "ca", "de">>, be |-> <<"de", "ca", "03", "02">> ]

\* An answer holds an identity, in either order or none, behind some bytes.
ASSUME ProbesAssumption ==
  Answers \subseteq [order : {"le", "be", "none"}, lead : 0 .. MaxLen, filler : STRING]

VARIABLES
  program,     \* the program in the NUCLEO's flash
  at,          \* the statement it executes next
  reset, cs,   \* the levels the NUCLEO drives on DWM_RESET and DWM_CS
  variant,     \* the framing of this turn
  answer,      \* what the device shifts out in this transfer
  ret, rx,     \* spi_transceive's result and what it left in rx
  verdict      \* probe_result of the last transfer

probeVars == <<program, at, reset, cs, variant, answer, ret, rx, verdict>>
wireVars  == <<answer, ret, rx, verdict>>

Bytes(a) ==
  LET Behind(i) == i - a.lead
  IN  [ i \in 1 .. MaxLen |->
          IF a.order # "none" /\ Behind(i) \in 1 .. 4
          THEN Identity[a.order][Behind(i)] ELSE a.filler ]

\* What a transfer leaves in rx that has filled its first n bytes
Received(a, n) == [i \in 1 .. MaxLen |-> IF i <= n THEN Bytes(a)[i] ELSE "00"]

Zeros  == [i \in 1 .. MaxLen |-> "00"]
Silent == [order |-> "none", lead |-> 0, filler |-> "00"]

ProbesTypeOK ==
  /\ program \in Programs
  /\ at \in {"devices", "configure", "pulse", "release", "wake", "woken", "select",
             "transfer", "deselect", "judge", "toggle", "halted"}
  /\ reset \in Levels /\ cs \in Levels
  /\ variant \in Variants
  /\ answer \in Answers \cup {Silent}
  /\ ret \in {"ok", "error"}
  /\ rx \in {Zeros} \cup { Received(a, n) : a \in Answers, n \in 0 .. MaxLen }
  /\ verdict \in {"none", "SPI_ERROR", "DEV_ID_MATCH", "SPI_OK_NO_DEV_ID_MATCH"}

Reset(p) ==
  /\ program' = p /\ at' = "devices"
  /\ reset' = "float" /\ cs' = "float"
  /\ variant' = 1
  /\ answer' = Silent /\ ret' = "ok" /\ rx' = Zeros /\ verdict' = "none"

ProbesInit ==
  /\ program \in Programs /\ at = "devices"
  /\ reset = "float" /\ cs = "float"
  /\ variant = 1
  /\ answer = Silent /\ ret = "ok" /\ rx = Zeros /\ verdict = "none"

-----------------------------------------------------------------------------
Goto(next) == at' = next /\ UNCHANGED program

\* SPI5, RESET, CS and IRQ are ready, or main returns.
CheckDevices ==
  /\ at = "devices"
  /\ Goto("configure") \/ Goto("halted")
  /\ UNCHANGED <<reset, cs, variant, wireVars>>

\* The levels RESET and CS are configured with, in this order, before IRQ.
Configured ==
  [ gpio     |-> [reset |-> "low",   cs |-> "low"],
    dummy    |-> [reset |-> "high",  cs |-> "high"],
    register |-> [reset |-> "float", cs |-> "high"] ]

\* Each of the pins may fail to be configured, and main returns with those
\* before it driven.
ConfigurePins ==
  /\ at = "configure"
  /\ \/ /\ Goto(IF program = "gpio" THEN "toggle" ELSE "pulse")
        /\ reset' = Configured[program].reset /\ cs' = Configured[program].cs
     \/ /\ Goto("halted")
        /\ \/ UNCHANGED <<reset, cs>>
           \/ reset' = Configured[program].reset /\ cs' \in {cs, Configured[program].cs}
  /\ UNCHANGED <<variant, wireVars>>

\* dwm_reset_pulse of the dummy probe, which checks nothing
DummyPulse ==
  /\ program = "dummy"
  /\ \/ at = "pulse" /\ Goto("release") /\ reset' = "low"
     \/ at = "release" /\ Goto("select") /\ reset' = "high"
  /\ UNCHANGED <<cs, variant, wireVars>>

\* dwm_reset_low_then_release of the register probe, which configures the pin
\* twice; if it cannot be made an input again, RESET stays low.
PulseLow ==
  /\ program = "register" /\ at = "pulse"
  /\ \/ Goto("release") /\ reset' = "low"
     \/ Goto("halted") /\ UNCHANGED reset
  /\ UNCHANGED <<cs, variant, wireVars>>

ReleasePulse_Forgotten ==
  /\ program = "register" /\ at = "release"
  /\ Goto("wake")
  /\ UNCHANGED <<reset, cs, variant, wireVars>>
ReleasePulse ==
  /\ program = "register" /\ at = "release"
  /\ \/ Goto("wake") /\ reset' = "float"
     \/ Goto("halted") /\ UNCHANGED reset
  /\ UNCHANGED <<cs, variant, wireVars>>

\* dwm_cs_wake_pulse
Wake ==
  /\ \/ at = "wake" /\ Goto("woken") /\ cs' = "low"
     \/ at = "woken" /\ Goto("select") /\ cs' = "high"
  /\ UNCHANGED <<reset, variant, wireVars>>

Select ==
  /\ at = "select"
  /\ Goto("transfer")
  /\ cs' = "low"
  /\ rx' = Zeros
  /\ UNCHANGED <<reset, variant, answer, ret, verdict>>

\* A transfer that fails may have filled the buffer or left it alone.
Transceive ==
  /\ at = "transfer"
  /\ Goto("deselect")
  /\ answer' \in Answers
  /\ \/ ret' = "ok" /\ rx' = Received(answer', Lengths[variant])
     \/ ret' = "error" /\ \E n \in {0, Lengths[variant]} : rx' = Received(answer', n)
  /\ UNCHANGED <<reset, cs, variant, verdict>>

\* CS goes high whatever the transfer returned.
Deselect_OnlyAfterSuccess ==
  /\ at = "deselect"
  /\ Goto("judge")
  /\ cs' = IF ret = "ok" THEN "high" ELSE cs
  /\ UNCHANGED <<reset, variant, wireVars>>
Deselect ==
  /\ at = "deselect"
  /\ Goto("judge")
  /\ cs' = "high"
  /\ UNCHANGED <<reset, variant, wireVars>>

\* The offsets at which the identity is looked for, in either order
Offsets_OneShort(len) == 0 .. (len - 5)
Offsets(len) == 0 .. (len - 4)

MatchAt(bytes, offset) ==
  \E order \in {"le", "be"} :
    \A k \in 1 .. 4 : bytes[offset + k] = Identity[order][k]

ProbeResult_IgnoresError ==
  IF \E i \in Offsets(Lengths[variant]) : MatchAt(rx, i)
  THEN "DEV_ID_MATCH" ELSE "SPI_OK_NO_DEV_ID_MATCH"
ProbeResult ==
  IF ret = "error" THEN "SPI_ERROR"
  ELSE IF \E i \in Offsets(Lengths[variant]) : MatchAt(rx, i)
  THEN "DEV_ID_MATCH" ELSE "SPI_OK_NO_DEV_ID_MATCH"

NextVariant_RunsOff(v) == v + 1
NextVariant(v) == (v % 4) + 1

\* The register probe judges what it read and goes on to the next framing.
Judge_ErrorRepeats ==
  /\ program = "register" /\ at = "judge"
  /\ Goto("select")
  /\ verdict' = ProbeResult
  /\ variant' = IF ret = "ok" THEN NextVariant(variant) ELSE variant
  /\ UNCHANGED <<reset, cs, answer, ret, rx>>
Judge ==
  /\ program = "register" /\ at = "judge"
  /\ Goto("select")
  /\ verdict' = ProbeResult
  /\ variant' = NextVariant(variant)
  /\ UNCHANGED <<reset, cs, answer, ret, rx>>

\* The dummy probe prints what it read, whatever the transfer returned.
DummyTurn ==
  /\ program = "dummy" /\ at = "judge"
  /\ Goto("select")
  /\ UNCHANGED <<reset, cs, variant, wireVars>>

\* The GPIO probe drives both pins low, then both high, for ever.
Toggle ==
  /\ at = "toggle"
  /\ Goto("toggle")
  /\ \/ reset = "low" /\ reset' = "high" /\ cs' = "high"
     \/ reset = "high" /\ reset' = "low" /\ cs' = "low"
  /\ UNCHANGED <<variant, wireVars>>

ProbeStep ==
  \/ CheckDevices \/ ConfigurePins \/ DummyPulse \/ PulseLow \/ ReleasePulse
  \/ Wake \/ Select \/ Transceive \/ Deselect \/ Judge \/ DummyTurn \/ Toggle

\* The operator flashes a program, or the same again.
Flash == \E p \in Programs : Reset(p)

ProbesNext == ProbeStep \/ Flash

-----------------------------------------------------------------------------
(* Properties.                                                             *)

\* Whenever a probe clocks, CS is low and RESET is not, so the transfer
\* addresses a device that is up; between transfers CS is high again, also
\* after one that failed, so the next one is framed by itself
\* (dw3110_probe_variant, the dummy probe's loop, the reset pulses).
TransfersFramed ==
  /\ at \in {"transfer", "deselect"} => cs = "low"
  /\ at \in {"wake", "select", "judge"} => cs = "high"
  /\ at \in {"wake", "woken", "select", "transfer", "deselect", "judge"}
       => reset = IF program = "register" THEN "float" ELSE "high"

\* The register probe reports a match when and only when the last transfer
\* succeeded and had room for a whole identity, in either byte order and behind
\* any number of other bytes (dw3110_probe_variant, print_candidate).
Clocked == Lengths[IF variant = 1 THEN 4 ELSE variant - 1]
VerdictGenuine ==
  (at = "select" /\ verdict # "none") =>
     (verdict = "DEV_ID_MATCH" <=>
        ret = "ok" /\ answer.order # "none" /\ answer.lead + 4 <= Clocked)

\* The register probe has started for the last time and found its devices.
RegisterRuns == <>[](program = "register" /\ at \notin {"devices", "halted"})

\* While the register probe runs, all four framings are tried again and again,
\* whatever the SPI returns (main, dw3110_probe_variant).
EveryVariantTried ==
  RegisterRuns => \A v \in Variants : []<>(at = "transfer" /\ variant = v)
=============================================================================
