# Thin-Pod Gateway: TLA+ models, checks and proofs

This directory holds a formal description of the Thin-Pod Gateway firmware and
of the scripts that judge its logs: what these programs do, what they promise each other,
which runs of TLC check those promises on small instances, and which of them
are proved with TLAPS for every value of the constants. Paths below are
relative to the repository.

## 1. The system

| Component | Where | State it keeps | Operations |
|---|---|---|---|
| TPHIP codec | `firmware/common/tphip/` | none (pure) | build and validate requests and responses, map a validation to a status, decode capabilities |
| Host-interface probe ("host") | `firmware/nucleo_dwm_host_interface_probe/` | next test, pass and fail counters, the frame just clocked | reset the endpoint, run fifteen exchanges, summarise |
| Host-interface endpoint | `firmware/dwm3001cdk_host_interface_stub/` | request and response buffers, completion semaphore, READY line, armed SPIS transfer | receive, validate, answer, lower READY |
| RF proof, transmitter | `thinpod_dw3000_rf_proof.c`, `firmware/gateway/uwb_initiator_stage2_rf/` | sequence, counters of the running suite | prepare, transmit a frame per 500 ms, summarise every 20 |
| RF proof, receiver | the same file, `firmware/node/uwb_responder_stage2_rf/` | expected sequence, counters and window of the running suite, the DW3110's pending event | arm, wait for an event, judge a frame, summarise every 20 valid frames |
| RF evidence checker | `scripts/check_dw3110_rf_exchange.py` | the two captured logs | read summaries, count frame lines, pair summaries, verdict |
| DW3110 platform and identity proof | `thinpod_dw3000_platform.c`, `thinpod_dw3000_identity.c` | `platform_prepared`, SPI rate, RESET pin, result record | prepare, reset, probe, initialise, read the identity three times |
| Packet contract | `firmware/common/thinpod_protocol/` | none (pure) | make, checksum and validate a vibration window; minimum, maximum, mean, RMS |
| UWB role stubs | `firmware/gateway/uwb_initiator/`, `firmware/node/uwb_responder/` | a sequence and a window | make a window, judge it, print it |
| Packet logger | `scripts/gateway_packet_logger.py` | the rows parsed so far | find, parse and classify packets in a text log, exit code |
| RTT parser | `tools/packet_logging/` | the records so far | find `TPGW_PKT` lines, read their fields |
| Bench probes | `firmware/nucleo_gpio_probe/`, `nucleo_spi5_dummy_probe/`, `nucleo_dw3110_register_probe/` | the pins they drive, the framing in turn, the receive buffer | toggle RESET and CS, clock a pattern, look for the DW3110's identity in four framings |
| Heartbeats | `firmware/gateway_probe/`, `*/zephyr_rtt_alive/` | none | print a line, blink |
| Vectors, release and OSHWA checks | `scripts/check_*.py`, `firmware/test-vectors/` | none | compare constants, look for files |

### How the parts interact

* **Host and endpoint** share four things: the SPI bus, the chip select that
  frames a transfer, the READY line, driven by the endpoint only, and the
  endpoint's RESET, driven by the host only. An exchange is a 16-byte window
  (the request), READY going high, a 32-byte window (the response), READY going
  low. What a window means is decided by what the endpoint has *armed* at that
  moment, not by what the host believes; nothing in a window says which it is.
* **Endpoint thread and SPIS driver**: `spi_transceive` blocks the thread for a
  request; `spi_transceive_cb` arms a response asynchronously, and the driver's
  callback gives the semaphore `response_done`.
* **Transmitter and receiver** share nothing but the air, one way. The receiver
  re-synchronises on whatever sequence it hears. Both print a summary per suite.
* **Bring-up and RF loops**: `main` of the gateway and of the node runs the
  identity proof and `rf_prepare`, and enters its loop only if both succeed.
* **The checker** sees only the two logs, which survive every power cycle and
  may lack lines, because a debugger writes them.
* **Bench probes and CDK**: one of the probes is in the NUCLEO's flash at a time. It
  drives the CDK's RESET (PD0 to J10.12), so it can start the CDK's bring-up anew at
  any stage; and it drives CS around its own transfers.
* **RTT log**: the stage-1 programs print lines, a viewer captures them, perhaps
  late or not to the end, and the parser reads the file afterwards.
* **The packet logger** sees lines in which a packet stands amid timestamps and
  other hexadecimal text.

### What is hard, and what correctness means

* *Phase slip on the wire.* An endpoint late by one window answers the next
  request with the previous test's response, or takes a response window for a
  request. Correct means: whatever slips, an answer that is accepted was made from a
  request of this power-on, an undamaged one from the running test's, and one to a
  damaged request is accepted only where a refusal was expected (`GenuineAnswer`); a
  recorded pass is a served test (`ImplementsRpc`), and as long as the endpoint is prompt there
  is no slip at all (`ResponsePhaseArmed`, `BoundedDamage`).
* *Sequence reuse.* The host numbers from 1 after every power-on, the gateway
  too, and 16-bit sequences wrap. `Provenance` says why the reset pulse is
  enough on the wire. Nothing plays that part for the RF logs: a record is sound
  within one power-on of the gateway (`SessionSound`) and not beyond (`EvidenceSound`).
* *Missing lines.* Whatever the loggers miss, an accepted record must show an exchange
  (`SessionSound`), and a complete capture of an undisturbed exchange must be
  accepted (`ProcedureSuffices`).
* *Waits.* Every wait of the host has a deadline (`HostTerminates`); the
  endpoint waits for ever, and must find its way back (`ReadyReturnsLow`).
* *Partial failure in the endpoint*: arming succeeded, READY could not be
  raised, the callback gives the semaphore of a response nobody announced
  (`ReadyFollowsTransfer`).
* *Judging a suite.* Wrap in the middle of a suite, gaps, repetitions, timeouts
  before the first frame, a node that is held up: a PASS must mean exactly twenty consecutive frames
  (`PassedWindowHeard`), and one disturbance must not cost more than one suite
  (`OneDisturbanceOneSuite`) or the link for good (`SuitesKeepPassing`).
* *Bring-up in ten stages*, each of which may stop it half done, over an SPI whose
  errors the driver drops: what passes must have met the chip on the board
  (`IdentityGenuine`, `TransfersMeetLiveChip`), and what fails must say where
  (`SummaryExplains`). The board may be reset in the middle while its DW3110 keeps
  what was done to it.
* *A probe at somebody else's RESET.* It may fail or be reflashed between low and
  release; the CDK must still end its bring-up (`BringupEnds`). A failed transfer must
  leave CS high, must not be judged, and must not end the round of framings
  (`TransfersFramed`, `VerdictGenuine`, `EveryVariantTried`).
* *Integer arithmetic*: a digit-by-digit root that must be exact at every boundary
  (`RootExact`), a truncated signed mean next to a rounded RMS (`StatsAgree`). What the
  checksum of a window can tell is stated too (`ValidIffIntact`), though in stage 1 no
  window leaves the program that made it.
* *Packets in text*: one at the end of a line, behind half a magic, with the magic
  in its payload (`IntactPacketLogged`), one bad line among good ones
  (`ExitExplained`); lines that a viewer has prefixed or cut (`WindowsRecorded`), one
  of which may cost the whole log (`RaiseExplained`).
* *Codec boundaries*: first-fault order, unknown status codes, opcodes with bit
  7 set, lengths at their limits (the four properties of `TphipCodec`).

`PROJECT.json` lists every hazard at its line with the properties that cover it.

## 2. The modules

```
TphipFrame ── TphipCodec ── MCTphipCodec            codec
    │             └──────── TphipCodecProofs
    ├── TphipFrameProofs (lemmas for both proof modules)
    └── TphipLink ─── MCTphipLink                   wire
            │  └───── TphipLinkProofs
            └ INSTANCE TphipRpc                     what the wire promises
RfExchange ── RfEvidence ── MCRfEvidence            air, logs and checker
                  └──────── RfExchangeProofs
NucleoProbes ──┐
Dw3000Bringup ─┴─ NucleoBench ── MCNucleoBench      a probe and the CDK it resets
                     └────────── NucleoBenchProofs  (bring-up and bench)
WindowStats ── UwbInitiator ── MCUwbInitiator       vibration windows
                     └────────── UwbInitiatorProofs (statistics and loop)
GatewayPacketLog ── MCGatewayPacketLog              packets in a text log
        └────────── GatewayPacketLogProofs
RttPacketLog ── RttPacketLogProofs                  packets in an RTT log
```

A definition called `Name_Something` is a deliberately wrong version of `Name`,
the way a slip in the code would make it. No specification refers to one: they
are kept to show, by putting one in the place of `Name`, that the property it
is listed with in `PROJECT.json` notices.

### TphipFrame (codec)

A frame is a record of its header fields. Bytes and the CRC polynomial are
abstracted: the magic is a Boolean, `crcOk` says whether the stored CRC fits,
the flag byte is a set of names (the six reserved bits behave alike), `body`
what the payload holds. `ValidateRequest`, `StatusFromValidation`,
`BuildResponse`, `ValidateResponse` keep the order of the C early returns. The
null-pointer and buffer-size branches are left out: no caller can take them.
`Reply` is what one turn of the endpoint's loop makes of a frame, `Accepts` what
the host's `exchange_request` makes of an answer. `Garbled` is a damaged frame:
its CRC no longer fits and at most one header field has changed. A corruption
that keeps the CRC valid is outside the model, as it is outside the protocol.

### TphipLink (wire)

| TLA+ | code |
|---|---|
| `hpc` | the statement the host's `main` (and `reset_dwm`, `exchange_request`) executes next |
| `cur`, `outcome` | the running test and the verdicts so far; `passes` and `failures` are their counts |
| `rx` | `response_rx` |
| `dpc` | the statement the endpoint's `main` (and `receive_request`, `send_response`) executes next |
| `request`, `response` | `request_rx`, `response_tx` |
| `spis` | the transfer the SPIS driver has armed: none, a request's, a response's |
| `done` | the count of `response_done` |
| `ready` | the READY line; `float` until the endpoint configures it (it is not pulled) |
| `epoch`, `served`, `.src`, `.clean` | history, which no code reads |
| `faults` | bound |

`HostInit … Summary` are the host's steps in program order, `Boot … LowerReady`
the endpoint's. A chip-select window is one step: the driver hands the buffer
over when chip select rises, whatever the thread does meanwhile. A window finds
nothing armed (`Unheard`), a request transfer (`RequestReceived`) or a response
transfer (`ResponseCompletes`), and may be cut (`CutShort`).

Abstractions: guard bytes around the buffers are always intact, since no
modelled step overruns a buffer; `response_result` and the return value of
`send_response` are only logged; the host's and endpoint's clocks are replaced by
letting every sleep and timeout expire at any time (`Elapsed`). With `Prompt`
the endpoint reaches its next wait before any host sleep or timeout expires,
which is what a board does: milliseconds against 250 ms.

### TphipRpc (what the wire promises)

Fifty lines without wires: a suite of tests taken one at a time, a set of tests
the endpoint has answered since the host's last power-on, and a pass only for an
answered one. `TphipLink!ImplementsRpc` is the refinement. `Witnessed` names the
tests for which the pass is a proof of service. When frames can be damaged, those
are the tests that expect OK or UNKNOWN_OPCODE, which the endpoint decides after the
CRC (`Conclusive`). It echoes the sequence of a request it refuses, so a
damaged earlier request may earn the very error answer that another test waits for.

### RfExchange (air)

`tpc, sequence, tx` are `run_transmitter`'s position and locals; `npc, started,
expected, rx` are `run_receiver`'s; `event, held` are the DW3110's status and
buffer; `overdue` says that the armed receiver's 900 ms timeout comes before the
next 500 ms slot. A node is back at its radio before the next slot, which is 500 ms
against a line of text, unless it `stalls`: then slots pass it until it arms again. The programs and the checker only ask of a suite's counters
whether they are zero, so `rx.blemishes` is the set of those that are not;
suite numbers and IRQ levels are only printed and left out. `printed` holds the
lines of the last step that say PASS, of a frame and of a suite, `spoiled` counts the failed suites. Of each
disturbance kind (loss, noise, somebody else's frame, a start that fails, a
status seen too late, power cycles …) any may happen at any time, at most
`MaxDisturbances` of them.

### RfEvidence (logs and checker)

`txLog`, `rxLog` are the passing summaries in each log, `txPasses`, `rxPasses` the
passing frame lines, as far as the checker's `>= 20` looks. A line reaches its log
or does not, at most `MaxLostLines` times; a cut line is a lost one, because every
line says `result=` last. `Matches`, `Enough` and `RecordAccepted` are the verdict.
The capture ends before the sequence wraps (`StopCapture`): 65536 frames are nine
hours, and the checker makes no claim beyond. Hashes and the report are left out.

### Dw3000Bringup (reset, identity, configuration)

`pc` is the stage in progress, by the name `failure_stage` would give it, plus
`release` (the second half of the reset), `configure` (`rf_prepare`), `ready` and
`parked`. `result` is `struct thinpod_dw3000_identity_result` without what is only
printed; `Zero` is the identity field that nothing was read into. `resetPin`,
`rate` and `radio` are the pin, the SPI rate and how far the chip has come.
Any stage may fail for reasons of its own. `dwt_readdevid` drops SPI errors, so a
read returns the chip's identity or, at most `MaxCorrupted` times, another one;
`Accepted` are the identities that pass the driver's mask, which is more than one
chip. `Restart` resets the board at any stage: the program begins again with
`platform_prepared` false, the DW3110 keeps what was done to it, and the corruptions
are counted from zero, as what one power-on sees. `RfExchange` uses of all this the
two outcomes of `BootGateway` and `BootNode`.

### NucleoProbes and NucleoBench (the bench)

| TLA+ | code |
|---|---|
| `program` | which of the three probes is flashed |
| `at` | the statement its `main` (and `dwm_reset_*`, `dwm_cs_wake_pulse`, `dw3110_probe_variant`) executes next |
| `reset`, `cs` | the pins: floating, low or high |
| `variant` | `i` in the loop over `probe_variants`, from 1 |
| `ret`, `rx`, `verdict` | `spi_transceive`'s result, the receive buffer, `probe_result` |
| `answer` | what the device shifts out, which no code reads as such |

Any device, pin or transfer may fail; a failed transfer has filled the buffer or
left it zero. An answer is an identity in either byte order behind some filler, or
none. `Flash` starts one of the programs at any time with its pins floating. What the
patterns, the IRQ level and the cycle number show is only printed.

`NucleoBench` puts one of them next to `Dw3000Bringup`. `ResetReachesCdk` is the wire:
a falling RESET is the CDK's `Restart`, and while it is low the CDK does not run.

### WindowStats and UwbInitiator (vibration windows)

`WindowStats` is `thinpod_window_stats` with `isqrt_u64`, one action per turn of
a loop, at any width: the number of samples, their values and the first power
of four are constants. `power` and `root` are history, the root of `one` and the
root found so far. `UwbInitiator` is the gateway's loop around it: a window is made, it may
lose one byte in the transfer that stage 1 stubs, its statistics are computed,
it is validated and logged. Ids, sample rate and uptime are left out: they take
the same way through the checksum as the sequence. A byte, the checksum and the
synthetic wave have parameters for widths; a sample is one byte here. `^` between the
sum and a byte is a parameter too (`ByteXor`), of which `XorAssumption` asks what the C
operator has: it undoes itself, and different bytes give different sums. `MCUwbInitiator`
puts the bitwise operator in its place, and TLC evaluates the assumption.

### GatewayPacketLog (packets in a text log)

A line is the sequence of tokens that `HEX_TOKEN_RE` finds: `54`, `50`, the
placeholder `XX`, and `nn` for any other byte. Whether the CRC of a packet fits is left
open, since no decision of the logger depends on it. `ReadLine` is a turn of
`parse_input`'s loop, `EndOfInput` the rest of `main`.

### RttPacketLog (packets in an RTT log)

A line is a sequence of words: the tag `TPGW_PKT`, the tag behind the banner's
`packet_log_format=`, a `key=value` field, or other text. A field carries the sequence
of the window it was printed for, and what a cut has left of it: all, nothing behind
the `=`, a bare `0x`, or a part of the number. `PrintLine` is one printk of either stage-1
program, `Restart` and `Close` may cut the line being printed at any word or within
one, and a viewer attached to a running board sees the rest of a line (`Headless`).
`ParseLine` is one turn of `parse_file`. One of the programs logs at a time; the parser
makes nothing of the node's lines, which the runs confirm.

## 3. The runs

| Run | Instance | What it shows |
|---|---|---|
| `codec` | 27,650 frames around each boundary, tests with sequences 1 and 2 | every reply is well formed, OK is given to intact requests only, directions are disjoint, each test detects its own fault |
| `link_prompt` | the whole suite of 15, prompt endpoint, 2 faults out of damage, arming, READY, 1 host restart | without a fault all pass; otherwise two tests per fault at most, never a phase slip; a damaged request passes for an error of the frame at most |
| `link_adverse` | 3 tests, 2 faults of any kind, 1 host restart, endpoint of any speed, fairness | types, provenance, genuine answers, semaphore discipline, refinement of `TphipRpc`; the host ends, READY comes down |
| `link_slip` | 3 tests, no fault, slow endpoint | expected violation, see section 6 |
| `rf` | suites of 3, sequences mod 8, 2 disturbances of any kind, 1 lost line, fairness | types; a passed suite has no hole; a disturbance spoils one suite at most; an accepted record of one power-on shows an exchange; an undisturbed complete capture is accepted; suites keep passing |
| `evidence_reboot` | 2 disturbances: a status seen too late and a restarted gateway | expected violation, see section 6 |
| `bench` | three probes, 6 answers, 4 identities, 2 of them accepted, 3 corrupted reads per power-on, 2 polls for IDLE_RC, any number of flashings and resets, fairness | types, framed transfers, genuine verdicts; genuine identity, live chip, summaries that explain themselves; bring-up ends, every framing is tried for ever |
| `gateway_loop` | every sequence of a 4-bit byte, 3 samples, an 8-bit checksum, any one byte changed | types, exact root, statistics that agree, valid exactly when intact |
| `packet_log` | inputs of 2 lines out of 8 texts, 13 packets of up to 5 tokens, 3 rests | types, no intact packet lost or shifted, exit codes |
| `packet_timestamp` | one such line | expected violation, see section 6 |
| `rtt` | 2 windows per power-on, 2 restarts, 1 line cut anywhere, with and without the viewer's prefix, either program | types; every whole window recorded, once and in order; the parser raises exactly for a bare `0x` |
| `rtt_records` | the same, nothing cut | expected violation, see section 6 |

### Why the bounds are enough

* Three tests on the wire: one whose answer is stale, one that meets it, and a
  third, an error test, whose answer has neither capabilities nor status OK.
  Stale answers cannot be older than one exchange, since there is one response
  buffer and one armed transfer. Two faults let a second one hit the recovery
  from the first; a restart brings in the reuse of sequences. `link_prompt` has the
  whole suite, so that two faults of two tests each leave room to be exceeded. What it
  checks is proved for any number of both, of that suite. `GenuineAnswer`, proved for any
  suite, is checked in both runs: `link_adverse` has two tests between which a stale answer could be
  mistaken, `link_prompt` every error test with its neighbour.
* Suites of three have a first, an inner and a last frame. The modulus is larger
  than a suite and no multiple of it, as 65536 is no multiple of 20, so the wrap
  falls on every position of a suite. Two disturbances let the second hit the recovery
  from the first, or a restart meet a lost frame; one lost line is enough for a log that
  shows a suite in part.
* The error kinds of the codec's 27,650 inputs are every combination of a
  right and a wrong value per field, two wrong values where there are two kinds.
* Three corrupted reads are what it takes to forge an identity, so the case that
  `IdentityGenuine` excludes is reached. The proofs cover any other numbers. The six
  answers begin with an identity, end with it at each framing's last byte, have it cut by
  one byte, have it big-endian or not at all. Flashings and resets are not bounded.
* Samples of four bits give every sign of the sum with every remainder by three,
  and mean squares on both sides of a square; the rest is proved. The checksum
  has the shape of the real one: a byte goes in at the low end, the rotation is by
  less than a byte's width, the increment is odd and the word is wider than a byte.
  `ValidIffIntact` is proved for every width.
* Packets of five tokens have a magic, one byte of payload and two of CRC, enough
  for a second magic inside and for one half in front. Two lines show that one
  does not affect the other, other than by ending a strict run.
* Two windows of two power-ons put equal sequences side by side in an RTT log, and one
  cut leaves whole lines before and behind it.

CHECK_DEADLOCK is FALSE where a system really stops: the host in `idle` or
`dead`, an RF program parks when `rf_prepare` fails, the transmitter stops at
`LastSequence`, the logger and the RTT parser come to their end. `gateway_loop`,
`codec` and `bench` are checked for deadlock.

## 4. Fairness

`FairSpec` asks weak fairness of the host's program and of the endpoint's
thread: each is alone on its core, and Zephyr's only other activity is interrupts
that return. No fault, restart or particular outcome is fair. `EvidenceFairSpec` asks
weak fairness of both RF loops and of the radio reporting some event when it is
armed: the receive timeout is programmed into it before each arming.
It asks neither that a particular frame arrives nor anything of the loggers. A
stall ends, because `NodeStep` is fair. `ReadyReturnsLow` gives up when a
further fault happens, since one of them is that READY cannot be driven low.
`BenchFairSpec` asks weak fairness of the NUCLEO's program and of the CDK's, each a
single thread, and nothing of the operator, of the SPI or of IDLE_RC ever being
reached. `BringupEnds` therefore says when it can be expected: once RESET is no longer
driven low, or once the register probe runs, which releases it.

## 5. The proofs

Every safety property that a run checks is proved, for every value of the constants:
every suite of distinct non-zero sequences, every adversary and every bound on the wire;
every set of identities, every number of polls and of corrupted reads in bring-up; every
modulus, length of suite and number of disturbances in the air; every set of answers on
the bench; every length of window, every width of the root, of a byte and of the
checksum; every length of a packet and every set of texts; every number of windows,
restarts and cuts in an RTT log. The assumptions are `TestsAssumption`,
`BoundsAssumption`, `InputsAssumption`, `RfAssumption`, `EvidenceAssumption`,
`BringupAssumption`, `ProbesAssumption`, `StatsAssumption`, `WindowAssumption`,
`XorAssumption`, `LogAssumption` and `RttAssumption`, which TLC evaluates in the runs.
Only the three theorems about a prompt endpoint have hypotheses besides (below).

| Theorem | Says |
|---|---|
| `RepliesAreWellFormed`, `OkIsEarned`, `NoLoopback`, `SuiteDiscriminates` (TphipCodecProofs) | the four codec invariants for every set of inputs |
| `LinkTypeCorrect` (TphipLinkProofs) | `Spec => []TypeOK` |
| `LinkProvenance` | `Spec => []Provenance` |
| `LinkGenuineAnswer` | `Spec => []GenuineAnswer` |
| `LinkReadyFollows` | `Spec => []ReadyFollowsTransfer`: READY rises over an armed or just completed response and falls when its transfer has ended |
| `LinkImplementsRpc` | `Spec => ImplementsRpc`: the refinement of `TphipRpc` |
| `PassesAreServed` | what the refinement says of a pass: a witnessed test that passed since the host's last power-on was served since then |
| `HealthySuitePasses` | with a prompt endpoint and the probe's tests: no fault, no failed test |
| `DamageIsBounded`, `ClockMeetsResponse` | with mild faults besides: two tests per fault at most, and a response phase always meets the armed response |
| `RfTypeCorrect` (RfExchangeProofs) | `RfSpec => []RfTypeOK` |
| `PassedWindowsHeard` | what a passing receiver window is evidence of |
| `DisturbancesAreBounded` | a disturbance costs one suite at most |
| `EvidenceRunsRf` | `EvidenceSpec => RfSpec`: the loggers only watch, so the three hold in `rf` too |
| `RecordsAreSound` | `EvidenceSpec => []SessionSound`: an accepted record of one power-on shows an exchange |
| `UndisturbedRecordsPass` | `EvidenceSpec => []ProcedureSuffices` |
| `BringupTypeCorrect` (NucleoBenchProofs) | `BringupSpec => []BringupTypeOK` |
| `BringupIdentityGenuine`, `BringupMeetsLiveChip`, `BringupSummaryExplains` | the three safety properties of bring-up, with resets of the board at any stage |
| `ProbesTypeCorrect` | `BenchSpec => []ProbesTypeOK` |
| `BenchTransfersFramed`, `BenchVerdictGenuine` | the two safety properties of the probes |
| `BenchRunsBringup` | `BenchSpec => BringupSpec`: the bench implements bring-up |
| `BenchKeepsBringup` | so the CDK's three safety properties hold on the bench |
| `StatsTypeCorrect` (UwbInitiatorProofs) | `StatsSpec => []StatsTypeOK` |
| `StatsRootExact`, `StatisticsAgree` | the root is exact, the statistics agree |
| `LoopTypeCorrect` | `LoopSpec => []LoopTypeOK`, the types of the loop and of the statistics it runs |
| `DamageIsNoticed` | `LoopSpec => []ValidIffIntact`: the checksum notices any one changed byte |
| `LoopKeepsStats` | the three properties of the statistics hold in the gateway's loop |
| `LogTypesCorrect`, `IntactPacketsLogged`, `ExitsExplained` (GatewayPacketLogProofs) | the three invariants of the packet logger |
| `RttTypesCorrect`, `WindowsRecordedAlways`, `RaisesExplained` (RttPacketLogProofs) | the three invariants of the RTT log |

*The codec.* Each of the probe's tests differs from an intact request in one thing at
most, and `ValidateRequest` reports it; so an answer that a test accepts has its opcode,
its sequence and the status of that one fault.

*The wire.* `TypeOK` is not inductive: the host indexes `Tests[cur]`, so it
needs `InSuite`, that `cur` names a test wherever an exchange is under way;
`TypeInv` is the two together. `GenuineAnswer` is far from inductive: it speaks
of the frame the host holds, which came from the endpoint's response buffer,
which was made from its request buffer, which may have been filled in an earlier
exchange or before a restart. `Provenance` follows a frame along that way:
`FromRequest` and `FromAnswer` say which frame it is, given its history, and
`Recent` that it is from this power-on once RESET has been pulsed. It is inductive
together with `TypeInv`, one step per action. From it: an accepted answer has
the running test's sequence; a clean one is the `Reply` to some test's request,
whose sequence it echoes, and sequences are distinct; a damaged one with a valid
CRC answers a damaged request, and `RefusedRequest` says that its status is neither
OK nor UNKNOWN_OPCODE, both of which come after the CRC in
`tphip_validate_request`. `TphipFrameProofs` has
the facts about the codec that this takes.

*READY.* `ArmedByPhase` says what the driver may hold at each statement of the endpoint:
a request's transfer exactly while it waits for one, a response's only from arming on, and
once READY is to be raised, either the response's transfer or the `done` of the completed one,
never both and never neither, which is what the reset of the semaphore before arming is for.
`PhaseInv` adds that RESET holds the endpoint until the host releases it. A chip-select window is the one step
that two sides take together (`PhaseWindow`).

*The refinement.* A step of the link maps to `Pass` or `Record("fail")` where a test is
concluded, to `Answer` where the endpoint has served a request, to `Restart`, or to a
stutter. For `Pass` it needs that a witnessed test that is accepted has been served:
`Accounted` says that the request which the response buffer and the host's receive buffer
answer, if any, is in `served`, that `served` has nothing of a power-on to come, and that
without damage on the wire every frame is clean. With `GenuineAnswer` the accepted answer is
to the running test. `PassesAreServed` follows from the refinement: `PassesAnswered` is shown of the steps
of `TphipRpc` alone, and the link's steps are steps of it.

*A prompt endpoint.* The three theorems assume `Prompt`, that every test is one the
probe has (`ProbesSuite`: a member of `TestsWith`), and for the last two that the
adversary keeps to `Mild` faults: damaged frames, transfers not armed, a READY not
raised. The instance of `link_prompt` satisfies them. `InStep` says where the endpoint is
whenever the host executes a statement: waiting for a request when one is sent, about to
raise READY while the host waits for it, with the response armed when it is clocked. A
fault breaks that for the rest of its exchange and the first half of the next. `Paid` is
the ledger: the tests that have failed, and those that `Owed` says are yet to fail, are
at most twice the faults. A test that fails with nothing owed is one whose fault happened in it
(`PaidFailure`); `OfThisTest` says that otherwise the answer at hand is to the running test, and clean,
so that it passes (`CleanAnswerPasses`).

*The air.* `PassedWindowHeard` speaks of a suite that is over; `SuiteSoFar` says what has
been heard of the one in progress: unless it has a blemish, the frames heard are as many as it counted as valid, with the
sequences from `rx.first` up to before `expected` (`Consecutive`). `Shifts` is the arithmetic
of sequences that wrap. `OneDisturbanceOneSuite` is proved with a ledger. A disturbance need not
show at once: a lost frame is noticed with the next, and a node that stalls may damage
the suite after the one in progress. `Behind` says that the suite in progress is damaged or
will be before it can end, `Later` that the next one will be, and `Paid` that the
suites spoiled and these two together are no more than the disturbances. A disturbance adds
one of the two at most (`DisturbedStep`), a frame that ends a suite turns `Behind` into a
spoiled suite and `Later` into `Behind` (`LedgerFrame`), and nothing else adds anything
(`CalmStep`). `NodeIdle` says that a node that is not receiving owes nothing from
before.

*The record.* `EvidenceInv` adds to the above that every frame heard in the suite in
progress and in those logged carries the power-on it was sent in, and that no logged
transmitter summary is of a power-on to come, and that a logged reception has
its window's sequences. Within the first power-on two frames with the same
sequence are therefore the same frame until it wraps, at which the capture ends, and two suites with the
same window are the same frames: the checker's comparison of two numbers suffices.
`ProcedureInv` is about the undisturbed case and is the one place that needs to know
where both sides are: `GatewaySoFar` and `NodeSoFar` count the frames each has printed, from a
node that heard sequence 1, so that the first window of both is the same and each log
has its twenty lines when the node's is printed.

*Bring-up.* Three invariants. `ReadingsPaidFor`: of the identities read so far, as
many as differ from the chip's have used up a corruption, so with fewer than three
at least one is the chip's, and `device_id_stable` makes it all three.
`ResetBehind`: from the stage after `release` on, the pin is an input and the chip
has been reset, and from the third read on the rate is fast. `SummarySoFar`: the stages before the one in
progress have passed and the others have not, whatever their fields' defaults; a
failure keeps that and names the stage. A `Restart` re-establishes all three.

*The bench.* `BenchMoves` splits a step into what it does to the probe and what to the
CDK. `PinsBehind` adds to `TransfersFramed` which levels each statement finds, so that a
probe's transfers are framed after every failure. `ScanExact` is the heart of the verdict: in the
bytes a whole transfer leaves, some offset of the scan shows an identity if and only if the
transfer had room for it, whatever the filler, because no proper shift of either byte order
overlaps an identity. `VerdictSoFar` carries the buffer from transfer to verdict. As a
step of the bench is a step of bring-up, a `Restart` or a stutter, `BenchRunsBringup` holds
without any invariant, and `BenchKeepsBringup` follows from the theorems of bring-up.

*Window statistics.* `StatsInv` is the conjunction of the type invariant,
`SumsSoFar` (the extremes bound what was summed, and, after the inequality of
Cauchy and Schwarz, the square of the sum is at most the number of samples times the
sum of squares), `MeanTaken` and `RootSoFar`. `SumsSoFar` is carried from sample to
sample, since nothing can be said about a recursively defined sum. `RootSoFar`
is `Rooted(x, op, res, one, root, power)`: `op` is what the square of `root`
leaves of `x`, `one` and `res` are `power * power` and `2 * power * root`, and `x` is
below the square of `root + 2 * power`; once `one` is zero, that is the definition of the
integer root. `RootTurn`, `DigitTurn` and `ShiftTurn`
are its arithmetic over numbers, apart from the model.

*The checksum.* A round is a rotation, a `ByteXor` and an addition modulo the word. `RotatedIs` shows that a
rotation exchanges the two digits of the sum to the base it is cut at, and `DigitsUnique` that these
determine it; so a round maps different sums to different sums, and different
bytes to different sums (`MixedInjective`). The sum over a line of bytes is a recursive
function. That it exists, and that two sums that differ once differ from there on, are
inductions over its length; both are done with a least counterexample. Two windows
that differ in one byte differ in one place of what is serialised, or in the stored
checksum. `WindowInv` is the inductive invariant: the window that travels is the one that was
`Made`, and once it has been damaged or not, it validates exactly if it is that one.

*The packet logger.* The search of a line for the first magic is a minimum over its
positions; `IntactPacketLogged` excludes lines in which one stands before the packet, so
that the minimum is where the packet begins, and the tokens from there are the packet's,
whatever follows. `RowsInv` says of the lines read so far that each has one row at most, that a packet found
has its row unless it ended a strict run, and that a strict run keeps no row in error.

*The RTT log.* `LogLine` is the inductive fact about the log: every line has no tag at all
(`Plain`), is the banner's announcement or its beginning (`FormatPart`), or is the
beginning of a packet line of a window that was printed, `m` of its fields whole and the
next one perhaps cut (`PacketPart`). Of each kind it is shown what a cut makes of it, and what the parser
does: `LineParsed` says that a line becomes the record of a window exactly if it is
the window's whole line, and makes the parser raise exactly if it ends in a bare `0x`.
`ParseInv` carries the order-preserving map from the tagged lines parsed so far onto the records.

*Only model-checked*: liveness (`HostTerminates`, `ReadyReturnsLow`,
`SuitesKeepPassing`, `BringupEnds`, `EveryVariantTried`), which the prover cannot
treat; and the four violations of section 6, each a counterexample.

## 6. Findings

* **READY can announce a response that is gone** (`link_slip`). The endpoint
  arms the response and then raises READY. A host whose 250 ms are over may send
  its next request between the two; its 16 clocks swallow the response, READY
  rises over nothing, and the host clocks a response that is idle bytes.
  `docs/dwm-to-nucleo-host-interface-protocol.md:127-130` promises the prepared
  frame. Nothing wrong is accepted (`GenuineAnswer`), but with one fault of some
  kinds (`ready_read`, `host_spi`, `ready_clear`, an endpoint reset) the two sides
  stay out of step even with a prompt endpoint, because only a passed exchange is
  followed by the sleep that lets the endpoint catch up. This is why `link_prompt`
  names the kinds it bounds. `logs/99_Engineering_Log.md:12-17` describes such an
  episode.
* **The checker can join two power-ons** (`evidence_reboot`). It pairs a passing
  transmitter summary with any receiver summary of the same window, but every
  power-on starts at sequence 1. A suite nobody heard can be paired with the
  reception of another one in which the transmitter recorded a failure, against
  what `scripts/check_dw3110_rf_exchange.py:4-8` says of an accepted record.
* **A timestamp can pass for a packet** (`packet_timestamp`). `extract_packet_tokens`
  takes the first `54 50` of a line, and `[12:54:50]` contains one. The row then
  starts inside the timestamp, and the packet behind it is read two bytes
  askew. `scripts/gateway_packet_logger.py:129` says that the function avoids timestamp
  fragments before the packet. `IntactPacketLogged` states what does hold.
* **The banner becomes a packet** (`rtt_records`). The gateway announces its format
  with `packet_log_format=TPGW_PKT key=value`, and the parser looks for the tag anywhere
  in a line: a log that was captured from the start has one record too many,
  `{'key': 'value'}`. `docs/ThinPod_UWB_Roles_Stage1_Summary.md:215` says that the parser
  extracts `TPGW_PKT` lines. No window's record is affected (`WindowsRecorded`).

A second observation: a line cut just behind `0x` makes `parse_value` raise, and the
log yields no records at all. `RaiseExplained` states it as what the parser does, because
nothing in the repository promises otherwise.

An observation that is no finding: the windows of a node that starts in the
middle of a transmitter suite never coincide with the transmitter's, however
well frames arrive, until a failed suite shifts them, since the receiver's
suites are back to back. The procedure (start the node first) avoids it.

## 7. Plan

Done: codec, wire and its abstract specification, air with logs and checker, bring-up with
resets, the bench probes and the CDK they reset, vibration windows and their statistics,
both packet logs; proofs of every safety property the runs check, and of the two refinements
(`LinkImplementsRpc`, `BenchRunsBringup`).

1. `BootGateway` and `BootNode` refined by an instance of `Dw3000Bringup` each, so
   that a power cycle in the air comes with its bring-up, and the proof that this implements
   `RfExchange`.
2. The host-interface probe's own start-up failures on the bench of `NucleoBench`, so that a
   CDK that serves TPHIP may find any probe at its RESET.
3. Within one power-on, `ProcedureSuffices` with a bound on the disturbances instead of
   none: by `OneDisturbanceOneSuite` a capture of one suite more per disturbance should do.

## 8. Not modelled, and why

* The bytes of frames, the CRC polynomial, the vectors that pin it down: the
  properties only ask whether a CRC fits.
* Log wording, pin numbers, SPI modes: no property depends on them.
* The Zephyr drivers, the nRF SPIS and the DW3110 are external; they are modelled
  by what the code relies on (a pending asynchronous transfer holds the driver's
  lock; a latched event stays until it is cleared).
* The OTP values, SPI segments, sleeps and the driver's mutex: they keep no state that
  a later step reads.
* Decoding a packet's fields, CSV and JSONL output: formatting.
* Release and OSHWA checks, heartbeat programs: they look for files or blink.

To run a check: `tlc -config MCTphipLink_adverse.cfg MCTphipLink`; to check the
proofs: `tlapm TphipLinkProofs.tla`.
