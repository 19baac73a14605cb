------------------------------ MODULE TphipLink ------------------------------
(***************************************************************************)
(* The wired host interface: the NUCLEO probe (the SPI controller, "host") *)
(* runs its test suite against the DWM3001-CDK endpoint over SPI, a READY  *)
(* line driven by the endpoint and a RESET line driven by the host.        *)
(*                                                                         *)
(*   host      firmware/nucleo_dwm_host_interface_probe/src/main.c         *)
(*   endpoint  firmware/dwm3001cdk_host_interface_stub/src/main.c          *)
(*                                                                         *)
(* Each program counter names the statement its thread executes next.  A   *)
(* chip-select window is one step: the SPIS driver hands the buffer to the *)
(* endpoint, or to the host, only when chip select rises.  What a window   *)
(* does depends on the transfer the endpoint has armed at that moment,     *)
(* never on what the host believes it is doing, which is where the two     *)
(* sides can slip out of phase.                                            *)
(*                                                                         *)
(* Messages carry history variables no code reads: src is the power-on of  *)
(* the host and the test a frame descends from, clean is FALSE once the    *)
(* frame, or the request it answers, was damaged on the wire.              *)
(* Name_Something is a wrong version of Name that the properties notice.   *)
(***************************************************************************)
EXTENDS TphipFrame, FiniteSets, Sequences

CONSTANTS
  Tests,        \* the suite: a sequence of the probe's tests
  Adversary,    \* the kinds of fault that may happen
  MaxFaults,    \* bound: how many faults happen in a behaviour
  MaxRestarts,  \* bound: how often the host is restarted
  Prompt        \* TRUE: the endpoint is done before any host sleep or timeout

FaultKinds ==
  { "host_gpio",    \* a host pin cannot be configured
    "host_spi",     \* a host SPI transfer returns an error
    "ready_read",   \* gpio_pin_get_raw on READY returns an error
    "garble",       \* a frame is damaged on the wire
    "dwm_boot",     \* the endpoint's device or READY pin is not usable
    "dwm_arm",      \* arming an SPIS transfer returns an error
    "ready_set",    \* driving READY high returns an error
    "ready_clear",  \* driving READY low fails (the code ignores it)
    "dwm_reset" }   \* the endpoint restarts on its own

Exchanges == [ request : Frame, status : Word, opcode : Byte, caps : BOOLEAN ]

ASSUME TestsAssumption ==
  /\ Tests \in Seq(Exchanges)
  /\ Tests # <<>>
  /\ \A i \in 1 .. Len(Tests) : Tests[i].request.sequence # 0
  /\ \A i, j \in 1 .. Len(Tests) :
        Tests[i].request.sequence = Tests[j].request.sequence => i = j

ASSUME BoundsAssumption ==
  /\ Adversary \subseteq FaultKinds
  /\ MaxFaults \in Nat
  /\ MaxRestarts \in Nat
  /\ Prompt \in BOOLEAN

VARIABLES
  hpc, cur, rx, outcome,                \* host
  dpc, request, response, spis, done,   \* endpoint and its SPIS driver
  ready,                                \* the READY line
  epoch, served,                        \* history: host power-ons, requests served
  faults                                \* bound: faults so far

host     == <<hpc, cur, rx, outcome>>
endpoint == <<dpc, request, response, spis, done>>
vars     == <<hpc, cur, rx, outcome, dpc, request, response, spis, done,
              ready, epoch, served, faults>>

TestIds == 1 .. Len(Tests)

NoSource == <<0, 0>>
Sources  == Nat \X Nat
Message  == [ frame : Frame, src : Sources, clean : BOOLEAN ]

NoMessage   == [ frame |-> ZeroFrame, src |-> NoSource, clean |-> TRUE ]
IdleMessage == [ frame |-> IdleFrame, src |-> NoSource, clean |-> TRUE ]

TypeOK ==
  /\ hpc \in {"init", "reset", "release", "settle", "wait_idle", "send",
              "wait_high", "clock", "wait_low", "sleep", "idle", "dead"}
  /\ cur \in 1 .. (Len(Tests) + 1)
  /\ rx \in Message
  /\ outcome \in [TestIds -> {"none", "pass", "fail"}]
  /\ dpc \in {"held", "boot", "arm_req", "wait_req", "backoff", "build",
              "arm_rsp", "raise", "wait_done", "lower", "dead"}
  /\ request \in Message
  /\ response \in Message
  /\ spis \in {"idle", "req", "rsp"}
  /\ done \in {0, 1}
  /\ ready \in {"low", "high", "float"}
  /\ epoch \in Nat
  /\ served \in SUBSET Sources
  /\ faults \in 0 .. MaxFaults

-----------------------------------------------------------------------------
(* Building blocks.                                                        *)

Fault(kind) ==
  /\ kind \in Adversary
  /\ faults < MaxFaults
  /\ faults' = faults + 1

NoFault == faults' = faults

\* READY is not pulled, so until the endpoint drives it the host may read
\* either level.
ReadsAs(level) == ready \in {level, "float"}

\* The endpoint can do nothing before the host's next move.
Quiescent ==
  \/ dpc \in {"held", "dead", "wait_req"}
  \/ dpc = "wait_done" /\ done = 0
  \/ dpc = "arm_req" /\ spis = "rsp"

\* A host sleep or timeout runs out.
Elapsed == Prompt => Quiescent

Damaged(m) == { [m EXCEPT !.frame = g, !.clean = FALSE] : g \in Garbled(m.frame) }

-----------------------------------------------------------------------------
(* The host.                                                               *)

Init ==
  /\ hpc = "init" /\ cur = 1 /\ rx = NoMessage
  /\ outcome = [i \in TestIds |-> "none"]
  /\ dpc = "boot" /\ request = NoMessage /\ response = NoMessage
  /\ spis = "idle" /\ done = 0
  /\ ready = "float"
  /\ epoch = 1 /\ served = {} /\ faults = 0

\* main returns early
HostDies ==
  /\ hpc' = "dead"
  /\ UNCHANGED <<cur, rx, outcome>>

HostInit_NoReset ==
  /\ hpc = "init"
  /\ \/ hpc' = "wait_idle" /\ NoFault /\ UNCHANGED <<cur, rx, outcome>>
     \/ Fault("host_gpio") /\ HostDies
  /\ UNCHANGED <<endpoint, ready, epoch, served>>
HostInit ==
  /\ hpc = "init"
  /\ \/ hpc' = "reset" /\ NoFault /\ UNCHANGED <<cur, rx, outcome>>
     \/ Fault("host_gpio") /\ HostDies
  /\ UNCHANGED <<endpoint, ready, epoch, served>>

\* RESET low stops the endpoint; its RAM and peripherals start afresh.
EndpointCleared ==
  /\ request' = NoMessage
  /\ response' = NoMessage
  /\ spis' = "idle"
  /\ done' = 0
  /\ ready' = "float"

AssertReset ==
  /\ hpc = "reset"
  /\ \/ /\ hpc' = "release" /\ NoFault
        /\ dpc' = "held" /\ EndpointCleared
        /\ UNCHANGED <<cur, rx, outcome>>
     \/ /\ Fault("host_gpio") /\ HostDies
        /\ UNCHANGED <<endpoint, ready>>
  /\ UNCHANGED <<epoch, served>>

\* If the pin cannot be made an input, RESET stays low for good.
ReleaseReset ==
  /\ hpc = "release"
  /\ \/ /\ hpc' = "settle" /\ NoFault /\ dpc' = "boot"
        /\ UNCHANGED <<cur, rx, outcome>>
     \/ /\ Fault("host_gpio") /\ HostDies
        /\ UNCHANGED dpc
  /\ UNCHANGED <<request, response, spis, done, ready, epoch, served>>

Settle ==
  /\ hpc = "settle"
  /\ Elapsed
  /\ hpc' = "wait_idle"
  /\ UNCHANGED <<cur, rx, outcome, endpoint, ready, epoch, served, faults>>

\* wait_ready_level(expected): the loop sees the level, or the deadline
\* passes (the level may have changed since the last sample), or the pin
\* cannot be read.
ReadyTimesOut_NoDeadline(expected) == FALSE
ReadyTimesOut(expected) ==
  /\ Elapsed
  /\ Prompt => ready # expected
  /\ NoFault

WaitIdle ==
  /\ hpc = "wait_idle"
  /\ \/ /\ ReadsAs("low") /\ NoFault
        /\ hpc' = "send" /\ UNCHANGED <<cur, rx, outcome>>
     \/ (ReadyTimesOut("low") \/ Fault("ready_read")) /\ HostDies
  /\ UNCHANGED <<endpoint, ready, epoch, served>>

\* run_valid_exchange and its siblings returned; main counts the result and
\* moves on.  Only a passed exchange ends with the inter-transaction sleep.
Conclude_NoSleep(verdict) ==
  /\ outcome' = [outcome EXCEPT ![cur] = verdict]
  /\ cur' = cur + 1
  /\ hpc' = "send"
Conclude_CountsTwice(verdict) ==
  /\ outcome' = [outcome EXCEPT ![cur] = verdict]
  /\ cur' = cur + 2
  /\ hpc' = IF verdict = "pass" THEN "sleep" ELSE "send"
Conclude(verdict) ==
  /\ outcome' = [outcome EXCEPT ![cur] = verdict]
  /\ cur' = cur + 1
  /\ hpc' = IF verdict = "pass" THEN "sleep" ELSE "send"

-----------------------------------------------------------------------------
(* A chip-select window, by the transfer the endpoint has armed.           *)

\* Nobody listens: the endpoint sees nothing.
Unheard == spis = "idle" /\ UNCHANGED endpoint

\* The request transfer completes with 16 bytes in request_rx.
RequestReceived(m) ==
  /\ spis = "req"
  /\ spis' = "idle"
  /\ request' = m
  /\ dpc' = "build"
  /\ UNCHANGED <<response, done>>

\* The response transfer completes, whole or cut: the callback gives the
\* semaphore, and the driver's lock is free again.
ResponseCompletes ==
  /\ spis = "rsp"
  /\ spis' = "idle"
  /\ done' = 1
  /\ UNCHANGED <<dpc, request, response>>

\* Chip select rises before 16 bytes were clocked.
CutShort ==
  \/ Unheard
  \/ /\ spis = "req"
     /\ spis' = "idle"
     /\ dpc' = "backoff"
     /\ UNCHANGED <<request, response, done>>
  \/ ResponseCompletes

\* The host SPI driver returns an error; any part of m may have been clocked.
TransferFails(m) ==
  /\ Fault("host_spi")
  /\ UNCHANGED endpoint \/ CutShort \/ RequestReceived(m)
  /\ Conclude("fail")

Sent == [ frame |-> Tests[cur].request, src |-> <<epoch, cur>>, clean |-> TRUE ]

\* 16 bytes of request.  If a response is armed they swallow its first half.
SendRequest ==
  /\ hpc = "send"
  /\ cur \in TestIds
  /\ rx' = NoMessage
  /\ \/ /\ hpc' = "wait_high"
        /\ UNCHANGED <<cur, outcome>>
        /\ \/ Unheard /\ NoFault
           \/ ResponseCompletes /\ NoFault
           \/ RequestReceived(Sent) /\ NoFault
           \/ \E m \in Damaged(Sent) : RequestReceived(m) /\ Fault("garble")
     \/ TransferFails(Sent)
  /\ UNCHANGED <<ready, epoch, served>>

WaitHigh ==
  /\ hpc = "wait_high"
  /\ \/ /\ ReadsAs("high") /\ NoFault
        /\ hpc' = "clock" /\ UNCHANGED <<cur, rx, outcome>>
     \/ /\ ReadyTimesOut("high") \/ Fault("ready_read")
        /\ Conclude("fail") /\ UNCHANGED rx
  /\ UNCHANGED <<endpoint, ready, epoch, served>>

\* 32 zero bytes.  If a request is awaited, the endpoint takes the first 16
\* for one; unless a response is armed, the host reads idle bytes.
ClockResponse ==
  /\ hpc = "clock"
  /\ \/ /\ hpc' = "wait_low"
        /\ UNCHANGED <<cur, outcome>>
        /\ \/ Unheard /\ rx' = IdleMessage /\ NoFault
           \/ RequestReceived(NoMessage) /\ rx' = IdleMessage /\ NoFault
           \/ ResponseCompletes /\ rx' = response /\ NoFault
           \/ /\ ResponseCompletes /\ rx' \in Damaged(response)
              /\ Fault("garble")
     \/ TransferFails(NoMessage) /\ UNCHANGED rx
  /\ UNCHANGED <<ready, epoch, served>>

WaitLow ==
  /\ hpc = "wait_low"
  /\ \/ /\ ReadsAs("low") /\ NoFault
        /\ Conclude(IF Accepts(Tests[cur], rx.frame) THEN "pass" ELSE "fail")
     \/ /\ ReadyTimesOut("low") \/ Fault("ready_read")
        /\ Conclude("fail")
  /\ UNCHANGED <<rx, endpoint, ready, epoch, served>>

Sleep ==
  /\ hpc = "sleep"
  /\ Elapsed
  /\ hpc' = "send"
  /\ UNCHANGED <<cur, rx, outcome, endpoint, ready, epoch, served, faults>>

Summary ==
  /\ hpc = "send"
  /\ cur \notin TestIds
  /\ hpc' = "idle"
  /\ UNCHANGED <<cur, rx, outcome, endpoint, ready, epoch, served, faults>>

\* The operator restarts the NUCLEO: its transfer, if any, is cut, its pins
\* float (a held RESET is released), and main starts over.
HostRestart ==
  /\ epoch <= MaxRestarts
  /\ epoch' = epoch + 1
  /\ hpc' = "init" /\ cur' = 1 /\ rx' = NoMessage
  /\ outcome' = [i \in TestIds |-> "none"]
  /\ \/ dpc # "held" /\ UNCHANGED endpoint
     \/ hpc \in {"send", "clock"} /\ CutShort
     \/ /\ dpc = "held" /\ dpc' = "boot"
        /\ UNCHANGED <<request, response, spis, done>>
  /\ UNCHANGED <<ready, served, faults>>

HostStep ==
  \/ HostInit \/ AssertReset \/ ReleaseReset \/ Settle \/ WaitIdle
  \/ SendRequest \/ WaitHigh \/ ClockResponse \/ WaitLow \/ Sleep \/ Summary

-----------------------------------------------------------------------------
(* The endpoint.                                                           *)

Boot ==
  /\ dpc = "boot"
  /\ \/ dpc' = "arm_req" /\ ready' = "low" /\ NoFault
     \/ Fault("dwm_boot") /\ dpc' = "dead" /\ UNCHANGED ready
  /\ UNCHANGED <<host, request, response, spis, done, epoch, served>>

\* receive_request: spi_transceive waits for the driver's lock, which a
\* pending response transfer holds.
ArmRequest ==
  /\ dpc = "arm_req"
  /\ spis = "idle"
  /\ request' = NoMessage
  /\ \/ spis' = "req" /\ dpc' = "wait_req" /\ NoFault
     \/ Fault("dwm_arm") /\ dpc' = "backoff" /\ UNCHANGED spis
  /\ UNCHANGED <<host, response, done, ready, epoch, served>>

Backoff ==
  /\ dpc = "backoff"
  /\ dpc' = "arm_req"
  /\ UNCHANGED <<host, request, response, spis, done, ready, epoch, served, faults>>

Build ==
  /\ dpc = "build"
  /\ response' = [request EXCEPT !.frame = Reply(request.frame)]
  /\ served' = served \cup ({request.src} \ {NoSource})
  /\ dpc' = "arm_rsp"
  /\ UNCHANGED <<host, request, spis, done, ready, epoch, faults>>

\* send_response: k_sem_reset, then spi_transceive_cb.
ArmResponse_NoSemReset ==
  /\ dpc = "arm_rsp"
  /\ \/ spis' = "rsp" /\ dpc' = "raise" /\ NoFault
     \/ Fault("dwm_arm") /\ dpc' = "arm_req" /\ UNCHANGED spis
  /\ UNCHANGED <<host, request, response, done, ready, epoch, served>>
ArmResponse ==
  /\ dpc = "arm_rsp"
  /\ done' = 0
  /\ \/ spis' = "rsp" /\ dpc' = "raise" /\ NoFault
     \/ Fault("dwm_arm") /\ dpc' = "arm_req" /\ UNCHANGED spis
  /\ UNCHANGED <<host, request, response, ready, epoch, served>>

\* If READY cannot be driven, send_response returns and leaves its transfer
\* armed.
RaiseReady ==
  /\ dpc = "raise"
  /\ \/ ready' = "high" /\ dpc' = "wait_done" /\ NoFault
     \/ Fault("ready_set") /\ dpc' = "arm_req" /\ UNCHANGED ready
  /\ UNCHANGED <<host, request, response, spis, done, epoch, served>>

\* k_sem_take(&response_done, K_FOREVER)
TakeDone ==
  /\ dpc = "wait_done"
  /\ done = 1
  /\ done' = 0
  /\ dpc' = "lower"
  /\ UNCHANGED <<host, request, response, spis, ready, epoch, served, faults>>

LowerReady_LeftHigh ==
  /\ dpc = "lower"
  /\ dpc' = "arm_req" /\ NoFault
  /\ UNCHANGED <<host, request, response, spis, done, ready, epoch, served>>
LowerReady ==
  /\ dpc = "lower"
  /\ dpc' = "arm_req"
  /\ \/ ready' = "low" /\ NoFault
     \/ Fault("ready_clear") /\ UNCHANGED ready
  /\ UNCHANGED <<host, request, response, spis, done, epoch, served>>

EndpointReset ==
  /\ dpc # "held"
  /\ Fault("dwm_reset")
  /\ dpc' = "boot"
  /\ EndpointCleared
  /\ UNCHANGED <<host, epoch, served>>

EndpointStep ==
  \/ Boot \/ ArmRequest \/ Backoff \/ Build \/ ArmResponse \/ RaiseReady
  \/ TakeDone \/ LowerReady

-----------------------------------------------------------------------------
Next == HostStep \/ EndpointStep \/ EndpointReset \/ HostRestart

Spec == Init /\ [][Next]_vars

\* Both programs keep running: nothing else shares the host's core, and the
\* endpoint's only thread is never starved by its SPIS interrupt.
FairSpec == Spec /\ WF_vars(HostStep) /\ WF_vars(EndpointStep)

-----------------------------------------------------------------------------
(* Properties.                                                             *)

Failed == { i \in TestIds : outcome[i] = "fail" }

\* The endpoint gives these answers only to a request whose CRC fits.
Conclusive(t) == t.status \in {StatusOf.OK, StatusOf.UNKNOWN_OPCODE}

\* Every answer the host would accept was made from a request it sent since
\* its last power-on.  An undamaged one is the answer to the very test that
\* is running.  A damaged one answers a request that was damaged, which the
\* endpoint refuses before it looks at the opcode, so only a test that
\* expects another error can take it.  The host has only the 16-bit sequence
\* and its reset pulse to tell answers apart (exchange_request, main).
GenuineAnswer ==
  (hpc = "wait_low" /\ Accepts(Tests[cur], rx.frame)) =>
    /\ rx.src[1] = epoch
    /\ \/ rx.clean /\ rx.src[2] = cur
       \/ ~rx.clean /\ rx.src[2] \in 1 .. cur /\ ~Conclusive(Tests[cur])

\* Where the frames in flight come from.
FromRequest(m) ==
  \/ m = NoMessage
  \/ /\ m.clean
     /\ m.src[2] \in TestIds
     /\ m.frame = Tests[m.src[2]].request
  \/ /\ ~m.clean
     /\ m.src[2] \in TestIds
     /\ m.frame \in Garbled(Tests[m.src[2]].request)

FromAnswer(m) ==
  \/ /\ m.clean
     /\ m.src = NoSource
     /\ m.frame \in {ZeroFrame, IdleFrame, Reply(ZeroFrame)}
  \/ /\ m.clean
     /\ m.src[2] \in TestIds
     /\ m.frame = Reply(Tests[m.src[2]].request)
  \/ ~m.clean /\ ~m.frame.crcOk
  \/ /\ ~m.clean
     /\ m.src[2] \in TestIds
     /\ \E g \in Garbled(Tests[m.src[2]].request) : m.frame = Reply(g)

Recent(m) ==
  m.src # NoSource =>
    /\ m.src[2] \in TestIds
    /\ m.src[1] <= epoch
    /\ m.src[1] = epoch => m.src[2] <= cur
    /\ hpc \notin {"init", "reset", "dead"} => m.src[1] = epoch

\* Every frame in flight is what its history says, and once the host has
\* pulsed RESET none is left from before its last power-on: this is why the
\* 16-bit sequence, which every power-on reuses from 1, is enough to tell
\* answers apart (main: reset_dwm before the first exchange).
Provenance ==
  /\ FromRequest(request) /\ FromAnswer(response) /\ FromAnswer(rx)
  /\ Recent(request) /\ Recent(response) /\ Recent(rx)
  /\ hpc \in {"init", "reset"} => rx = NoMessage

\* READY is driven high only over an armed or just completed response, and
\* is lowered only when the transfer it announced has ended
\* (send_response: k_sem_reset before arming, k_sem_take after raising).
ReadyFollowsTransfer ==
  /\ dpc = "raise" => spis = "rsp" \/ done = 1
  /\ dpc = "wait_done" => spis = "rsp" <=> done = 0
  /\ dpc = "lower" => spis = "idle"

\* With a prompt endpoint and nothing going wrong no test ever fails and the
\* host never gives up: the suite's PASS is what a healthy link shows
\* (main: the summary line).
HealthyLinkPasses == faults = 0 => Failed = {} /\ hpc # "dead" /\ SelfTestPasses

\* With a prompt endpoint the host clocks a response phase only while the
\* prepared response is armed (the two-phase model of the protocol
\* document: READY announces it, the clock collects it).
ResponsePhaseArmed == hpc = "clock" => spis = "rsp"

\* With a prompt endpoint, damaged frames, failing transfer arming and a
\* READY that cannot be raised cost two tests each at most: the test they hit
\* and, since only a passed exchange is followed by a sleep, the next one,
\* whose request may go unheard or be swallowed (exchange_request,
\* send_response).  The other kinds of fault do not have this property.
BoundedDamage == Cardinality(Failed) <= 2 * faults

\* Whatever the endpoint does or fails to do, the host finishes its suite or
\* gives up: every wait in it has a deadline.
HostTerminates == <>(hpc \in {"idle", "dead"})

\* READY is released after every response transfer the endpoint announced,
\* whole or cut, unless a further fault comes first, such as a pin that cannot
\* be driven (send_response).
ReadyReturnsLow ==
  \A f \in 0 .. MaxFaults :
    (dpc = "wait_done" /\ done = 1 /\ faults = f) ~> (ready # "high" \/ faults > f)

\* While READY is asserted, a host that clocks the response phase gets the
\* prepared response (docs/dwm-to-nucleo-host-interface-protocol.md, the
\* two-phase transfer model).
ReadyPromise == hpc = "clock" /\ ready = "high" => spis = "rsp"

\* The tests whose pass proves that the endpoint served them: when frames may
\* be damaged, another error answer may descend from another test's request whose
\* sequence was damaged into this one's, since the endpoint echoes the
\* sequence of a request it refuses.
Witnessed ==
  IF "garble" \in Adversary
  THEN { i \in TestIds : Conclusive(Tests[i]) }
  ELSE TestIds

Rpc == INSTANCE TphipRpc WITH
  Size <- Len(Tests),
  session <- epoch,
  turn <- cur,
  answered <- { i \in TestIds : <<epoch, i>> \in served },
  verdict <- outcome

\* The link implements the abstract test protocol: whatever is lost, late or
\* damaged, and whichever side restarts, a recorded pass is a served test.
ImplementsRpc == Rpc!RpcSpec
=============================================================================
