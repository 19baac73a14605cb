---------------------------- MODULE TphipLinkProofs ----------------------------
(***************************************************************************)
(* TphipLink for every suite, every adversary and every bound: its types;  *)
(* the provenance of every frame in flight, from which GenuineAnswer       *)
(* follows; the READY line; that the link implements TphipRpc, and what    *)
(* that means for a pass; and what a prompt endpoint adds: the two sides   *)
(* stay in step, and damage is paid for.                                   *)
(***************************************************************************)
EXTENDS TphipLink, TphipFrameProofs, FiniteSetTheorems

-----------------------------------------------------------------------------
(* Types.                                                                  *)

LEMMA TestType ==
  ASSUME NEW i \in TestIds
  PROVE  /\ Tests[i].request \in Frame
         /\ Tests[i].request.sequence # 0
  <1>1. Tests[i] \in Exchanges
    BY TestsAssumption DEF TestIds
  <1> QED
    BY <1>1, TestsAssumption DEF TestIds, Exchanges

LEMMA FixedMessages == NoMessage \in Message /\ IdleMessage \in Message
  BY FixedFrames DEF NoMessage, IdleMessage, Message, Sources, NoSource

\* A damaged message is a message with the same source, no longer clean.
LEMMA DamagedFacts ==
  ASSUME NEW m \in Message, NEW n \in Damaged(m)
  PROVE  /\ n \in Message /\ n.src = m.src /\ n.clean = FALSE
         /\ n.frame \in Garbled(m.frame) /\ n.frame.crcOk = FALSE
  <1>1. PICK g \in Garbled(m.frame) : n = [m EXCEPT !.frame = g, !.clean = FALSE]
    BY DEF Damaged
  <1>2. m.frame \in Frame
    BY DEF Message
  <1>3. g \in Frame /\ g.crcOk = FALSE
    BY <1>2, GarbledFacts
  <1> QED
    BY <1>1, <1>3 DEF Message

LEMMA SentType ==
  ASSUME TypeOK, cur \in TestIds
  PROVE  Sent \in Message
  <1>1. Tests[cur].request \in Frame
    BY TestType
  <1>2. <<epoch, cur>> \in Sources
    BY DEF TypeOK, TestIds, Sources
  <1> QED
    BY <1>1, <1>2 DEF Sent, Message

\* The answer to a message is a message with the same source.
LEMMA AnswerFacts ==
  ASSUME NEW m \in Message,
         NEW n, n = [m EXCEPT !.frame = Reply(m.frame)]
  PROVE  /\ n \in Message /\ n.src = m.src /\ n.clean = m.clean
         /\ n.frame = Reply(m.frame)
  <1>1. m.frame \in Frame
    BY DEF Message
  <1>2. Reply(m.frame) \in Frame
    BY <1>1, ReplyFacts
  <1> QED
    BY <1>2 DEF Message

LEMMA FaultType ==
  ASSUME TypeOK, NEW kind, Fault(kind)
  PROVE  faults' \in 0 .. MaxFaults
  BY BoundsAssumption DEF TypeOK, Fault

LEMMA ConcludeType ==
  ASSUME TypeOK, NEW v \in {"pass", "fail"}, Conclude(v), cur \in TestIds
  PROVE  /\ outcome' \in [TestIds -> {"none", "pass", "fail"}]
         /\ cur' \in 1 .. (Len(Tests) + 1)
         /\ hpc' \in {"sleep", "send"}
  <1>1. Len(Tests) \in Nat
    BY TestsAssumption
  <1> QED
    BY <1>1 DEF TypeOK, Conclude, TestIds

\* The host talks only about a test that exists.
InSuite == hpc \in {"wait_high", "clock", "wait_low"} => cur \in TestIds

TypeInv == TypeOK /\ InSuite

\* What a chip-select window does to the endpoint, whatever it carries.
LEMMA CutType ==
  ASSUME TypeOK, CutShort
  PROVE  /\ dpc' \in {dpc, "backoff"} /\ request' = request
         /\ response' = response /\ spis' \in {"idle", "req", "rsp"}
         /\ done' \in {0, 1}
  BY DEF TypeOK, CutShort, Unheard, ResponseCompletes, endpoint

\* The host's exchanges: their type obligations differ only in how the window
\* ends, so they are proved one action at a time.
LEMMA TypeSend ==
  ASSUME TypeInv, SendRequest
  PROVE  TypeInv'
  <1>1. cur \in TestIds /\ Sent \in Message
    BY SentType DEF SendRequest, TypeInv
  <1> DEFINE Kept == /\ UNCHANGED <<ready, epoch, served>>
                     /\ faults' \in 0 .. MaxFaults
             Ends == /\ dpc' \in {dpc, "backoff", "build"}
                     /\ request' \in Message
                     /\ response' = response
                     /\ spis' \in {"idle", "req", "rsp"}
                     /\ done' \in {0, 1}
  <1>2. ASSUME NEW m \in Message, RequestReceived(m)
        PROVE  Ends
    BY <1>2 DEF RequestReceived, TypeInv, TypeOK
  <1>3. ASSUME UNCHANGED endpoint
        PROVE  Ends
    BY <1>3 DEF endpoint, TypeInv, TypeOK
  <1>4. ASSUME CutShort
        PROVE  Ends
    BY <1>4, CutType DEF TypeInv, TypeOK
  <1>5. CASE TransferFails(Sent)
    <2>1. Ends /\ Kept
      BY <1>1, <1>2, <1>3, <1>4, <1>5, FaultType
      DEF TransferFails, SendRequest, TypeInv
    <2>2. /\ outcome' \in [TestIds -> {"none", "pass", "fail"}]
          /\ cur' \in 1 .. (Len(Tests) + 1)
          /\ hpc' \in {"sleep", "send"} /\ rx' = NoMessage
      BY <1>1, <1>5, ConcludeType DEF TransferFails, SendRequest, TypeInv
    <2> QED
      BY <2>1, <2>2, FixedMessages DEF TypeInv, TypeOK, InSuite
  <1>6. CASE ~TransferFails(Sent)
    <2>1. hpc' = "wait_high" /\ rx' = NoMessage /\ UNCHANGED <<cur, outcome>>
      BY <1>6 DEF SendRequest
    <2>2. Ends
      <3>1. CASE Unheard
        BY <3>1, <1>3 DEF Unheard
      <3>2. CASE ResponseCompletes
        BY <3>2, <1>4 DEF CutShort
      <3>3. CASE RequestReceived(Sent)
        BY <3>3, <1>1, <1>2
      <3>4. CASE \E m \in Damaged(Sent) : RequestReceived(m)
        BY <3>4, <1>1, <1>2, DamagedFacts
      <3> QED
        BY <3>1, <3>2, <3>3, <3>4, <1>6 DEF SendRequest
    <2>3. Kept
      BY <1>6, FaultType DEF SendRequest, NoFault, TypeInv, TypeOK
    <2> QED
      BY <1>1, <2>1, <2>2, <2>3, FixedMessages DEF TypeInv, TypeOK, InSuite
  <1> QED
    BY <1>5, <1>6

LEMMA TypeClock ==
  ASSUME TypeInv, ClockResponse
  PROVE  TypeInv'
  <1>1. cur \in TestIds
    BY DEF ClockResponse, TypeInv, InSuite
  <1> DEFINE Kept == /\ UNCHANGED <<ready, epoch, served>>
                     /\ faults' \in 0 .. MaxFaults
             Ends == /\ dpc' \in {dpc, "backoff", "build"}
                     /\ request' \in Message
                     /\ response' = response
                     /\ spis' \in {"idle", "req", "rsp"}
                     /\ done' \in {0, 1}
  <1>2. ASSUME RequestReceived(NoMessage)
        PROVE  Ends
    BY <1>2, FixedMessages DEF RequestReceived, TypeInv, TypeOK
  <1>3. ASSUME UNCHANGED endpoint
        PROVE  Ends
    BY <1>3 DEF endpoint, TypeInv, TypeOK
  <1>4. ASSUME CutShort
        PROVE  Ends
    BY <1>4, CutType DEF TypeInv, TypeOK
  <1>5. CASE TransferFails(NoMessage) /\ UNCHANGED rx
    <2>1. Ends /\ Kept
      BY <1>2, <1>3, <1>4, <1>5, FaultType
      DEF TransferFails, ClockResponse, TypeInv
    <2>2. /\ outcome' \in [TestIds -> {"none", "pass", "fail"}]
          /\ cur' \in 1 .. (Len(Tests) + 1)
          /\ hpc' \in {"sleep", "send"} /\ rx' = rx
      BY <1>1, <1>5, ConcludeType DEF TransferFails, TypeInv
    <2> QED
      BY <2>1, <2>2 DEF TypeInv, TypeOK, InSuite
  <1>6. CASE ~(TransferFails(NoMessage) /\ UNCHANGED rx)
    <2>1. hpc' = "wait_low" /\ UNCHANGED <<cur, outcome>>
      BY <1>6 DEF ClockResponse
    <2>2. Ends /\ rx' \in Message
      <3>1. CASE Unheard /\ rx' = IdleMessage
        BY <3>1, <1>3, FixedMessages DEF Unheard
      <3>2. CASE RequestReceived(NoMessage) /\ rx' = IdleMessage
        BY <3>2, <1>2, FixedMessages
      <3>3. CASE ResponseCompletes /\ rx' = response
        BY <3>3, <1>4 DEF CutShort, TypeInv, TypeOK
      <3>4. CASE ResponseCompletes /\ rx' \in Damaged(response)
        BY <3>4, <1>4, DamagedFacts DEF CutShort, TypeInv, TypeOK
      <3> QED
        BY <3>1, <3>2, <3>3, <3>4, <1>6 DEF ClockResponse
    <2>3. Kept
      BY <1>6, FaultType DEF ClockResponse, NoFault, TypeInv, TypeOK
    <2> QED
      BY <1>1, <2>1, <2>2, <2>3 DEF TypeInv, TypeOK, InSuite
  <1> QED
    BY <1>5, <1>6

LEMMA TypeHost ==
  ASSUME TypeInv, HostStep
  PROVE  TypeInv'
  <1>1. CASE HostInit
    BY <1>1, FaultType DEF HostInit, HostDies, NoFault, endpoint, TypeInv, TypeOK, InSuite
  <1>2. CASE AssertReset
    BY <1>2, FaultType, FixedMessages
    DEF AssertReset, EndpointCleared, HostDies, NoFault, endpoint, TypeInv, TypeOK, InSuite
  <1>3. CASE ReleaseReset
    BY <1>3, FaultType DEF ReleaseReset, HostDies, NoFault, TypeInv, TypeOK, InSuite
  <1>4. CASE Settle \/ Sleep \/ Summary
    BY <1>4 DEF Settle, Sleep, Summary, endpoint, TypeInv, TypeOK, InSuite
  <1>5. CASE WaitIdle
    BY <1>5, FaultType
    DEF WaitIdle, ReadyTimesOut, HostDies, NoFault, endpoint, TypeInv, TypeOK, InSuite
  <1>6. CASE WaitHigh
    <2>1. cur \in TestIds
      BY <1>6 DEF WaitHigh, TypeInv, InSuite
    <2>2. CASE Conclude("fail")
      BY <1>6, <2>1, <2>2, ConcludeType, FaultType
      DEF WaitHigh, ReadyTimesOut, NoFault, endpoint, TypeInv, TypeOK, InSuite
    <2>3. CASE ~Conclude("fail")
      BY <1>6, <2>1, <2>3
      DEF WaitHigh, NoFault, endpoint, TypeInv, TypeOK, InSuite
    <2> QED
      BY <2>2, <2>3
  <1>7. CASE WaitLow
    <2>1. cur \in TestIds
      BY <1>7 DEF WaitLow, TypeInv, InSuite
    <2>2. \E v \in {"pass", "fail"} : Conclude(v)
      BY <1>7 DEF WaitLow
    <2>3. faults' \in 0 .. MaxFaults
      BY <1>7, FaultType DEF WaitLow, ReadyTimesOut, NoFault, TypeInv, TypeOK
    <2> QED
      BY <1>7, <2>1, <2>2, <2>3, ConcludeType
      DEF WaitLow, endpoint, TypeInv, TypeOK, InSuite
  <1> QED
    BY <1>1, <1>2, <1>3, <1>4, <1>5, <1>6, <1>7, TypeSend, TypeClock
    DEF HostStep

LEMMA TypeRestart ==
  ASSUME TypeInv, HostRestart
  PROVE  TypeInv'
  <1>1. /\ hpc' = "init" /\ cur' = 1 /\ rx' = NoMessage
        /\ epoch' = epoch + 1
        /\ outcome' = [i \in TestIds |-> "none"]
        /\ UNCHANGED <<ready, served, faults>>
    BY DEF HostRestart
  <1>2. Len(Tests) \in Nat
    BY TestsAssumption
  <1>3. /\ dpc' \in {dpc, "backoff", "boot"} /\ request' \in Message
        /\ response' \in Message /\ spis' \in {"idle", "req", "rsp"}
        /\ done' \in {0, 1}
    BY CutType DEF HostRestart, endpoint, TypeInv, TypeOK
  <1> QED
    BY <1>1, <1>2, <1>3, FixedMessages DEF TypeInv, TypeOK, InSuite

LEMMA TypeEndpoint ==
  ASSUME TypeInv, EndpointStep \/ EndpointReset
  PROVE  TypeInv'
  <1> USE DEF TypeInv, TypeOK, InSuite, host, NoFault
  <1>1. CASE Boot
    BY <1>1, FaultType DEF Boot
  <1>2. CASE ArmRequest
    BY <1>2, FaultType, FixedMessages DEF ArmRequest
  <1>3. CASE Backoff
    BY <1>3 DEF Backoff
  <1>4. CASE Build
    <2>1. response' \in Message
      BY <1>4, AnswerFacts DEF Build
    <2>2. request.src \in Sources
      BY DEF Message
    <2> QED
      BY <1>4, <2>1, <2>2 DEF Build
  <1>5. CASE ArmResponse
    BY <1>5, FaultType DEF ArmResponse
  <1>6. CASE RaiseReady
    BY <1>6, FaultType DEF RaiseReady
  <1>7. CASE TakeDone
    BY <1>7 DEF TakeDone
  <1>8. CASE LowerReady
    BY <1>8, FaultType DEF LowerReady
  <1>9. CASE EndpointReset
    BY <1>9, FaultType, FixedMessages DEF EndpointReset, EndpointCleared
  <1> QED
    BY <1>1, <1>2, <1>3, <1>4, <1>5, <1>6, <1>7, <1>8, <1>9 DEF EndpointStep

LEMMA TypeInit == Init => TypeInv
  <1>1. Len(Tests) \in Nat
    BY TestsAssumption
  <1> QED
    BY <1>1, FixedMessages, BoundsAssumption DEF Init, TypeInv, TypeOK, InSuite

LEMMA TypeStep == TypeInv /\ [Next]_vars => TypeInv'
  <1>1. TypeInv /\ UNCHANGED vars => TypeInv'
    BY DEF vars, TypeInv, TypeOK, InSuite
  <1> QED
    BY <1>1, TypeHost, TypeRestart, TypeEndpoint DEF Next

\* Every variable keeps its type, whatever the suite, the adversary and the
\* bounds.
THEOREM LinkTypeCorrect == Spec => []TypeOK
  <1>1. TypeInv => TypeOK
    BY DEF TypeInv
  <1> QED
    BY <1>1, TypeInit, TypeStep, PTL DEF Spec

-----------------------------------------------------------------------------
(* Provenance.                                                             *)

IInv == TypeInv /\ Provenance

\* No test has the sources or the sequence of a frame nobody sent.
LEMMA NoSourceNoTest == NoSource[2] \notin TestIds
  BY DEF NoSource, TestIds

LEMMA ZeroFacts == /\ NoMessage.src = NoSource /\ NoMessage.clean = TRUE
                   /\ NoMessage.frame = ZeroFrame
                   /\ IdleMessage.src = NoSource /\ IdleMessage.clean = TRUE
                   /\ IdleMessage.frame = IdleFrame
  BY DEF NoMessage, IdleMessage

LEMMA FixedProvenance ==
  /\ FromRequest(NoMessage)
  /\ FromAnswer(NoMessage) /\ FromAnswer(IdleMessage)
  /\ Recent(NoMessage) /\ Recent(IdleMessage)
  /\ Recent(NoMessage)' /\ Recent(IdleMessage)'
  BY ZeroFacts DEF FromRequest, FromAnswer, Recent

\* The answer to a request in flight is an answer with its provenance.
LEMMA AnswerProvenance ==
  ASSUME NEW m \in Message, FromRequest(m),
         NEW n, n = [m EXCEPT !.frame = Reply(m.frame)]
  PROVE  FromAnswer(n)
  <1>1. /\ n.src = m.src /\ n.clean = m.clean /\ n.frame = Reply(m.frame)
    BY AnswerFacts
  <1>2. CASE m = NoMessage
    BY <1>1, <1>2, ZeroFacts DEF FromAnswer
  <1>3. CASE m # NoMessage /\ m.clean
    BY <1>1, <1>3 DEF FromRequest, FromAnswer
  <1>4. CASE m # NoMessage /\ ~m.clean
    <2>1. m.src[2] \in TestIds /\ m.frame \in Garbled(Tests[m.src[2]].request)
      BY <1>4 DEF FromRequest
    <2> QED
      BY <1>1, <1>4, <2>1 DEF FromAnswer
  <1> QED
    BY <1>2, <1>3, <1>4

\* The request the host sends has provenance, and is recent.
LEMMA SentProvenance ==
  ASSUME TypeOK, cur \in TestIds
  PROVE  /\ FromRequest(Sent)
         /\ Sent.src = <<epoch, cur>>
  <1>1. /\ Sent.clean = TRUE /\ Sent.src = <<epoch, cur>>
        /\ Sent.frame = Tests[cur].request
    BY DEF Sent
  <1> QED
    BY <1>1 DEF FromRequest

\* A step within a session in which the host does not pass the reset pulse.
Onward == /\ epoch' = epoch
          /\ cur' \in {cur, cur + 1}
          /\ hpc \in {"init", "reset", "dead"} => hpc' \in {"init", "reset", "dead"}
          /\ hpc' \in {"init", "reset"} => hpc \in {"init", "reset"}

\* In such a step a recent message stays recent.
LEMMA RecentKept ==
  ASSUME TypeOK, Onward
  PROVE  /\ request' = request /\ Recent(request) => Recent(request)'
         /\ response' = response /\ Recent(response) => Recent(response)'
         /\ rx' = rx /\ Recent(rx) => Recent(rx)'
  BY DEF Onward, Recent, TypeOK, TestIds

\* The steps that put nothing new in flight.
LEMMA StillProvenance ==
  ASSUME IInv, Onward, UNCHANGED <<request, response, rx>>
  PROVE  Provenance'
  BY RecentKept DEF Onward, IInv, TypeInv, Provenance, FromRequest, FromAnswer

\* A concluded exchange is such a step for the host.
LEMMA ConcludeOnward ==
  ASSUME NEW v \in {"pass", "fail"}, Conclude(v), epoch' = epoch,
         hpc \notin {"init", "reset", "dead"}
  PROVE  Onward
  BY DEF Conclude, Onward

\* A window leaves at most the message it carries in the request buffer.
LEMMA CutKeeps ==
  ASSUME CutShort \/ UNCHANGED endpoint
  PROVE  UNCHANGED <<request, response>>
  BY DEF CutShort, Unheard, ResponseCompletes, endpoint

LEMMA ProvenanceSend ==
  ASSUME IInv, SendRequest
  PROVE  Provenance'
  <1>1. /\ cur \in TestIds /\ TypeOK /\ epoch' = epoch
        /\ hpc = "send"
    BY DEF SendRequest, IInv, TypeInv
  <1>2. Onward /\ hpc' \in {"wait_high", "send"}
    <2>1. CASE TransferFails(Sent)
      BY <1>1, <2>1, ConcludeOnward DEF TransferFails, Conclude
    <2>2. CASE ~TransferFails(Sent)
      BY <1>1, <2>2 DEF SendRequest, Onward
    <2> QED
      BY <2>1, <2>2
  <1>3. /\ rx' = rx \/ rx' = NoMessage
        /\ response' = response
    BY CutKeeps
    DEF SendRequest, TransferFails, RequestReceived, Unheard,
        ResponseCompletes, endpoint
  <1>4. \/ request' = request
        \/ request' = Sent
        \/ request' \in Damaged(Sent)
    BY CutKeeps
    DEF SendRequest, TransferFails, RequestReceived, Unheard,
        ResponseCompletes, endpoint
  <1>5. FromAnswer(response)' /\ Recent(response)'
    BY <1>1, <1>2, <1>3, RecentKept DEF IInv, Provenance, FromAnswer
  <1>6. FromAnswer(rx)' /\ Recent(rx)'
    <2>1. CASE rx' = rx
      BY <1>1, <1>2, <2>1, RecentKept DEF IInv, Provenance, FromAnswer
    <2>2. CASE rx' = NoMessage
      BY <2>2, ZeroFacts DEF FromAnswer, Recent
    <2> QED
      BY <1>3, <2>1, <2>2
  <1>7. FromRequest(request)' /\ Recent(request)'
    <2>1. CASE request' = request
      BY <1>1, <1>2, <2>1, RecentKept DEF IInv, Provenance, FromRequest
    <2>2. CASE request' # request
      <3>1. Sent \in Message /\ FromRequest(Sent) /\ Sent.src = <<epoch, cur>>
        BY <1>1, SentType, SentProvenance
      <3>2. request'.src = <<epoch, cur>>
        BY <1>4, <2>2, <3>1, DamagedFacts
      <3>3. FromRequest(request)'
        <4>1. CASE request' = Sent
          BY <3>1, <4>1 DEF FromRequest
        <4>2. CASE request' \in Damaged(Sent)
          <5>1. /\ request'.clean = FALSE
                /\ request'.frame \in Garbled(Tests[cur].request)
            BY <3>1, <4>2, DamagedFacts DEF Sent
          <5>2. cur \in TestIds /\ request'.src[2] = cur
            BY <1>1, <3>2
          <5> QED
            BY <5>1, <5>2 DEF FromRequest
        <4> QED
          BY <1>4, <2>2, <4>1, <4>2
      <3>4. Recent(request)'
        BY <1>1, <1>2, <3>2 DEF Recent, Onward, TypeOK, TestIds
      <3> QED
        BY <3>3, <3>4
    <2> QED
      BY <2>1, <2>2
  <1> QED
    BY <1>2, <1>5, <1>6, <1>7 DEF Provenance

LEMMA ProvenanceClock ==
  ASSUME IInv, ClockResponse
  PROVE  Provenance'
  <1>1. TypeOK /\ epoch' = epoch /\ hpc = "clock"
    BY DEF ClockResponse, IInv, TypeInv
  <1>2. Onward /\ hpc' \in {"wait_low", "send"}
    <2>1. CASE TransferFails(NoMessage)
      BY <1>1, <2>1, ConcludeOnward DEF TransferFails, Conclude
    <2>2. CASE ~TransferFails(NoMessage)
      BY <1>1, <2>2 DEF ClockResponse, Onward
    <2> QED
      BY <2>1, <2>2
  <1>3. /\ request' = request \/ request' = NoMessage
        /\ response' = response
    BY CutKeeps
    DEF ClockResponse, TransferFails, RequestReceived, Unheard,
        ResponseCompletes, endpoint
  <1>4. \/ rx' = rx
        \/ rx' = IdleMessage
        \/ rx' = response
        \/ rx' \in Damaged(response)
    BY DEF ClockResponse, TransferFails
  <1>5. FromAnswer(response)' /\ Recent(response)'
    BY <1>1, <1>2, <1>3, RecentKept DEF IInv, Provenance, FromAnswer
  <1>6. FromRequest(request)' /\ Recent(request)'
    <2>1. CASE request' = request
      BY <1>1, <1>2, <2>1, RecentKept DEF IInv, Provenance, FromRequest
    <2>2. CASE request' = NoMessage
      BY <2>2, ZeroFacts DEF FromRequest, Recent
    <2> QED
      BY <1>3, <2>1, <2>2
  <1>7. FromAnswer(rx)' /\ Recent(rx)'
    <2>1. CASE rx' = rx
      BY <1>1, <1>2, <2>1, RecentKept DEF IInv, Provenance, FromAnswer
    <2>2. CASE rx' = IdleMessage
      BY <2>2, ZeroFacts DEF FromAnswer, Recent
    <2>3. CASE rx' = response
      BY <1>3, <1>5, <2>3 DEF FromAnswer, Recent
    <2>4. CASE rx' \in Damaged(response)
      <3>1. response \in Message
        BY <1>1 DEF TypeOK
      <3>2. rx'.src = response.src /\ rx'.clean = FALSE /\ rx'.frame.crcOk = FALSE
        BY <2>4, <3>1, DamagedFacts
      <3>3. FromAnswer(rx)'
        BY <3>2 DEF FromAnswer
      <3>4. Recent(rx)'
        BY <1>3, <1>5, <3>2 DEF Recent
      <3> QED
        BY <3>3, <3>4
    <2> QED
      BY <1>4, <2>1, <2>2, <2>3, <2>4
  <1> QED
    BY <1>2, <1>5, <1>6, <1>7 DEF Provenance

\* RESET low empties the endpoint: what is left of older sessions is gone.
LEMMA ProvenanceReset ==
  ASSUME IInv, AssertReset
  PROVE  Provenance'
  <1>1. CASE hpc' = "release" /\ EndpointCleared
    <2>1. /\ rx = NoMessage /\ rx' = NoMessage
          /\ request' = NoMessage /\ response' = NoMessage
      BY <1>1 DEF AssertReset, EndpointCleared, HostDies, IInv, Provenance
    <2> QED
      BY <1>1, <2>1, ZeroFacts DEF Provenance, FromRequest, FromAnswer, Recent
  <1>2. CASE HostDies /\ UNCHANGED endpoint
    <2>1. Onward /\ UNCHANGED <<request, response, rx>>
      BY <1>2 DEF AssertReset, HostDies, endpoint, Onward
    <2> QED
      BY <2>1, StillProvenance
  <1> QED
    BY <1>1, <1>2 DEF AssertReset

\* A restarted host has everything in flight behind it.
LEMMA ProvenanceRestart ==
  ASSUME IInv, HostRestart
  PROVE  Provenance'
  <1>1. /\ hpc' = "init" /\ rx' = NoMessage /\ epoch' = epoch + 1
        /\ request' = request /\ response' = response
    BY CutKeeps DEF HostRestart
  <1>2. FromRequest(request)' /\ FromAnswer(response)' /\ FromAnswer(rx)'
    BY <1>1, ZeroFacts DEF IInv, Provenance, FromRequest, FromAnswer
  <1>3. Recent(request)' /\ Recent(response)' /\ Recent(rx)'
    BY <1>1, ZeroFacts
    DEF IInv, TypeInv, TypeOK, Message, Sources, Provenance, Recent
  <1> QED
    BY <1>1, <1>2, <1>3 DEF Provenance

LEMMA ProvenanceHost ==
  ASSUME IInv, HostStep
  PROVE  Provenance'
  <1>1. CASE HostInit \/ ReleaseReset \/ Settle \/ WaitIdle \/ Sleep \/ Summary
    <2>1. Onward /\ UNCHANGED <<request, response, rx>>
      BY <1>1 DEF HostInit, ReleaseReset, Settle, WaitIdle, Sleep, Summary,
                  HostDies, Onward, endpoint
    <2> QED
      BY <2>1, StillProvenance
  <1>2. CASE WaitHigh \/ WaitLow
    <2>1. UNCHANGED <<request, response, rx>> /\ epoch' = epoch
          /\ hpc \in {"wait_high", "wait_low"}
      BY <1>2 DEF WaitHigh, WaitLow, endpoint
    <2>2. Onward
      BY <1>2, <2>1, ConcludeOnward DEF WaitHigh, WaitLow, Onward
    <2> QED
      BY <2>1, <2>2, StillProvenance
  <1> QED
    BY <1>1, <1>2, ProvenanceSend, ProvenanceClock, ProvenanceReset
    DEF HostStep

LEMMA ProvenanceEndpoint ==
  ASSUME IInv, EndpointStep \/ EndpointReset
  PROVE  Provenance'
  <1>1. Onward /\ rx' = rx
    BY DEF EndpointStep, EndpointReset, Boot, ArmRequest, Backoff, Build,
           ArmResponse, RaiseReady, TakeDone, LowerReady, host, Onward
  <1>2. TypeOK
    BY DEF IInv, TypeInv
  <1>3. FromAnswer(rx)' /\ Recent(rx)'
    BY <1>1, <1>2, RecentKept DEF IInv, Provenance, FromAnswer
  <1>4. CASE Boot \/ Backoff \/ ArmResponse \/ RaiseReady \/ TakeDone \/ LowerReady
    <2>1. UNCHANGED <<request, response>>
      BY <1>4 DEF Boot, Backoff, ArmResponse, RaiseReady, TakeDone, LowerReady
    <2> QED
      BY <1>1, <2>1, StillProvenance
  <1>5. CASE ArmRequest
    <2>1. request' = NoMessage /\ response' = response
      BY <1>5 DEF ArmRequest
    <2>2. FromRequest(request)' /\ Recent(request)'
      BY <2>1, ZeroFacts DEF FromRequest, Recent
    <2>3. FromAnswer(response)' /\ Recent(response)'
      BY <1>1, <1>2, <2>1, RecentKept DEF IInv, Provenance, FromAnswer
    <2> QED
      BY <1>1, <1>3, <2>2, <2>3 DEF Provenance, IInv, Onward
  <1>6. CASE Build
    <2>1. /\ request' = request
          /\ response' = [request EXCEPT !.frame = Reply(request.frame)]
          /\ request \in Message /\ FromRequest(request)
      BY <1>2, <1>6 DEF Build, IInv, Provenance, TypeOK
    <2>2. FromRequest(request)' /\ Recent(request)'
      BY <1>1, <1>2, <2>1, RecentKept DEF IInv, Provenance, FromRequest
    <2>3. FromAnswer(response)'
      <3>1. \A n : n = [request EXCEPT !.frame = Reply(request.frame)]
                     => FromAnswer(n)
        BY <2>1, AnswerProvenance
      <3> QED
        BY <2>1, <3>1 DEF FromAnswer
    <2>4. Recent(response)'
      <3>1. response'.src = request'.src
        BY <2>1, AnswerFacts
      <3> QED
        BY <2>2, <3>1 DEF Recent
    <2> QED
      BY <1>1, <1>3, <2>2, <2>3, <2>4 DEF Provenance, IInv, Onward
  <1>7. CASE EndpointReset
    <2>1. request' = NoMessage /\ response' = NoMessage
      BY <1>7 DEF EndpointReset, EndpointCleared
    <2>2. /\ FromRequest(request)' /\ Recent(request)'
          /\ FromAnswer(response)' /\ Recent(response)'
      BY <2>1, ZeroFacts DEF FromRequest, FromAnswer, Recent
    <2> QED
      BY <1>1, <1>3, <2>2 DEF Provenance, IInv, Onward
  <1> QED
    BY <1>4, <1>5, <1>6, <1>7 DEF EndpointStep

LEMMA IInvInit == Init => IInv
  <1>1. Init => /\ request = NoMessage /\ response = NoMessage /\ rx = NoMessage
                /\ hpc = "init"
    BY DEF Init
  <1> QED
    BY <1>1, TypeInit, ZeroFacts
    DEF IInv, Provenance, FromRequest, FromAnswer, Recent

LEMMA IInvStep == IInv /\ [Next]_vars => IInv'
  <1> SUFFICES ASSUME IInv, [Next]_vars PROVE IInv'
    OBVIOUS
  <1>1. TypeInv'
    BY TypeStep DEF IInv
  <1>2. CASE HostStep
    BY <1>2, ProvenanceHost, <1>1 DEF IInv
  <1>3. CASE EndpointStep \/ EndpointReset
    BY <1>3, ProvenanceEndpoint, <1>1 DEF IInv
  <1>4. CASE HostRestart
    BY <1>4, ProvenanceRestart, <1>1 DEF IInv
  <1>5. CASE UNCHANGED vars
    BY <1>1, <1>5
    DEF vars, IInv, Provenance, FromRequest, FromAnswer, Recent
  <1> QED
    BY <1>2, <1>3, <1>4, <1>5 DEF Next

LEMMA IInvHolds == Spec => []IInv
  BY IInvInit, IInvStep, PTL DEF Spec

\* No frame survives the reset pulse of a power-on, and every frame in flight
\* is the one its history says.
THEOREM LinkProvenance == Spec => []Provenance
  <1>1. IInv => Provenance
    BY DEF IInv
  <1> QED
    BY <1>1, IInvHolds, PTL

\* An undamaged answer that a test accepts was made from its own request.
LEMMA CleanIsOwn ==
  ASSUME NEW i \in TestIds, rx \in Message, FromAnswer(rx), rx.clean,
         Accepts(Tests[i], rx.frame)
  PROVE  rx.src[2] = i
  <1>1. /\ rx.frame \in Frame
        /\ rx.frame.sequence = Tests[i].request.sequence
    BY AcceptedAnswer DEF Message
  <1>2. ~ rx.frame \in {ZeroFrame, IdleFrame, Reply(ZeroFrame)}
    <2>1. Tests[i].request.sequence # 0
      BY TestType
    <2>2. Reply(ZeroFrame).sequence = ZeroFrame.sequence
      BY FixedFrames, ReplyFacts
    <2>3. rx.frame.magic
      BY <1>1, AcceptedAnswer
    <2> QED
      BY <1>1, <2>1, <2>2, <2>3 DEF ZeroFrame, IdleFrame
  <1>3. /\ rx.src[2] \in TestIds
        /\ rx.frame = Reply(Tests[rx.src[2]].request)
    BY <1>2 DEF FromAnswer
  <1>4. rx.frame.sequence = Tests[rx.src[2]].request.sequence
    BY <1>3, TestType, ReplyFacts
  <1> QED
    BY <1>1, <1>3, <1>4, TestsAssumption DEF TestIds

\* A damaged answer that a test accepts was made from a damaged request, and
\* a request whose CRC does not fit earns neither OK nor UNKNOWN_OPCODE.
LEMMA DamagedIsRefused ==
  ASSUME NEW i \in TestIds, rx \in Message, FromAnswer(rx), ~rx.clean,
         Accepts(Tests[i], rx.frame)
  PROVE  rx.src[2] \in TestIds /\ ~Conclusive(Tests[i])
  <1>1. /\ rx.frame.crcOk
        /\ rx.frame.status = Tests[i].status
    BY AcceptedAnswer DEF Message
  <1>2. /\ rx.src[2] \in TestIds
        /\ \E g \in Garbled(Tests[rx.src[2]].request) : rx.frame = Reply(g)
    BY <1>1 DEF FromAnswer
  <1>3. PICK g \in Garbled(Tests[rx.src[2]].request) : rx.frame = Reply(g)
    BY <1>2
  <1>4. g \in Frame /\ g.crcOk = FALSE
    BY <1>2, TestType, GarbledFacts
  <1>5. Reply(g).status \notin {StatusOf.OK, StatusOf.UNKNOWN_OPCODE}
    BY <1>4, RefusedRequest
  <1> QED
    BY <1>1, <1>2, <1>3, <1>5 DEF Conclusive

\* An answer the host accepts was made from a request of this power-on: an
\* undamaged one from the running test's, a damaged one from a damaged
\* request, and then the test is one that expects an error of the frame.
THEOREM LinkGenuineAnswer == Spec => []GenuineAnswer
  <1>1. IInv => GenuineAnswer
    <2> SUFFICES ASSUME IInv, hpc = "wait_low",
                        Accepts(Tests[cur], rx.frame)
                 PROVE  /\ rx.src[1] = epoch
                        /\ \/ rx.clean /\ rx.src[2] = cur
                           \/ ~rx.clean /\ rx.src[2] \in 1 .. cur /\ ~Conclusive(Tests[cur])
      BY DEF GenuineAnswer
    <2>1. /\ cur \in TestIds /\ rx \in Message
          /\ FromAnswer(rx) /\ Recent(rx)
      BY DEF IInv, TypeInv, InSuite, TypeOK, Provenance
    <2>2. rx.clean => rx.src[2] = cur
      BY <2>1, CleanIsOwn
    <2>3. ~rx.clean => rx.src[2] \in TestIds /\ ~Conclusive(Tests[cur])
      BY <2>1, DamagedIsRefused
    <2>4. rx.src # NoSource
      BY <2>1, <2>2, <2>3, NoSourceNoTest
    <2>5. rx.src[1] = epoch /\ rx.src[2] <= cur
      BY <2>1, <2>4 DEF Recent
    <2>6. rx.src[2] \in TestIds => rx.src[2] \in 1 .. cur
      BY <2>1, <2>5 DEF TestIds
    <2> QED
      BY <2>2, <2>3, <2>5, <2>6
  <1> QED
    BY <1>1, IInvHolds, PTL

-----------------------------------------------------------------------------
(* The READY line and the transfer it announces.                           *)

\* What the SPIS driver has armed, by what the endpoint does next: a request
\* only while it is awaited, a response until it was clocked or given up, and
\* the semaphore says which.
ArmedByPhase ==
  /\ spis = "req" <=> dpc = "wait_req"
  /\ spis = "rsp" => dpc \in {"arm_req", "raise", "wait_done"}
  /\ dpc \in {"raise", "wait_done"} => (spis = "rsp" <=> done = 0)

\* RESET holds the endpoint until the host releases it.
HeldInReset == hpc = "release" => dpc = "held"

PhaseInv == TypeInv /\ ArmedByPhase /\ HeldInReset

LEMMA PhaseInit == Init => PhaseInv
  BY TypeInit DEF Init, PhaseInv, ArmedByPhase, HeldInReset

LEMMA HeldStep == HeldInReset /\ [Next]_vars => HeldInReset'
  <1> SUFFICES ASSUME HeldInReset, [Next]_vars PROVE HeldInReset'
    OBVIOUS
  <1>1. CASE HostStep
    BY <1>1 DEF HeldInReset, HostStep, HostInit, AssertReset, ReleaseReset, Settle, WaitIdle,
                SendRequest, TransferFails, WaitHigh, ClockResponse, WaitLow, Sleep, Summary,
                HostDies, Conclude
  <1>2. CASE EndpointStep
    BY <1>2 DEF HeldInReset, EndpointStep, Boot, ArmRequest, Backoff, Build, ArmResponse,
                RaiseReady, TakeDone, LowerReady, host
  <1>3. CASE EndpointReset \/ HostRestart \/ UNCHANGED vars
    BY <1>3 DEF HeldInReset, EndpointReset, HostRestart, host, vars
  <1> QED
    BY <1>1, <1>2, <1>3 DEF Next

\* A chip-select window ends what is armed, whoever opened it.
LEMMA PhaseWindow ==
  ASSUME TypeOK, ArmedByPhase, NEW m,
         UNCHANGED endpoint \/ CutShort \/ RequestReceived(m)
  PROVE  ArmedByPhase'
  BY DEF TypeOK, ArmedByPhase, endpoint, CutShort, Unheard, ResponseCompletes,
         RequestReceived

LEMMA PhaseStep == PhaseInv /\ [Next]_vars => PhaseInv'
  <1> SUFFICES ASSUME TypeOK, ArmedByPhase, HeldInReset, [Next]_vars PROVE ArmedByPhase'
    BY TypeStep, HeldStep DEF TypeInv, PhaseInv
  <1>1. CASE SendRequest
    <2>1. \E m : UNCHANGED endpoint \/ CutShort \/ RequestReceived(m)
      BY <1>1 DEF SendRequest, TransferFails, CutShort
    <2> QED
      BY <2>1, PhaseWindow
  <1>2. CASE ClockResponse
    <2>1. \E m : UNCHANGED endpoint \/ CutShort \/ RequestReceived(m)
      BY <1>2 DEF ClockResponse, TransferFails, CutShort
    <2> QED
      BY <2>1, PhaseWindow
  <1>3. CASE AssertReset
    <2>1. CASE dpc' = "held" /\ EndpointCleared
      BY <2>1 DEF EndpointCleared, ArmedByPhase
    <2>2. CASE UNCHANGED endpoint
      BY <2>2, PhaseWindow
    <2> QED
      BY <1>3, <2>1, <2>2 DEF AssertReset
  <1>4. CASE ReleaseReset
    BY <1>4 DEF ReleaseReset, ArmedByPhase, HeldInReset
  <1>5. CASE HostInit \/ Settle \/ WaitIdle \/ WaitHigh \/ WaitLow \/ Sleep \/ Summary
    BY <1>5, PhaseWindow DEF HostInit, Settle, WaitIdle, WaitHigh, WaitLow, Sleep, Summary
  <1>6. CASE HostRestart
    <2>1. CASE UNCHANGED endpoint \/ CutShort
      BY <2>1, PhaseWindow
    <2>2. CASE dpc = "held" /\ dpc' = "boot" /\ UNCHANGED <<spis, done>>
      BY <2>2 DEF ArmedByPhase
    <2> QED
      BY <1>6, <2>1, <2>2 DEF HostRestart
  <1>7. CASE EndpointStep
    BY <1>7 DEF EndpointStep, Boot, ArmRequest, Backoff, Build, ArmResponse, RaiseReady,
                TakeDone, LowerReady, ArmedByPhase, TypeOK
  <1>8. CASE EndpointReset
    BY <1>8 DEF EndpointReset, EndpointCleared, ArmedByPhase
  <1>9. CASE UNCHANGED vars
    BY <1>9 DEF vars, ArmedByPhase
  <1> QED
    BY <1>1, <1>2, <1>3, <1>4, <1>5, <1>6, <1>7, <1>8, <1>9 DEF Next, HostStep

LEMMA PhaseHolds == Spec => []PhaseInv
  BY PhaseInit, PhaseStep, PTL DEF Spec

\* READY goes up over an armed or just completed response and comes down only
\* when the transfer it announced has ended (send_response).
THEOREM LinkReadyFollows == Spec => []ReadyFollowsTransfer
  <1>1. PhaseInv => ReadyFollowsTransfer
    BY DEF PhaseInv, TypeInv, TypeOK, ArmedByPhase, ReadyFollowsTransfer
  <1> QED
    BY <1>1, PhaseHolds, PTL

-----------------------------------------------------------------------------
(* The refinement of TphipRpc.                                             *)

\* What the refinement needs and no safety property does: nothing of a later
\* power-on has been served, an answer in flight is one that was served, and
\* nothing is damaged if nothing damages it.
Accounted ==
  /\ \A s \in served : s[1] <= epoch
  /\ response.src \in served \cup {NoSource}
  /\ rx.src \in served \cup {NoSource}
  /\ "garble" \notin Adversary => request.clean /\ response.clean /\ rx.clean

LEMMA AccountedInit == Init => Accounted
  BY ZeroFacts DEF Init, Accounted

\* A window puts at most the message it carries into request_rx.
LEMMA AccountedWindow ==
  ASSUME TypeOK, Accounted, NEW m,
         UNCHANGED endpoint \/ CutShort \/ RequestReceived(m),
         "garble" \notin Adversary => m.clean,
         rx'.src \in served \cup {NoSource},
         "garble" \notin Adversary => rx'.clean,
         UNCHANGED <<served, epoch>>
  PROVE  Accounted'
  BY DEF Accounted, endpoint, CutShort, Unheard, ResponseCompletes, RequestReceived

LEMMA AccountedSend ==
  ASSUME TypeOK, Accounted, SendRequest
  PROVE  Accounted'
  <1>1. cur \in TestIds /\ Sent \in Message /\ Sent.clean = TRUE
    BY SentType DEF SendRequest, Sent
  <1>2. rx' = NoMessage /\ UNCHANGED <<served, epoch>>
    BY DEF SendRequest
  <1>3. \/ UNCHANGED endpoint \/ CutShort \/ RequestReceived(Sent)
        \/ "garble" \in Adversary /\ \E m \in Damaged(Sent) : RequestReceived(m)
    BY DEF SendRequest, TransferFails, CutShort, Fault
  <1> QED
    BY <1>1, <1>2, <1>3, ZeroFacts, AccountedWindow

LEMMA AccountedClock ==
  ASSUME TypeOK, Accounted, ClockResponse
  PROVE  Accounted'
  <1>1. /\ UNCHANGED endpoint \/ CutShort \/ RequestReceived(NoMessage)
        /\ UNCHANGED <<served, epoch>>
    BY DEF ClockResponse, TransferFails, CutShort
  <1>2. \/ rx' = rx \/ rx' = IdleMessage \/ rx' = response
        \/ "garble" \in Adversary /\ rx' \in Damaged(response)
    BY DEF ClockResponse, TransferFails, Fault
  <1>3. /\ rx'.src \in served \cup {NoSource}
        /\ "garble" \notin Adversary => rx'.clean
    BY <1>2, ZeroFacts, DamagedFacts DEF TypeOK, Accounted
  <1> QED
    BY <1>1, <1>3, ZeroFacts, AccountedWindow

LEMMA AccountedBuild ==
  ASSUME IInv, Accounted, Build
  PROVE  Accounted'
  <1>1. /\ request' = request /\ rx' = rx /\ epoch' = epoch
        /\ served' = served \cup ({request.src} \ {NoSource})
        /\ request \in Message
    BY DEF Build, host, IInv, TypeInv, TypeOK
  <1>2. response'.src = request.src /\ response'.clean = request.clean
    BY <1>1, AnswerFacts DEF Build
  <1>3. request.src # NoSource => request.src[1] <= epoch
    BY DEF IInv, Provenance, Recent
  <1> QED
    BY <1>1, <1>2, <1>3 DEF Accounted

LEMMA AccountedStep == IInv /\ Accounted /\ [Next]_vars => Accounted'
  <1> SUFFICES ASSUME IInv, TypeOK, Accounted, [Next]_vars PROVE Accounted'
    BY DEF IInv, TypeInv
  <1>1. CASE HostInit \/ ReleaseReset \/ Settle \/ WaitIdle \/ WaitHigh \/ WaitLow \/ Sleep
             \/ Summary \/ UNCHANGED vars
    <2>1. UNCHANGED <<request, response, rx, served, epoch>>
      BY <1>1 DEF HostInit, ReleaseReset, Settle, WaitIdle, WaitHigh, WaitLow, Sleep, Summary,
                  HostDies, endpoint, vars
    <2> QED
      BY <2>1 DEF Accounted
  <1>2. CASE AssertReset
    <2>1. /\ UNCHANGED <<rx, served, epoch>>
          /\ request' \in {request, NoMessage} /\ response' \in {response, NoMessage}
      BY <1>2 DEF AssertReset, EndpointCleared, HostDies, endpoint
    <2> QED
      BY <2>1, ZeroFacts DEF Accounted
  <1>3. CASE HostRestart
    <2>1. /\ rx' = NoMessage /\ UNCHANGED <<request, response, served>> /\ epoch' = epoch + 1
      BY <1>3, CutKeeps DEF HostRestart
    <2>2. \A s \in served : s[1] <= epoch'
      BY <2>1 DEF Accounted, TypeOK, Sources
    <2> QED
      BY <2>1, <2>2, ZeroFacts DEF Accounted
  <1>4. CASE Boot \/ Backoff \/ ArmRequest \/ ArmResponse \/ RaiseReady \/ TakeDone \/ LowerReady
             \/ EndpointReset
    <2>1. /\ UNCHANGED <<rx, served, epoch>>
          /\ request' \in {request, NoMessage} /\ response' \in {response, NoMessage}
      BY <1>4 DEF Boot, Backoff, ArmRequest, ArmResponse, RaiseReady, TakeDone, LowerReady,
                  EndpointReset, EndpointCleared, host
    <2> QED
      BY <2>1, ZeroFacts DEF Accounted
  <1> QED
    BY <1>1, <1>2, <1>3, <1>4, AccountedSend, AccountedClock, AccountedBuild
    DEF Next, HostStep, EndpointStep

LEMMA RpcInit == Init => Rpc!RpcInit
  <1> SUFFICES ASSUME Init PROVE Rpc!RpcInit
    OBVIOUS
  <1>1. { i \in TestIds : <<epoch, i>> \in served } = {}
    BY DEF Init
  <1> QED
    BY <1>1 DEF Init, Rpc!RpcInit, Rpc!Blank, TestIds

\* The mapped state: what TphipRpc calls answered.
Answered == { i \in TestIds : <<epoch, i>> \in served }

LEMMA StillAnswered ==
  ASSUME UNCHANGED <<epoch, served>>
  PROVE  Answered' = Answered
  BY DEF Answered, TestIds

\* The steps TphipRpc does not see.
LEMMA Stutters ==
  ASSUME UNCHANGED <<epoch, served, cur, outcome>>
  PROVE  UNCHANGED Rpc!rpcVars
  BY StillAnswered DEF Rpc!rpcVars, Answered

\* A test that was given up, for whatever reason.
LEMMA Fails ==
  ASSUME cur \in TestIds, Conclude("fail"), UNCHANGED <<epoch, served>>
  PROVE  Rpc!RpcNext
  BY StillAnswered DEF Conclude, Rpc!RpcNext, Rpc!Record, Answered, TestIds

\* A test that passed: what was accepted is genuine, so it was served.
LEMMA Passes ==
  ASSUME IInv, GenuineAnswer, Accounted, hpc = "wait_low",
         Accepts(Tests[cur], rx.frame), Conclude("pass"), UNCHANGED <<epoch, served>>
  PROVE  Rpc!RpcNext
  <1>1. cur \in TestIds
    BY DEF IInv, TypeInv, InSuite
  <1>2. cur \in Witnessed => cur \in Answered
    <2> SUFFICES ASSUME cur \in Witnessed PROVE cur \in Answered
      OBVIOUS
    <2>1. rx.clean \/ Conclusive(Tests[cur])
      BY DEF Witnessed, Accounted
    <2>2. rx.src = <<epoch, cur>>
      <3>1. rx.src[1] = epoch /\ rx.src[2] = cur
        BY <2>1 DEF GenuineAnswer
      <3>2. rx.src = <<rx.src[1], rx.src[2]>>
        BY DEF IInv, TypeInv, TypeOK, Message, Sources
      <3> QED
        BY <3>1, <3>2
    <2>3. rx.src # NoSource
      BY <1>1, <2>2 DEF NoSource, TestIds
    <2> QED
      BY <1>1, <2>2, <2>3 DEF Accounted, Answered
  <1> QED
    BY <1>1, <1>2, StillAnswered
    DEF Conclude, Rpc!RpcNext, Rpc!Pass, Rpc!Record, Answered, TestIds

\* A request that is served is one of a test that has been reached.
LEMMA Serves ==
  ASSUME IInv, Build
  PROVE  [Rpc!RpcNext]_(Rpc!rpcVars)
  <1>1. /\ UNCHANGED <<epoch, cur, outcome>> /\ request \in Message
        /\ served' = served \cup ({request.src} \ {NoSource})
    BY DEF Build, host, IInv, TypeInv, TypeOK
  <1>2. CASE request.src = NoSource
    BY <1>1, <1>2, Stutters
  <1>3. CASE request.src # NoSource /\ request.src[1] # epoch
    <2>1. Answered' = Answered
      BY <1>1, <1>3 DEF Answered, TestIds
    <2> QED
      BY <1>1, <2>1 DEF Answered, Rpc!rpcVars
  <1>4. CASE request.src # NoSource /\ request.src[1] = epoch
    <2> DEFINE i == request.src[2]
    <2>1. i \in TestIds /\ i <= cur
      BY <1>4 DEF IInv, Provenance, Recent
    <2>2. request.src = <<epoch, i>>
      BY <1>1, <1>4 DEF Message, Sources
    <2>3. Answered' = Answered \cup {i}
      BY <1>1, <1>4, <2>1, <2>2 DEF Answered, TestIds
    <2> QED
      BY <1>1, <2>1, <2>3 DEF Answered, TestIds, Rpc!RpcNext, Rpc!Answer
  <1> QED
    BY <1>2, <1>3, <1>4

LEMMA Restarts ==
  ASSUME Accounted, TypeOK, HostRestart
  PROVE  Rpc!RpcNext
  <1>1. /\ epoch' = epoch + 1 /\ cur' = 1 /\ served' = served
        /\ outcome' = [i \in TestIds |-> "none"]
    BY DEF HostRestart
  <1>2. Answered' = {}
    BY <1>1 DEF Accounted, Answered, TypeOK
  <1> QED
    BY <1>1, <1>2 DEF Rpc!RpcNext, Rpc!Restart, Rpc!Blank, Answered, TestIds

LEMMA RpcStep ==
  ASSUME IInv, GenuineAnswer, Accounted, [Next]_vars
  PROVE  [Rpc!RpcNext]_(Rpc!rpcVars)
  <1>1. CASE SendRequest
    BY <1>1, Fails, Stutters DEF SendRequest, TransferFails
  <1>2. CASE ClockResponse
    <2>1. cur \in TestIds
      BY <1>2 DEF ClockResponse, IInv, TypeInv, InSuite
    <2> QED
      BY <1>2, <2>1, Fails, Stutters DEF ClockResponse, TransferFails
  <1>3. CASE WaitHigh
    <2>1. cur \in TestIds
      BY <1>3 DEF WaitHigh, IInv, TypeInv, InSuite
    <2> QED
      BY <1>3, <2>1, Fails, Stutters DEF WaitHigh
  <1>4. CASE WaitLow
    <2>1. cur \in TestIds
      BY <1>4 DEF WaitLow, IInv, TypeInv, InSuite
    <2>2. /\ UNCHANGED <<epoch, served>> /\ hpc = "wait_low"
          /\ Conclude("fail") \/ (Accepts(Tests[cur], rx.frame) /\ Conclude("pass"))
      BY <1>4 DEF WaitLow
    <2> QED
      BY <2>1, <2>2, Fails, Passes
  <1>5. CASE HostInit \/ AssertReset \/ ReleaseReset \/ Settle \/ WaitIdle \/ Sleep \/ Summary
             \/ UNCHANGED vars
    BY <1>5, Stutters DEF HostInit, AssertReset, ReleaseReset, Settle, WaitIdle, Sleep, Summary,
                          HostDies, vars
  <1>6. CASE HostRestart
    BY <1>6, Restarts DEF IInv, TypeInv
  <1>7. CASE Boot \/ Backoff \/ ArmRequest \/ ArmResponse \/ RaiseReady \/ TakeDone \/ LowerReady
             \/ EndpointReset
    BY <1>7, Stutters DEF Boot, Backoff, ArmRequest, ArmResponse, RaiseReady, TakeDone,
                          LowerReady, EndpointReset, host
  <1> QED
    BY <1>1, <1>2, <1>3, <1>4, <1>5, <1>6, <1>7, Serves DEF Next, HostStep, EndpointStep

\* The link implements the abstract test protocol: a recorded pass of a
\* witnessed test is one the endpoint has served since the host's last power-on.
THEOREM LinkImplementsRpc == Spec => ImplementsRpc
  <1>1. Spec => [](IInv /\ GenuineAnswer /\ Accounted)
    BY IInvInit, IInvStep, AccountedInit, AccountedStep, LinkGenuineAnswer, PTL DEF Spec
  <1>2. IInv /\ GenuineAnswer /\ Accounted /\ [Next]_vars => [Rpc!RpcNext]_(Rpc!rpcVars)
    BY RpcStep
  <1> QED
    BY <1>1, <1>2, RpcInit, PTL DEF Spec, ImplementsRpc, Rpc!RpcSpec

\* What the abstract protocol keeps: a pass of a witnessed test was answered.
PassesAnswered ==
  /\ outcome = [i \in TestIds |-> outcome[i]]
  /\ \A i \in Witnessed : outcome[i] = "pass" => <<epoch, i>> \in served

LEMMA PassesAnsweredStep ==
  ASSUME PassesAnswered, [Rpc!RpcNext]_(Rpc!rpcVars)
  PROVE  PassesAnswered'
  <1> DEFINE answered == { i \in TestIds : <<epoch, i>> \in served }
  <1>1. Witnessed \subseteq TestIds /\ TestIds = 1 .. Len(Tests)
    BY DEF Witnessed, TestIds
  <1>2. ASSUME answered \subseteq answered', outcome' = outcome
        PROVE  PassesAnswered'
    <2>1. \A i \in Witnessed : i \in answered => i \in answered'
      BY <1>2
    <2> QED
      BY <1>1, <1>2, <2>1 DEF PassesAnswered
  <1>3. ASSUME NEW v \in {"pass", "fail"}, Rpc!Record(v),
               v = "pass" => (cur \in Witnessed => cur \in answered)
        PROVE  PassesAnswered'
    <2>1. /\ cur \in TestIds /\ outcome' = [outcome EXCEPT ![cur] = v]
          /\ epoch' = epoch /\ answered' = answered
      BY <1>1, <1>3 DEF Rpc!Record
    <2>2. outcome' = [i \in TestIds |-> IF i = cur THEN v ELSE outcome[i]]
      BY <2>1 DEF PassesAnswered
    <2>3. ASSUME NEW i \in Witnessed, outcome'[i] = "pass"
          PROVE  i \in answered'
      <3>1. CASE i = cur
        BY <1>1, <1>3, <2>1, <2>2, <2>3, <3>1
      <3>2. CASE i # cur
        BY <1>1, <2>1, <2>2, <2>3, <3>2 DEF PassesAnswered
      <3> QED
        BY <3>1, <3>2
    <2>4. \A i \in Witnessed : outcome'[i] = "pass" => (<<epoch, i>> \in served)'
      BY <2>3
    <2>5. outcome' = [i \in TestIds |-> outcome'[i]]
      BY <2>2
    <2> QED
      BY <2>4, <2>5 DEF PassesAnswered
  <1>4. CASE Rpc!Answer
    BY <1>1, <1>2, <1>4 DEF Rpc!Answer
  <1>5. CASE Rpc!Pass
    BY <1>3, <1>5 DEF Rpc!Pass
  <1>6. CASE Rpc!Record("fail")
    BY <1>3, <1>6
  <1>7. CASE Rpc!Restart
    BY <1>1, <1>7 DEF Rpc!Restart, Rpc!Blank, PassesAnswered
  <1>8. CASE UNCHANGED (Rpc!rpcVars)
    BY <1>2, <1>8 DEF Rpc!rpcVars
  <1> QED
    BY <1>4, <1>5, <1>6, <1>7, <1>8 DEF Rpc!RpcNext

\* Whatever is lost, late or damaged and whichever side restarts, a witnessed
\* test that exchange_request has passed since the host's last power-on was
\* served since then: the abstract protocol keeps this, so the link does.
THEOREM PassesAreServed == Spec => []PassesAnswered
  <1>1. Rpc!RpcInit => PassesAnswered
    BY DEF Rpc!RpcInit, Rpc!Blank, PassesAnswered, Witnessed, TestIds
  <1>2. PassesAnswered /\ [Rpc!RpcNext]_(Rpc!rpcVars) => PassesAnswered'
    BY PassesAnsweredStep
  <1>3. ImplementsRpc => []PassesAnswered
    BY <1>1, <1>2, PTL DEF ImplementsRpc, Rpc!RpcSpec
  <1> QED
    BY <1>3, LinkImplementsRpc

-----------------------------------------------------------------------------
(* A prompt endpoint.                                                      *)

\* The faults whose damage is bounded (send_response's returns, and frames).
Mild == {"garble", "dwm_arm", "ready_set"}

Absorbed == faults = 0 \/ Adversary \subseteq Mild

\* The endpoint waits for a request, or will before anything else.
Attending == dpc \in {"arm_req", "backoff", "wait_req"}

\* Where the endpoint is when the host executes a statement.
InStep ==
  /\ hpc # "dead"
  /\ hpc = "settle" => spis # "rsp" /\ (dpc = "boot" \/ (Attending /\ ready = "low"))
  /\ hpc = "wait_idle" => dpc = "wait_req" /\ ready = "low"
  /\ hpc = "send" => Attending /\ ready = "low"
  /\ hpc = "wait_high" =>
       \/ (Attending \/ dpc \in {"build", "arm_rsp"}) /\ ready = "low"
       \/ dpc = "raise" /\ spis = "rsp" /\ ready = "low"
       \/ dpc = "wait_done" /\ spis = "rsp" /\ ready = "high"
  /\ hpc = "clock" => dpc = "wait_done" /\ spis = "rsp" /\ ready = "high"
  /\ hpc = "wait_low" =>
       \/ dpc = "wait_done" /\ done = 1 /\ ready = "high"
       \/ dpc = "lower" /\ ready = "high"
       \/ Attending /\ spis # "rsp" /\ ready = "low"
  /\ hpc = "sleep" => Attending /\ spis # "rsp" /\ ready = "low"

\* Which buffer holds the request or the answer of the running test.
RequestHeld  == hpc = "wait_high" /\ dpc = "build"
ResponseHeld == \/ hpc = "wait_high" /\ dpc \in {"arm_rsp", "raise", "wait_done"}
                \/ hpc = "clock"

OfThisTest ==
  /\ RequestHeld => request.src = <<epoch, cur>>
  /\ ResponseHeld => response.src = <<epoch, cur>>
  /\ hpc = "wait_low" => rx.src = <<epoch, cur>>

Spoilt ==
  \/ RequestHeld /\ ~request.clean
  \/ ResponseHeld /\ ~response.clean
  \/ hpc = "wait_low" /\ ~rx.clean

\* How many tests the faults so far may yet fail: the running one and the next
\* if its frame is damaged or a response was left armed, the running one if
\* its request went unheard or swallowed one, the next one if it comes too soon.
Owed ==
  IF Spoilt \/ (hpc = "wait_high" /\ Attending /\ spis = "rsp") THEN 2
  ELSE IF \/ hpc = "wait_high" /\ Attending
          \/ hpc = "send" /\ dpc # "wait_req" THEN 1
  ELSE 0

Paid == Cardinality(Failed) + Owed <= 2 * faults

PromptInv == IInv /\ PhaseInv /\ (Absorbed => InStep /\ OfThisTest /\ Paid)

\* Every test is one of the probe's.
ProbesSuite == \A i \in TestIds : \E s \in Word : Tests[i] \in TestsWith(s)

\* So each passes on the undamaged answer to its own request.
LEMMA OwnAnswerAccepted ==
  ASSUME ProbesSuite, NEW i \in TestIds
  PROVE  Accepts(Tests[i], Reply(Tests[i].request))
  <1>1. PICK s \in Word : Tests[i] \in TestsWith(s)
    BY DEF ProbesSuite
  <1> QED
    BY <1>1, TestFacts, AcceptsReply

\* An answer that is on its way to the test it was made for passes it.
LEMMA CleanAnswerPasses ==
  ASSUME ProbesSuite, IInv, cur \in TestIds, FromAnswer(rx), rx.clean, rx.src = <<epoch, cur>>
  PROVE  Accepts(Tests[cur], rx.frame)
  <1>1. rx.src # NoSource /\ rx.src[2] = cur
    BY DEF NoSource, TestIds
  <1>2. rx.frame = Reply(Tests[cur].request)
    BY <1>1 DEF FromAnswer
  <1> QED
    BY <1>2, OwnAnswerAccepted

LEMMA MildFault ==
  ASSUME TypeOK, NEW kind, Fault(kind), Absorbed'
  PROVE  kind \in Mild /\ faults' = faults + 1
  BY DEF Fault, Absorbed, TypeOK

LEMMA FaultsStay ==
  ASSUME TypeOK, [Next]_vars
  PROVE  faults' \in {faults, faults + 1}
  <1>1. CASE HostStep
    BY <1>1 DEF HostStep, HostInit, AssertReset, ReleaseReset, Settle, WaitIdle, SendRequest,
                TransferFails, WaitHigh, ClockResponse, WaitLow, Sleep, Summary,
                ReadyTimesOut, Fault, NoFault
  <1>2. CASE EndpointStep \/ EndpointReset
    BY <1>2 DEF EndpointStep, EndpointReset, Boot, ArmRequest, Backoff, Build, ArmResponse,
                RaiseReady, TakeDone, LowerReady, Fault, NoFault
  <1>3. CASE HostRestart \/ UNCHANGED vars
    BY <1>3 DEF HostRestart, vars
  <1> QED
    BY <1>1, <1>2, <1>3 DEF Next

LEMMA AbsorbedBefore ==
  ASSUME TypeOK, [Next]_vars, Absorbed'
  PROVE  Absorbed
  BY FaultsStay DEF Absorbed, TypeOK

-----------------------------------------------------------------------------
(* What a test that fails costs.                                           *)

LEMMA OwedRange == Owed \in 0 .. 2 /\ Owed' \in 0 .. 2
  BY DEF Owed

LEMMA FailedFinite == IsFiniteSet(Failed) /\ Cardinality(Failed) \in Nat
  <1>1. IsFiniteSet(TestIds)
    BY TestsAssumption, FS_Interval DEF TestIds
  <1>2. IsFiniteSet(Failed)
    BY <1>1, FS_Subset DEF Failed
  <1> QED
    BY <1>2, FS_CardinalityType

\* A fault of the step pays for two.
LEMMA PaidKept ==
  ASSUME TypeOK, Paid, outcome' = outcome,
         \/ faults' = faults /\ Owed' <= Owed
         \/ faults' = faults + 1 /\ Owed' <= Owed + 2
  PROVE  Paid'
  <1>1. Failed' = Failed
    BY DEF Failed, TestIds
  <1> QED
    BY <1>1, FailedFinite, OwedRange DEF Paid, TypeOK

LEMMA PaidFailure ==
  ASSUME TypeOK, Paid, cur \in TestIds, Conclude("fail"),
         faults' = faults, Owed' < Owed
  PROVE  Paid'
  <1>1. Failed' = Failed \cup {cur}
    BY DEF Conclude, Failed, TestIds, TypeOK
  <1>2. Cardinality(Failed') <= Cardinality(Failed) + 1
    BY <1>1, FailedFinite, FS_AddElement
  <1>3. Cardinality(Failed') \in Nat
    <2>1. IsFiniteSet(Failed \cup {cur})
      BY FailedFinite, FS_AddElement
    <2> QED
      BY <1>1, <2>1, FS_CardinalityType
  <1>4. faults \in Nat
    BY DEF TypeOK
  <1>5. Cardinality(Failed) + Owed <= 2 * faults
    BY DEF Paid
  <1>6. Owed \in Int /\ Owed' \in Int
    BY OwedRange
  <1>7. \A a, b, c, d, n \in Int : a <= b + 1 /\ c < d /\ b + d <= n => a + c <= n
    OBVIOUS
  <1>8. Cardinality(Failed') + Owed' <= 2 * faults
    BY <1>2, <1>3, <1>4, <1>5, <1>6, <1>7, FailedFinite
  <1> QED
    BY <1>8 DEF Paid

LEMMA PaidPass ==
  ASSUME TypeOK, Paid, cur \in TestIds, Conclude("pass"), faults' = faults, Owed' = 0
  PROVE  Paid'
  <1>1. Failed' \subseteq Failed
    BY DEF Conclude, Failed, TestIds, TypeOK
  <1>2. Cardinality(Failed') <= Cardinality(Failed) /\ Cardinality(Failed') \in Nat
    BY <1>1, FailedFinite, FS_Subset, FS_CardinalityType
  <1> QED
    BY <1>2, FailedFinite, OwedRange DEF Paid, TypeOK

-----------------------------------------------------------------------------
(* One lemma per side and statement.                                       *)

\* What is known of a step that is absorbed.
Known == /\ Prompt /\ ProbesSuite
         /\ IInv /\ PhaseInv /\ InStep /\ OfThisTest /\ Paid
         /\ TypeOK'

Goal == InStep /\ OfThisTest /\ Paid

LEMMA PromptSend ==
  ASSUME Known, Absorbed', SendRequest
  PROVE  Goal'
  <1> USE DEF Known, IInv, TypeInv
  <1>1. /\ hpc = "send" /\ cur \in TestIds /\ UNCHANGED <<ready, epoch>>
        /\ Attending /\ ready = "low" /\ Sent \in Message
        /\ Sent.src = <<epoch, cur>> /\ Sent.clean = TRUE
    BY SentType DEF SendRequest, InStep, Sent
  <1>2. ~TransferFails(Sent)
    BY MildFault DEF TransferFails, Mild
  <1>3. /\ hpc' = "wait_high" /\ UNCHANGED <<cur, outcome>>
    BY <1>2 DEF SendRequest
  <1>4. CASE (Unheard \/ ResponseCompletes) /\ NoFault
    <2>1. Attending' /\ spis' = "idle"
      BY <1>1, <1>4 DEF Unheard, ResponseCompletes, endpoint, Attending
    <2>2. spis = "req" => FALSE
      BY <1>4 DEF Unheard, ResponseCompletes
    <2>3. Owed' <= Owed
      BY <1>1, <1>3, <1>4, <2>1, <2>2
      DEF Owed, Spoilt, RequestHeld, ResponseHeld, Attending, PhaseInv, ArmedByPhase
    <2>a. InStep'
      BY <1>1, <1>3, <1>4, <2>1, <2>3 DEF InStep, Attending, NoFault
    <2>b. OfThisTest'
      BY <1>1, <1>3, <1>4, <2>1, <2>3 DEF OfThisTest, RequestHeld, ResponseHeld, Attending, NoFault
    <2>c. Paid'
      BY <1>1, <1>3, <1>4, <2>1, <2>3, PaidKept DEF NoFault
    <2> QED
      BY <2>a, <2>b, <2>c DEF Goal
  <1>5. ASSUME NEW m \in Message, m.src = <<epoch, cur>>, RequestReceived(m),
               (m.clean = TRUE /\ NoFault) \/ faults' = faults + 1
        PROVE  Goal'
    <2>1. dpc' = "build" /\ request' = m
      BY <1>5 DEF RequestReceived
    <2>2. faults' = faults => Owed' = 0
      BY <1>3, <1>5, <2>1 DEF Owed, Spoilt, RequestHeld, ResponseHeld, Attending, NoFault, TypeOK
    <2>a. InStep'
      BY <1>1, <1>3, <1>5, <2>1, <2>2 DEF InStep, Attending, NoFault
    <2>b. OfThisTest'
      BY <1>1, <1>3, <1>5, <2>1, <2>2 DEF OfThisTest, RequestHeld, ResponseHeld, NoFault
    <2>c. Paid'
      BY <1>1, <1>3, <1>5, <2>1, <2>2, OwedRange, PaidKept DEF NoFault
    <2> QED
      BY <2>a, <2>b, <2>c DEF Goal
  <1>6. CASE RequestReceived(Sent) /\ NoFault
    BY <1>1, <1>5, <1>6
  <1>7. CASE \E m \in Damaged(Sent) : RequestReceived(m) /\ Fault("garble")
    BY <1>1, <1>5, <1>7, DamagedFacts, MildFault
  <1> QED
    BY <1>2, <1>4, <1>6, <1>7 DEF SendRequest

LEMMA PromptClock ==
  ASSUME Known, Absorbed', ClockResponse
  PROVE  Goal'
  <1> USE DEF Known, IInv, TypeInv
  <1>1. /\ hpc = "clock" /\ UNCHANGED <<ready, epoch>>
        /\ dpc = "wait_done" /\ spis = "rsp" /\ ready = "high"
        /\ response.src = <<epoch, cur>> /\ response \in Message
    BY DEF ClockResponse, InStep, OfThisTest, ResponseHeld, TypeOK
  <1>2. ~TransferFails(NoMessage)
    BY MildFault DEF TransferFails, Mild
  <1>3. /\ hpc' = "wait_low" /\ UNCHANGED <<cur, outcome>> /\ ResponseCompletes
        /\ \/ rx' = response /\ NoFault
           \/ rx' \in Damaged(response) /\ Fault("garble")
    BY <1>1, <1>2 DEF ClockResponse, Unheard, RequestReceived
  <1>4. dpc' = "wait_done" /\ done' = 1 /\ rx'.src = <<epoch, cur>>
    BY <1>1, <1>3, DamagedFacts DEF ResponseCompletes
  <1>5. \/ faults' = faults /\ Owed' <= Owed
        \/ faults' = faults + 1 /\ Owed' <= Owed + 2
    <2>1. CASE rx' = response /\ NoFault
      BY <1>1, <1>3, <2>1 DEF Owed, Spoilt, RequestHeld, ResponseHeld, NoFault
    <2>2. CASE Fault("garble")
      BY <2>2, MildFault, OwedRange
    <2> QED
      BY <1>3, <2>1, <2>2
  <1>a. InStep'
    BY <1>1, <1>3, <1>4, <1>5 DEF InStep
  <1>b. OfThisTest'
    BY <1>1, <1>3, <1>4, <1>5 DEF OfThisTest, RequestHeld, ResponseHeld
  <1>c. Paid'
    BY <1>1, <1>3, <1>4, <1>5, PaidKept
  <1> QED
    BY <1>a, <1>b, <1>c DEF Goal

LEMMA PromptWaitHigh ==
  ASSUME Known, Absorbed', WaitHigh
  PROVE  Goal'
  <1> USE DEF Known, IInv, TypeInv
  <1>1. /\ hpc = "wait_high" /\ cur \in TestIds
        /\ UNCHANGED <<endpoint, ready, epoch>> /\ rx' = rx
    BY DEF WaitHigh, InSuite
  <1>2. ~Fault("ready_read")
    BY MildFault DEF Mild
  <1>3. CASE ReadsAs("high") /\ NoFault /\ hpc' = "clock" /\ UNCHANGED <<cur, rx, outcome>>
    <2>1. dpc = "wait_done" /\ spis = "rsp" /\ ready = "high"
      BY <1>1, <1>3 DEF InStep, ReadsAs
    <2>2. Owed' <= Owed
      BY <1>1, <1>3, <2>1 DEF Owed, Spoilt, RequestHeld, ResponseHeld, Attending, endpoint
    <2>a. InStep'
      BY <1>1, <1>3, <2>1, <2>2 DEF InStep, endpoint, NoFault
    <2>b. OfThisTest'
      BY <1>1, <1>3, <2>1, <2>2 DEF OfThisTest, RequestHeld, ResponseHeld, endpoint, NoFault
    <2>c. Paid'
      BY <1>1, <1>3, <2>1, <2>2, PaidKept DEF NoFault
    <2> QED
      BY <2>a, <2>b, <2>c DEF Goal
  <1>4. CASE ReadyTimesOut("high") /\ Conclude("fail")
    <2>1. Quiescent /\ ready # "high" /\ faults' = faults
      BY <1>4 DEF ReadyTimesOut, Elapsed, NoFault
    <2>2. Attending /\ ready = "low" /\ (dpc = "wait_req" \/ (dpc = "arm_req" /\ spis = "rsp"))
      BY <1>1, <2>1 DEF InStep, Quiescent, Attending
    <2>3. hpc' = "send"
      BY <1>4 DEF Conclude
    <2>4. Owed' < Owed
      BY <1>1, <2>2, <2>3
      DEF Owed, Spoilt, RequestHeld, ResponseHeld, Attending, endpoint, PhaseInv, ArmedByPhase
    <2>a. InStep'
      BY <1>1, <1>4, <2>1, <2>2, <2>3, <2>4 DEF InStep, endpoint, Attending
    <2>b. OfThisTest'
      BY <1>1, <1>4, <2>1, <2>2, <2>3, <2>4 DEF OfThisTest, RequestHeld, ResponseHeld, endpoint
    <2>c. Paid'
      BY <1>1, <1>4, <2>1, <2>2, <2>3, <2>4, PaidFailure
    <2> QED
      BY <2>a, <2>b, <2>c DEF Goal
  <1> QED
    BY <1>2, <1>3, <1>4 DEF WaitHigh

LEMMA PromptWaitLow ==
  ASSUME Known, Absorbed', WaitLow
  PROVE  Goal'
  <1> USE DEF Known, IInv, TypeInv
  <1>1. /\ hpc = "wait_low" /\ cur \in TestIds
        /\ UNCHANGED <<endpoint, ready, epoch>> /\ rx' = rx
        /\ rx.src = <<epoch, cur>> /\ FromAnswer(rx)
    BY DEF WaitLow, InSuite, OfThisTest, Provenance
  <1>2. ~Fault("ready_read") /\ ~ReadyTimesOut("low")
    <2>1. ~Fault("ready_read")
      BY MildFault DEF Mild
    <2>2. ~ReadyTimesOut("low")
      BY <1>1 DEF ReadyTimesOut, Elapsed, Quiescent, InStep
    <2> QED
      BY <2>1, <2>2
  <1>3. /\ ReadsAs("low") /\ NoFault
        /\ Conclude(IF Accepts(Tests[cur], rx.frame) THEN "pass" ELSE "fail")
    BY <1>2 DEF WaitLow
  <1>4. Attending /\ spis # "rsp" /\ ready = "low"
    BY <1>1, <1>3 DEF InStep, ReadsAs
  <1>5. CASE Accepts(Tests[cur], rx.frame)
    <2>1. Conclude("pass") /\ hpc' = "sleep"
      BY <1>3, <1>5 DEF Conclude
    <2>2. Owed' = 0
      BY <2>1 DEF Owed, Spoilt, RequestHeld, ResponseHeld
    <2> QED
      BY <1>1, <1>3, <1>4, <2>1, <2>2, PaidPass
      DEF Goal, InStep, OfThisTest, RequestHeld, ResponseHeld, endpoint, Attending, NoFault
  <1>6. CASE ~Accepts(Tests[cur], rx.frame)
    <2>1. Conclude("fail") /\ hpc' = "send"
      BY <1>3, <1>6 DEF Conclude
    <2>2. ~rx.clean
      BY <1>1, <1>6, CleanAnswerPasses
    <2>3. Owed = 2 /\ Owed' <= 1
      BY <1>1, <2>1, <2>2 DEF Owed, Spoilt, RequestHeld, ResponseHeld
    <2>a. InStep'
      BY <1>1, <1>3, <1>4, <2>1, <2>3 DEF InStep, endpoint, Attending, NoFault
    <2>b. OfThisTest'
      BY <1>1, <1>3, <1>4, <2>1, <2>3 DEF OfThisTest, RequestHeld, ResponseHeld, endpoint, NoFault
    <2>4. faults' = faults
      BY <1>3 DEF NoFault
    <2>5. Owed' < Owed
      BY <2>3, OwedRange
    <2>c. Paid'
      BY <1>1, <2>1, <2>4, <2>5, PaidFailure
    <2> QED
      BY <2>a, <2>b, <2>c DEF Goal
  <1> QED
    BY <1>5, <1>6

\* The host's other statements: no test begins or ends in them.
LEMMA PromptStart ==
  ASSUME Known, Absorbed',
         HostInit \/ AssertReset \/ ReleaseReset \/ Settle \/ WaitIdle \/ Sleep \/ Summary
  PROVE  Goal'
  <1> USE DEF Known, IInv, TypeInv
  <1>1. ~HostDies
    <2>1. ~Fault("host_gpio") /\ ~Fault("ready_read")
      BY MildFault DEF Mild
    <2>2. hpc = "wait_idle" => ~ReadyTimesOut("low")
      BY DEF ReadyTimesOut, InStep
    <2> QED
      BY <2>1, <2>2 DEF HostInit, AssertReset, ReleaseReset, Settle, WaitIdle, Sleep, Summary,
                        HostDies
  <1>2. faults' = faults /\ outcome' = outcome
    BY <1>1 DEF HostInit, AssertReset, ReleaseReset, Settle, WaitIdle, Sleep, Summary, NoFault
  <1>3. InStep' /\ hpc' \notin {"wait_high", "clock", "wait_low"}
    <2>1. CASE HostInit \/ AssertReset
      BY <1>1, <2>1 DEF HostInit, AssertReset, InStep
    <2>2. CASE ReleaseReset
      BY <1>1, <2>2 DEF ReleaseReset, InStep, PhaseInv, HeldInReset, ArmedByPhase
    <2>3. CASE Settle \/ Sleep
      BY <2>3 DEF Settle, Sleep, Elapsed, Quiescent, InStep, Attending, endpoint
    <2>4. CASE WaitIdle
      BY <1>1, <2>4 DEF WaitIdle, InStep, Attending, endpoint
    <2>5. CASE Summary
      BY <2>5 DEF Summary, InStep
    <2> QED
      BY <2>1, <2>2, <2>3, <2>4, <2>5
  <1>4. OfThisTest'
    BY <1>3 DEF OfThisTest, RequestHeld, ResponseHeld
  <1>5. Owed' = 0
    <2>1. hpc' = "send" => dpc' = "wait_req"
      BY <1>1 DEF HostInit, AssertReset, ReleaseReset, Settle, WaitIdle, Sleep, Summary,
                  InStep, endpoint, Elapsed, Quiescent, Attending
    <2> QED
      BY <1>3, <2>1 DEF Owed, Spoilt, RequestHeld, ResponseHeld
  <1> QED
    BY <1>2, <1>3, <1>4, <1>5, OwedRange, PaidKept DEF Goal

LEMMA PromptRestart ==
  ASSUME Known, HostRestart
  PROVE  Goal'
  <1> USE DEF Known, IInv, TypeInv
  <1>1. hpc' = "init" /\ Failed' = {} /\ faults' = faults
    BY DEF HostRestart, Failed, TestIds
  <1>2. Owed' = 0 /\ Cardinality(Failed') = 0
    BY <1>1, FS_EmptySet DEF Owed, Spoilt, RequestHeld, ResponseHeld
  <1> QED
    BY <1>1, <1>2 DEF Goal, InStep, OfThisTest, RequestHeld, ResponseHeld, Paid, TypeOK

LEMMA PromptEndpoint ==
  ASSUME Known, Absorbed', EndpointStep
  PROVE  Goal'
  <1> USE DEF Known, IInv, TypeInv
  <1>1. UNCHANGED <<hpc, cur, rx, outcome, epoch>>
    BY DEF EndpointStep, Boot, ArmRequest, Backoff, Build, ArmResponse, RaiseReady, TakeDone,
           LowerReady, host
  <1>2. CASE Boot
    <2>1. dpc = "boot" /\ dpc' = "arm_req" /\ ready' = "low" /\ faults' = faults
          /\ spis' = spis
      BY <1>2, MildFault DEF Boot, Mild, NoFault
    <2>2. Owed' <= Owed
      BY <1>1, <2>1 DEF Owed, Spoilt, RequestHeld, ResponseHeld, Attending, InStep
    <2>a. InStep'
      BY <1>1, <2>1, <2>2 DEF InStep, Attending
    <2>b. OfThisTest'
      BY <1>1, <2>1, <2>2 DEF OfThisTest, RequestHeld, ResponseHeld, InStep
    <2>c. Paid'
      BY <1>1, <2>1, <2>2, PaidKept
    <2> QED
      BY <2>a, <2>b, <2>c DEF Goal
  <1>3. CASE ArmRequest \/ Backoff
    <2>1. /\ Attending /\ Attending' /\ spis # "rsp" /\ spis' # "rsp" /\ ready' = ready
          /\ dpc' = "wait_req" \/ dpc # "wait_req"
          /\ response' = response /\ faults' \in {faults, faults + 1}
      BY <1>3, MildFault
      DEF ArmRequest, Backoff, Attending, NoFault, PhaseInv, ArmedByPhase
    <2>2. Owed' <= Owed
      BY <1>1, <2>1 DEF Owed, Spoilt, RequestHeld, ResponseHeld, Attending
    <2>3. InStep' /\ OfThisTest'
      BY <1>1, <2>1 DEF InStep, OfThisTest, RequestHeld, ResponseHeld, Attending
    <2> QED
      BY <1>1, <2>1, <2>2, <2>3, OwedRange, PaidKept DEF Goal
  <1>4. CASE Build
    <2>1. /\ dpc = "build" /\ dpc' = "arm_rsp" /\ UNCHANGED <<spis, done, ready, faults>>
          /\ response'.src = request.src /\ response'.clean = request.clean
      BY <1>4, AnswerFacts DEF Build, TypeOK
    <2>2. Owed' <= Owed
      <3>1. hpc # "clock" /\ dpc' # "build"
        BY <2>1 DEF InStep
      <3>2. Spoilt' => Spoilt
        BY <1>1, <2>1, <3>1 DEF Spoilt, RequestHeld, ResponseHeld
      <3> QED
        BY <1>1, <2>1, <3>2 DEF Owed, Attending
    <2>3. InStep' /\ OfThisTest'
      BY <1>1, <2>1 DEF InStep, OfThisTest, RequestHeld, ResponseHeld, Attending
    <2> QED
      BY <1>1, <2>1, <2>2, <2>3, PaidKept DEF Goal
  <1>5. CASE ArmResponse \/ RaiseReady
    <2>1. CASE NoFault
      <3>1. /\ UNCHANGED <<response, faults>>
            /\ \/ dpc = "arm_rsp" /\ dpc' = "raise" /\ spis' = "rsp" /\ ready' = ready
               \/ /\ dpc = "raise" /\ dpc' = "wait_done" /\ spis' = spis
                  /\ ready' = "high"
        BY <1>5, <2>1 DEF ArmResponse, RaiseReady, NoFault, Fault, TypeOK
      <3>2. Owed' <= Owed
        BY <1>1, <3>1 DEF Owed, Spoilt, RequestHeld, ResponseHeld, Attending
      <3>3. InStep' /\ OfThisTest'
        BY <1>1, <3>1 DEF InStep, OfThisTest, RequestHeld, ResponseHeld, Attending
      <3> QED
        BY <1>1, <3>1, <3>2, <3>3, PaidKept DEF Goal
    <2>2. CASE ~NoFault
      <3>1. /\ faults' = faults + 1 /\ dpc' = "arm_req"
            /\ UNCHANGED <<spis, ready>> /\ dpc \in {"arm_rsp", "raise"}
        BY <1>5, <2>2, MildFault DEF ArmResponse, RaiseReady
      <3>2. InStep' /\ OfThisTest'
        BY <1>1, <3>1
        DEF InStep, OfThisTest, RequestHeld, ResponseHeld, Attending, PhaseInv, ArmedByPhase
      <3> QED
        BY <1>1, <3>1, <3>2, OwedRange, PaidKept DEF Goal
    <2> QED
      BY <2>1, <2>2
  <1>6. CASE TakeDone \/ LowerReady
    <2>1. CASE TakeDone
      <3>1. /\ dpc = "wait_done" /\ done = 1 /\ dpc' = "lower"
            /\ UNCHANGED <<response, spis, ready, faults>>
        BY <2>1 DEF TakeDone
      <3>2. hpc \notin {"wait_high", "clock", "send"}
        BY <3>1 DEF InStep, Attending, PhaseInv, ArmedByPhase
      <3>3. Owed' <= Owed
        BY <1>1, <3>1, <3>2 DEF Owed, Spoilt, RequestHeld, ResponseHeld
      <3>4. InStep' /\ OfThisTest'
        BY <1>1, <3>1, <3>2 DEF InStep, OfThisTest, RequestHeld, ResponseHeld, Attending
      <3> QED
        BY <1>1, <3>1, <3>3, <3>4, PaidKept DEF Goal
    <2>2. CASE LowerReady
      <3>1. /\ dpc = "lower" /\ dpc' = "arm_req" /\ ready' = "low"
            /\ UNCHANGED <<response, spis, done, faults>> /\ spis # "rsp"
        BY <2>2, MildFault DEF LowerReady, Mild, NoFault, PhaseInv, ArmedByPhase
      <3>2. hpc \notin {"wait_high", "clock", "send"}
        BY <3>1 DEF InStep, Attending
      <3>3. Owed' <= Owed
        BY <1>1, <3>1, <3>2 DEF Owed, Spoilt, RequestHeld, ResponseHeld
      <3>4. InStep' /\ OfThisTest'
        BY <1>1, <3>1, <3>2 DEF InStep, OfThisTest, RequestHeld, ResponseHeld, Attending
      <3> QED
        BY <1>1, <3>1, <3>3, <3>4, PaidKept DEF Goal
    <2> QED
      BY <1>6, <2>1, <2>2
  <1> QED
    BY <1>2, <1>3, <1>4, <1>5, <1>6 DEF EndpointStep

LEMMA PromptInit == Init => PromptInv
  <1>1. ASSUME Init PROVE InStep /\ OfThisTest /\ Paid
    <2>1. Failed = {} /\ Owed = 0
      BY <1>1 DEF Init, Failed, TestIds, Owed, Spoilt, RequestHeld, ResponseHeld
    <2> QED
      BY <1>1, <2>1, FS_EmptySet
      DEF Init, InStep, OfThisTest, RequestHeld, ResponseHeld, Paid
  <1> QED
    BY <1>1, IInvInit, PhaseInit DEF PromptInv

LEMMA PromptStep ==
  ASSUME Prompt, ProbesSuite, PromptInv, [Next]_vars
  PROVE  PromptInv'
  <1>1. IInv' /\ PhaseInv' /\ TypeOK /\ TypeOK'
    BY IInvStep, PhaseStep DEF PromptInv, IInv, TypeInv
  <1> SUFFICES ASSUME Absorbed' PROVE Goal'
    BY <1>1 DEF PromptInv, Goal
  <1>2. Known
    BY <1>1, AbsorbedBefore DEF Known, PromptInv
  <1>3. ~EndpointReset
    BY <1>1, MildFault DEF EndpointReset, Mild
  <1>4. CASE UNCHANGED vars
    BY <1>2, <1>4 DEF vars, Known, Goal, InStep, OfThisTest, RequestHeld, ResponseHeld, Paid,
                      Owed, Spoilt, Attending, Failed, TestIds
  <1> QED
    BY <1>2, <1>3, <1>4, PromptSend, PromptClock, PromptWaitHigh, PromptWaitLow, PromptStart,
       PromptRestart, PromptEndpoint DEF Next, HostStep

\* With a prompt endpoint, no test of the probe's suite fails and the host never
\* gives up as long as nothing goes wrong, however often the host is restarted
\* (main's summary line).
THEOREM HealthySuitePasses ==
  ASSUME Prompt, ProbesSuite
  PROVE  Spec => []HealthyLinkPasses
<1>1. SelfTestPasses
  BY DEF SelfTestPasses, ValidateResponse, BuildResponse, Header, ResponseFlags,
         ResponseOpcode, STATUS_OK, OP_GET_CAPABILITIES, RSP_GET_CAPABILITIES, RESPONSE_LEN,
         VERSION, HEADER_LEN, MAX_PAYLOAD, CAPABILITIES_LEN
<1>2. PromptInv => HealthyLinkPasses
  <2> SUFFICES ASSUME PromptInv, faults = 0 PROVE Failed = {} /\ hpc # "dead"
    BY <1>1 DEF HealthyLinkPasses
  <2>1. TypeOK /\ InStep /\ Paid
    BY DEF PromptInv, Absorbed, IInv, TypeInv
  <2>2. Cardinality(Failed) = 0
    BY <2>1, FailedFinite, OwedRange DEF Paid
  <2> QED
    BY <2>1, <2>2, FailedFinite, FS_EmptySet DEF InStep
<1> QED
  BY <1>2, PromptInit, PromptStep, PTL DEF Spec

\* Each damaged frame, transfer that is not armed and READY that is not raised
\* costs two tests at most (exchange_request, send_response).
THEOREM DamageIsBounded ==
  ASSUME Prompt, ProbesSuite, Adversary \subseteq Mild
  PROVE  Spec => []BoundedDamage
<1>1. PromptInv => BoundedDamage
  <2> SUFFICES ASSUME PromptInv PROVE Cardinality(Failed) <= 2 * faults
    BY DEF BoundedDamage
  <2>1. TypeOK /\ Paid
    BY DEF PromptInv, Absorbed, IInv, TypeInv
  <2> QED
    BY <2>1, FailedFinite, OwedRange DEF Paid, TypeOK
<1> QED
  BY <1>1, PromptInit, PromptStep, PTL DEF Spec

\* And whatever they cost, the host clocks a response phase only while the
\* prepared response is armed.
THEOREM ClockMeetsResponse ==
  ASSUME Prompt, ProbesSuite, Adversary \subseteq Mild
  PROVE  Spec => []ResponsePhaseArmed
<1>1. PromptInv => ResponsePhaseArmed
  BY DEF PromptInv, Absorbed, InStep, ResponsePhaseArmed
<1> QED
  BY <1>1, PromptInit, PromptStep, PTL DEF Spec
=============================================================================
