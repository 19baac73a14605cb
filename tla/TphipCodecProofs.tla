--------------------------- MODULE TphipCodecProofs ---------------------------
(* The codec's promises, for every frame that can arrive.                    *)
EXTENDS TphipCodec, TphipFrameProofs

CodecInv ==
  /\ received \in Frame
  /\ answered \in BOOLEAN
  /\ answered => reply = Reply(received)

LEMMA CodecInvHolds == CodecSpec => []CodecInv
  <1>1. CodecInit => CodecInv
    BY FixedFrames DEF CodecInit, CodecInv
  <1>2. CodecInv /\ [CodecNext]_codecVars => CodecInv'
    <2> SUFFICES ASSUME CodecInv, [CodecNext]_codecVars PROVE CodecInv'
      OBVIOUS
    <2>1. CASE AwaitFrame
      BY <2>1, FixedFrames DEF AwaitFrame, CodecInv
    <2>2. CASE AnswerFrame
      BY <2>2, InputsAssumption DEF AnswerFrame, CodecInv
    <2>3. CASE UNCHANGED codecVars
      BY <2>3 DEF codecVars, CodecInv
    <2> QED
      BY <2>1, <2>2, <2>3 DEF CodecNext
  <1> QED
    BY <1>1, <1>2, PTL DEF CodecSpec

\* Every answer is a well-formed response to what was received, for all
\* frames, not only those around the codec's boundaries.
THEOREM RepliesAreWellFormed == CodecSpec => []ReplyWellFormed
  <1>1. CodecInv => ReplyWellFormed
    BY ReplyValidates DEF CodecInv, ReplyWellFormed
  <1> QED
    BY <1>1, CodecInvHolds, PTL

\* Status OK is given for nothing but an intact GET_CAPABILITIES request.
THEOREM OkIsEarned == CodecSpec => []OkOnlyForIntactRequest
  <1>1. CodecInv => OkOnlyForIntactRequest
    <2> SUFFICES ASSUME CodecInv, answered, reply.status = STATUS_OK
                 PROVE  received = Header(OP_GET_CAPABILITIES, {},
                                          received.sequence, 0, 0,
                                          received.body)
      BY DEF OkOnlyForIntactRequest
    <2>1. reply = Reply(received) /\ received \in Frame
      BY DEF CodecInv
    <2>2. ValidateRequest(received, REQUEST_LEN) = "OK"
      BY <2>1, ReplyFields
    <2>3. received = [ magic |-> received.magic, version |-> received.version,
                       headerLen |-> received.headerLen,
                       opcode |-> received.opcode, flags |-> received.flags,
                       sequence |-> received.sequence,
                       status |-> received.status,
                       payloadLen |-> received.payloadLen,
                       crcOk |-> received.crcOk, body |-> received.body ]
      BY <2>1 DEF Frame
    <2>4. received.magic = TRUE /\ received.crcOk = TRUE
      <3>1. received.magic \in BOOLEAN /\ received.crcOk \in BOOLEAN
        BY <2>1 DEF Frame
      <3> QED
        BY <2>1, <2>2, <3>1, AcceptedRequest
    <2>5. /\ received.version = VERSION /\ received.headerLen = HEADER_LEN
          /\ received.opcode = OP_GET_CAPABILITIES /\ received.flags = {}
          /\ received.status = 0 /\ received.payloadLen = 0
      BY <2>1, <2>2, AcceptedRequest
    <2> QED
      BY <2>3, <2>4, <2>5 DEF Header
  <1> QED
    BY <1>1, CodecInvHolds, PTL

\* No frame is good in both directions.
THEOREM NoLoopback == CodecSpec => []DirectionsDisjoint
  <1>1. CodecInv => DirectionsDisjoint
    <2> SUFFICES ASSUME CodecInv PROVE DirectionsDisjoint
      OBVIOUS
    <2>1. answered => ValidateRequest(reply, REQUEST_LEN) = "BAD_FLAGS"
      <3> SUFFICES ASSUME answered
                   PROVE  ValidateRequest(reply, REQUEST_LEN) = "BAD_FLAGS"
        OBVIOUS
      <3>1. reply = Reply(received) /\ received \in Frame
        BY DEF CodecInv
      <3> QED
        BY <3>1, ReplyFields DEF ValidateRequest
    <2>2. ASSUME ValidateRequest(received, REQUEST_LEN) = "OK", NEW t
          PROVE  ~Accepts(t, received)
      <3>1. received.flags = {}
        BY <2>2, AcceptedRequest DEF CodecInv
      <3>2. "RESPONSE" \in received.flags \/ ~Accepts(t, received)
        BY DEF Accepts, ValidateResponse
      <3> QED
        BY <3>1, <3>2
    <2> QED
      BY <2>1, <2>2 DEF DirectionsDisjoint
  <1> QED
    BY <1>1, CodecInvHolds, PTL

\* Every test of the suite passes on the answer to its own request, and on no answer
\* to a request that differs in sequence, opcode or first fault.
THEOREM SuiteDiscriminates == CodecSpec => []TestsDiscriminate
  <1>1. ASSUME NEW t \in Tested
        PROVE  /\ t.request \in Frame
               /\ \A f \in Frame : Accepts(t, Reply(f)) <=>
                    /\ f.sequence = t.request.sequence
                    /\ ResponseOpcode(f.opcode) = t.opcode
                    /\ Verdict(f) = Verdict(t.request)
               /\ ResponseOpcode(t.request.opcode) = t.opcode
    <2>1. PICK s \in Word : t \in TestsWith(s)
      BY InputsAssumption DEF Tested
    <2>2. \A f : Verdict(f) = Said(f)
      BY DEF Verdict, Said
    <2> QED
      BY <2>1, <2>2, TestFacts, AcceptsReply
  <1>2. CodecInv => TestsDiscriminate
    BY <1>1 DEF CodecInv, TestsDiscriminate
  <1> QED
    BY <1>2, CodecInvHolds, PTL
=============================================================================
