--------------------------- MODULE TphipFrameProofs ---------------------------
(* Facts about the frame codec, for every frame.                             *)
EXTENDS TphipFrame, TLAPS

Verdicts == { "OK", "BAD_PHYSICAL_LENGTH", "BAD_MAGIC", "BAD_VERSION",
              "BAD_HEADER_LENGTH", "BAD_FLAGS", "BAD_RESERVED",
              "BAD_PAYLOAD_LENGTH", "BAD_CRC", "BAD_OPCODE" }

\* The fixed buffers are frames.
LEMMA FixedFrames == ZeroFrame \in Frame /\ IdleFrame \in Frame
  BY DEF ZeroFrame, IdleFrame, Frame, Byte, Word, FlagBits, Bodies

\* tphip_validate_request returns one of ten results.
LEMMA ValidateRequestType ==
  ASSUME NEW f, NEW len
  PROVE  ValidateRequest(f, len) \in Verdicts
  BY DEF ValidateRequest, Verdicts

\* Each result of validation becomes a status code of the protocol, and only
\* an accepted request becomes OK.
LEMMA StatusType ==
  ASSUME NEW v \in Verdicts
  PROVE  /\ StatusFromValidation(v) \in 0 .. 9
         /\ StatusFromValidation(v) = STATUS_OK <=> v = "OK"
  BY DEF StatusFromValidation, StatusOf, STATUS_OK, Verdicts

\* A request the endpoint accepts is intact and asks for the capabilities.
LEMMA AcceptedRequest ==
  ASSUME NEW f \in Frame, ValidateRequest(f, REQUEST_LEN) = "OK"
  PROVE  /\ f.magic /\ f.version = VERSION /\ f.headerLen = HEADER_LEN
         /\ f.flags = {} /\ f.status = 0 /\ f.payloadLen = 0
         /\ f.crcOk /\ f.opcode = OP_GET_CAPABILITIES
  BY DEF ValidateRequest, WrongPayloadLength

\* tphip_build_response makes a frame out of any opcode, sequence and status.
LEMMA BuildResponseType ==
  ASSUME NEW op \in Byte, NEW s \in Word, NEW st \in 0 .. 9
  PROVE  BuildResponse(op, s, st) \in Frame
  <1> DEFINE r == BuildResponse(op, s, st)
  <1>1. ResponseOpcode(op) \in Byte
    BY DEF ResponseOpcode, Byte
  <1>2. /\ VERSION \in Byte /\ HEADER_LEN \in Byte
        /\ 0 \in Word /\ CAPABILITIES_LEN \in Word /\ st \in Word
    BY DEF VERSION, HEADER_LEN, CAPABILITIES_LEN, Byte, Word
  <1>3. {"RESPONSE"} \in SUBSET FlagBits /\ {"RESPONSE", "ERROR"} \in SUBSET FlagBits
    BY DEF FlagBits
  <1>4. "caps" \in Bodies /\ "zero" \in Bodies
    BY DEF Bodies
  <1> QED
    BY <1>1, <1>2, <1>3, <1>4 DEF BuildResponse, ResponseFlags, Header, Frame

\* The endpoint's answer to any frame is a frame, echoes its sequence, and
\* says OK only if the frame was accepted.
LEMMA ReplyFacts ==
  ASSUME NEW f \in Frame
  PROVE  /\ Reply(f) \in Frame
         /\ Reply(f).sequence = f.sequence
         /\ Reply(f).status = STATUS_OK => f.crcOk
  <1> DEFINE st == StatusFromValidation(ValidateRequest(f, REQUEST_LEN))
  <1>1. /\ st \in 0 .. 9
        /\ st = STATUS_OK <=> ValidateRequest(f, REQUEST_LEN) = "OK"
    BY ValidateRequestType, StatusType
  <1>2. f.opcode \in Byte /\ f.sequence \in Word
    BY DEF Frame
  <1>3. Reply(f) = BuildResponse(f.opcode, f.sequence, st)
    BY DEF Reply
  <1>4. Reply(f) \in Frame
    BY <1>1, <1>2, <1>3, BuildResponseType
  <1>5. Reply(f).sequence = f.sequence /\ Reply(f).status = st
    BY <1>3 DEF BuildResponse, ResponseFlags, Header
  <1> QED
    BY <1>1, <1>4, <1>5, AcceptedRequest

\* A frame whose CRC does not fit earns neither OK nor UNKNOWN_OPCODE: both
\* are decided after the CRC.
LEMMA RefusedRequest ==
  ASSUME NEW f \in Frame, f.crcOk = FALSE
  PROVE  Reply(f).status \notin {StatusOf.OK, StatusOf.UNKNOWN_OPCODE}
  <1>1. ValidateRequest(f, REQUEST_LEN) \notin {"OK", "BAD_OPCODE"}
    BY DEF ValidateRequest
  <1>2. \A v \in Verdicts : StatusFromValidation(v) \in {0, 6} => v \in {"OK", "BAD_OPCODE"}
    BY DEF StatusFromValidation, StatusOf, Verdicts
  <1>3. StatusFromValidation(ValidateRequest(f, REQUEST_LEN)) \notin {0, 6}
    BY <1>1, <1>2, ValidateRequestType
  <1>4. Reply(f).status = StatusFromValidation(ValidateRequest(f, REQUEST_LEN))
    BY DEF Reply, BuildResponse, Header
  <1> QED
    BY <1>3, <1>4 DEF StatusOf

\* The status the endpoint gives a request.
Said(f) == StatusFromValidation(ValidateRequest(f, REQUEST_LEN))

\* What the fields of an answer are.
LEMMA ReplyFields ==
  ASSUME NEW f \in Frame
  PROVE  LET st == Said(f)
             r  == Reply(f)
         IN  /\ st \in 0 .. 9
             /\ st = STATUS_OK <=> ValidateRequest(f, REQUEST_LEN) = "OK"
             /\ r.magic = TRUE /\ r.version = VERSION /\ r.headerLen = HEADER_LEN
             /\ r.opcode = ResponseOpcode(f.opcode)
             /\ r.sequence = f.sequence
             /\ r.status = st
             /\ r.crcOk = TRUE
             /\ "RESPONSE" \in r.flags /\ "RESERVED" \notin r.flags
             /\ "ERROR" \in r.flags <=> st # STATUS_OK
             /\ st = STATUS_OK => /\ r.opcode = RSP_GET_CAPABILITIES
                                  /\ r.payloadLen = CAPABILITIES_LEN
                                  /\ r.body = "caps"
             /\ st # STATUS_OK => r.payloadLen = 0
  <1>1. /\ Said(f) \in 0 .. 9
        /\ Said(f) = STATUS_OK <=> ValidateRequest(f, REQUEST_LEN) = "OK"
    BY ValidateRequestType, StatusType DEF Said
  <1>2. Said(f) = STATUS_OK => f.opcode = OP_GET_CAPABILITIES
    BY <1>1, AcceptedRequest
  <1>3. Reply(f) = BuildResponse(f.opcode, f.sequence, Said(f))
    BY DEF Reply, Said
  <1>4. /\ Reply(f).flags = IF Said(f) = STATUS_OK THEN {"RESPONSE"}
                                                     ELSE {"RESPONSE", "ERROR"}
        /\ Reply(f).opcode = ResponseOpcode(f.opcode)
    BY <1>3 DEF BuildResponse, ResponseFlags, Header
  <1>5. /\ "RESPONSE" \in Reply(f).flags /\ "RESERVED" \notin Reply(f).flags
        /\ "ERROR" \in Reply(f).flags <=> Said(f) # STATUS_OK
    <2>1. CASE Said(f) = STATUS_OK
      BY <1>4, <2>1
    <2>2. CASE Said(f) # STATUS_OK
      BY <1>4, <2>2
    <2> QED
      BY <2>1, <2>2
  <1>6. Said(f) = STATUS_OK => Reply(f).opcode = RSP_GET_CAPABILITIES
    BY <1>2, <1>4 DEF ResponseOpcode, OP_GET_CAPABILITIES, RSP_GET_CAPABILITIES
  <1> QED
    BY <1>1, <1>2, <1>3, <1>5, <1>6 DEF BuildResponse, ResponseFlags, Header

\* An answer validates as one to the opcode and the sequence it was given for.
LEMMA ReplyValidates ==
  ASSUME NEW f \in Frame
  PROVE  ValidateResponse(Reply(f), RESPONSE_LEN, ResponseOpcode(f.opcode), f.sequence) = "OK"
  <1> DEFINE r  == Reply(f)
             op == ResponseOpcode(f.opcode)
  <1>1. /\ r.magic = TRUE /\ r.version = VERSION
        /\ r.headerLen = HEADER_LEN /\ r.crcOk = TRUE
        /\ r.sequence = f.sequence /\ r.opcode = op
        /\ r.status \in 0 .. 9
    BY ReplyFields
  <1>2. "RESPONSE" \in r.flags /\ "RESERVED" \notin r.flags
    BY ReplyFields
  <1>3. /\ ~(r.payloadLen > MAX_PAYLOAD)
        /\ ~(HEADER_LEN + r.payloadLen > RESPONSE_LEN)
    <2>1. r.payloadLen = CAPABILITIES_LEN \/ r.payloadLen = 0
      BY ReplyFields
    <2> QED
      BY <2>1 DEF CAPABILITIES_LEN, MAX_PAYLOAD, HEADER_LEN, RESPONSE_LEN
  <1>4. ~(r.status > StatusOf.BAD_FLAGS)
    BY <1>1 DEF StatusOf
  <1>5. ResponseShape(r, op) = "OK"
    <2>1. /\ r.status = STATUS_OK <=> "ERROR" \notin r.flags
          /\ r.status = STATUS_OK => r.payloadLen = CAPABILITIES_LEN
          /\ r.status # STATUS_OK => r.payloadLen = 0
      BY ReplyFields
    <2> QED
      BY <2>1 DEF ResponseShape
  <1> HIDE DEF r, op
  <1>6. ValidateResponse(r, RESPONSE_LEN, op, f.sequence) = "OK"
    BY <1>1, <1>2, <1>3, <1>4, <1>5 DEF ValidateResponse
  <1> QED
    BY <1>6 DEF r, op

\* When a test accepts the answer to a request: its own sequence, opcode and
\* status, and the capabilities where it asks for them.
LEMMA AcceptsReply ==
  ASSUME NEW f \in Frame, NEW t, t.caps => t.status = STATUS_OK
  PROVE  Accepts(t, Reply(f)) <=>
           /\ f.sequence = t.request.sequence
           /\ ResponseOpcode(f.opcode) = t.opcode
           /\ Said(f) = t.status
  <1>1. /\ Reply(f).sequence = f.sequence /\ Reply(f).status = Said(f)
        /\ Reply(f).opcode = ResponseOpcode(f.opcode)
    BY ReplyFields
  <1>2. ASSUME Accepts(t, Reply(f))
        PROVE  /\ Reply(f).sequence = t.request.sequence /\ Reply(f).opcode = t.opcode
               /\ Reply(f).status = t.status
    BY <1>2 DEF Accepts, ValidateResponse
  <1>3. ASSUME f.sequence = t.request.sequence, ResponseOpcode(f.opcode) = t.opcode,
               Said(f) = t.status
        PROVE  Accepts(t, Reply(f))
    <2>1. ValidateResponse(Reply(f), RESPONSE_LEN, t.opcode, t.request.sequence) = "OK"
      BY <1>3, ReplyValidates
    <2>2. t.caps => DecodesCapabilities(Reply(f)) /\ Reply(f).body = "caps"
      BY <1>1, <1>3, ReplyFields DEF DecodesCapabilities
    <2> QED
      BY <1>1, <1>3, <2>1, <2>2 DEF Accepts
  <1> QED
    BY <1>1, <1>2, <1>3

\* The requests of the suite are frames with the sequence they were made for, and
\* their tests expect what the endpoint says of them.
LEMMA TestFacts ==
  ASSUME NEW s \in Word, NEW t \in TestsWith(s)
  PROVE  /\ t.request \in Frame /\ t.request.sequence = s
         /\ t.status = Said(t.request)
         /\ t.opcode = ResponseOpcode(t.request.opcode)
         /\ t.caps => t.status = STATUS_OK
  <1> DEFINE good == BuildRequest(s)
  <1>1. good = [ magic |-> TRUE, version |-> VERSION, headerLen |-> HEADER_LEN,
                  opcode |-> OP_GET_CAPABILITIES, flags |-> {}, sequence |-> s,
                  status |-> 0, payloadLen |-> 0, crcOk |-> TRUE, body |-> "zero" ]
    BY DEF BuildRequest, Header
  <1>2. good \in Frame /\ good.sequence = s
    BY <1>1 DEF Frame, Byte, Word, FlagBits, Bodies, VERSION, HEADER_LEN, OP_GET_CAPABILITIES
  <1>3. MAX_PAYLOAD + 1 \in Word
    BY DEF MAX_PAYLOAD, Word
  <1> HIDE DEF good
  <1>4. CASE t = ValidExchange(s)
    <2>1. /\ t.request = good
          /\ t.status = StatusOf.OK /\ t.opcode = 129 /\ t.caps = TRUE
      BY <1>4 DEF ValidExchange, Test, good, RSP_GET_CAPABILITIES
    <2>2. t.request \in Frame /\ t.request.sequence = s
      BY <1>2, <2>1
    <2>3. /\ ValidateRequest(t.request, REQUEST_LEN) = "OK"
          /\ ResponseOpcode(t.request.opcode) = 129
      BY <1>1, <2>1
      DEF ValidateRequest, WrongPayloadLength, VERSION, HEADER_LEN, REQUEST_LEN, MAX_PAYLOAD,
          OP_GET_CAPABILITIES, ResponseOpcode
    <2> QED
      BY <2>1, <2>2, <2>3 DEF Said, StatusFromValidation, StatusOf, STATUS_OK
  <1>5. CASE t = UnknownVersion(s)
    <2>1. /\ t.request = [good EXCEPT !.version = 2]
          /\ t.status = StatusOf.BAD_VERSION /\ t.opcode = 129 /\ t.caps = FALSE
      BY <1>5 DEF UnknownVersion, Test, good, RSP_GET_CAPABILITIES
    <2>2. t.request \in Frame /\ t.request.sequence = s
      BY <1>2, <2>1 DEF Frame, Byte
    <2>3. /\ ValidateRequest(t.request, REQUEST_LEN) = "BAD_VERSION"
          /\ ResponseOpcode(t.request.opcode) = 129
      BY <1>1, <2>1
      DEF ValidateRequest, WrongPayloadLength, VERSION, HEADER_LEN, REQUEST_LEN, MAX_PAYLOAD,
          OP_GET_CAPABILITIES, ResponseOpcode
    <2> QED
      BY <2>1, <2>2, <2>3 DEF Said, StatusFromValidation, StatusOf, STATUS_OK
  <1>6. CASE t = ReservedFlags(s)
    <2>1. /\ t.request = [good EXCEPT !.flags = {"RESERVED"}]
          /\ t.status = StatusOf.BAD_FLAGS /\ t.opcode = 129 /\ t.caps = FALSE
      BY <1>6 DEF ReservedFlags, Test, good, RSP_GET_CAPABILITIES
    <2>2. t.request \in Frame /\ t.request.sequence = s
      BY <1>2, <2>1 DEF Frame, FlagBits
    <2>3. /\ ValidateRequest(t.request, REQUEST_LEN) = "BAD_FLAGS"
          /\ ResponseOpcode(t.request.opcode) = 129
      BY <1>1, <2>1
      DEF ValidateRequest, WrongPayloadLength, VERSION, HEADER_LEN, REQUEST_LEN, MAX_PAYLOAD,
          OP_GET_CAPABILITIES, ResponseOpcode
    <2> QED
      BY <2>1, <2>2, <2>3 DEF Said, StatusFromValidation, StatusOf, STATUS_OK
  <1>7. CASE t = OversizedPayload(s)
    <2>1. /\ t.request = [good EXCEPT !.payloadLen = MAX_PAYLOAD + 1]
          /\ t.status = StatusOf.BAD_LENGTH /\ t.opcode = 129 /\ t.caps = FALSE
      BY <1>7 DEF OversizedPayload, Test, good, RSP_GET_CAPABILITIES
    <2>2. t.request \in Frame /\ t.request.sequence = s
      BY <1>2, <1>3, <2>1 DEF Frame
    <2>3. /\ ValidateRequest(t.request, REQUEST_LEN) = "BAD_PAYLOAD_LENGTH"
          /\ ResponseOpcode(t.request.opcode) = 129
      BY <1>1, <2>1
      DEF ValidateRequest, WrongPayloadLength, VERSION, HEADER_LEN, REQUEST_LEN, MAX_PAYLOAD,
          OP_GET_CAPABILITIES, ResponseOpcode
    <2> QED
      BY <2>1, <2>2, <2>3 DEF Said, StatusFromValidation, StatusOf, STATUS_OK
  <1>8. CASE t = BadCrc(s)
    <2>1. /\ t.request = [good EXCEPT !.crcOk = FALSE]
          /\ t.status = StatusOf.BAD_CRC /\ t.opcode = 129 /\ t.caps = FALSE
      BY <1>8 DEF BadCrc, Test, good, RSP_GET_CAPABILITIES
    <2>2. t.request \in Frame /\ t.request.sequence = s
      BY <1>2, <2>1 DEF Frame
    <2>3. /\ ValidateRequest(t.request, REQUEST_LEN) = "BAD_CRC"
          /\ ResponseOpcode(t.request.opcode) = 129
      BY <1>1, <2>1
      DEF ValidateRequest, WrongPayloadLength, VERSION, HEADER_LEN, REQUEST_LEN, MAX_PAYLOAD,
          OP_GET_CAPABILITIES, ResponseOpcode
    <2> QED
      BY <2>1, <2>2, <2>3 DEF Said, StatusFromValidation, StatusOf, STATUS_OK
  <1>9. CASE t = UnknownOpcode(s)
    <2>1. /\ t.request = [good EXCEPT !.opcode = 127]
          /\ t.status = StatusOf.UNKNOWN_OPCODE /\ t.opcode = 255 /\ t.caps = FALSE
      BY <1>9 DEF UnknownOpcode, Test, good, RSP_GET_CAPABILITIES
    <2>2. t.request \in Frame /\ t.request.sequence = s
      BY <1>2, <2>1 DEF Frame, Byte
    <2>3. /\ ValidateRequest(t.request, REQUEST_LEN) = "BAD_OPCODE"
          /\ ResponseOpcode(t.request.opcode) = 255
      BY <1>1, <2>1
      DEF ValidateRequest, WrongPayloadLength, VERSION, HEADER_LEN, REQUEST_LEN, MAX_PAYLOAD,
          OP_GET_CAPABILITIES, ResponseOpcode
    <2> QED
      BY <2>1, <2>2, <2>3 DEF Said, StatusFromValidation, StatusOf, STATUS_OK
  <1> QED
    BY <1>4, <1>5, <1>6, <1>7, <1>8, <1>9 DEF TestsWith

\* Damage on the wire leaves a frame, and one whose CRC no longer matches.
LEMMA GarbledFacts ==
  ASSUME NEW f \in Frame, NEW g \in Garbled(f)
  PROVE  g \in Frame /\ g.crcOk = FALSE
  <1> DEFINE h == [f EXCEPT !.crcOk = FALSE]
  <1>1. h \in Frame /\ h.crcOk = FALSE
    BY DEF Frame
  <1>2. MAX_PAYLOAD + 1 \in Word /\ 2 \in Byte /\ 127 \in Byte
    BY DEF MAX_PAYLOAD, Word, Byte
  <1>3. h.flags \cup {"RESERVED"} \in SUBSET FlagBits
    BY <1>1 DEF Frame, FlagBits
  <1>4. \/ g = h
        \/ g = [h EXCEPT !.magic = FALSE]
        \/ g = [h EXCEPT !.version = 2]
        \/ g = [h EXCEPT !.flags = h.flags \cup {"RESERVED"}]
        \/ g = [h EXCEPT !.payloadLen = MAX_PAYLOAD + 1]
        \/ g = [h EXCEPT !.opcode = 127]
        \/ \E s \in Word : g = [h EXCEPT !.sequence = s]
    BY DEF Garbled
  <1> HIDE DEF h
  <1> QED
    BY <1>1, <1>2, <1>3, <1>4 DEF Frame

\* An accepted answer has the magic and a matching CRC, and carries the
\* sequence and the status that its test expects.
LEMMA AcceptedAnswer ==
  ASSUME NEW t, NEW f \in Frame, Accepts(t, f)
  PROVE  /\ f.magic /\ f.crcOk
         /\ f.sequence = t.request.sequence
         /\ f.status = t.status
  BY DEF Accepts, ValidateResponse
=============================================================================
