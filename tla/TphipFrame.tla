----------------------------- MODULE TphipFrame -----------------------------
(***************************************************************************)
(* The TPHIP frame codec (firmware/common/tphip/tphip.c): how a request is *)
(* built, validated and answered, and how an answer is validated.          *)
(*                                                                         *)
(* A frame is a record of its header fields.  The magic is a Boolean       *)
(* (has_magic), the eight flag bits are a set of names (the six reserved   *)
(* bits behave alike), crcOk says whether the stored CRC is the CRC of the *)
(* logical frame, and body is what the 16 payload bytes hold.  The bytes   *)
(* and the polynomial are abstracted away: no decision of the codec        *)
(* depends on more than this.                                              *)
(*                                                                         *)
(* Name_Something is a wrong version of Name: a plausible slip in the code *)
(* that the properties must notice.  Nothing else refers to it.            *)
(***************************************************************************)
EXTENDS Naturals

Byte == 0 .. 255
Word == 0 .. 65535

VERSION == 1
HEADER_LEN == 16
REQUEST_LEN == 16
RESPONSE_LEN == 32
CAPABILITIES_LEN == 16
MAX_PAYLOAD == 64

OP_GET_CAPABILITIES == 1
RSP_GET_CAPABILITIES == 129

StatusOf == [ OK |-> 0, BUSY |-> 1, BAD_MAGIC |-> 2, BAD_VERSION |-> 3,
              BAD_LENGTH |-> 4, BAD_CRC |-> 5, UNKNOWN_OPCODE |-> 6,
              NOT_READY |-> 7, INTERNAL_ERROR |-> 8, BAD_FLAGS |-> 9 ]

STATUS_OK == 0

FlagBits == {"RESPONSE", "ERROR", "RESERVED"}
Bodies   == {"caps", "zero", "ones"}

Frame == [ magic     : BOOLEAN,
           version   : Byte,
           headerLen : Byte,
           opcode    : Byte,
           flags     : SUBSET FlagBits,
           sequence  : Word,
           status    : Word,
           payloadLen: Word,
           crcOk     : BOOLEAN,
           body      : Bodies ]

-----------------------------------------------------------------------------
(* Building.                                                               *)

\* write_common_header followed by tphip_refresh_crc
Header(opcode, flags, sequence, status, payloadLen, body) ==
  [ magic |-> TRUE, version |-> VERSION, headerLen |-> HEADER_LEN,
    opcode |-> opcode, flags |-> flags, sequence |-> sequence,
    status |-> status, payloadLen |-> payloadLen, crcOk |-> TRUE,
    body |-> body ]

BuildRequest(sequence) ==
  Header(OP_GET_CAPABILITIES, {}, sequence, 0, 0, "zero")

\* request_opcode | 0x80 on a byte
ResponseOpcode(opcode) == IF opcode >= 128 THEN opcode ELSE opcode + 128

ResponseFlags_NoErrorBit(status) == {"RESPONSE"}
ResponseFlags_BareOk(status) ==
  IF status = STATUS_OK THEN {} ELSE {"RESPONSE", "ERROR"}
ResponseFlags(status) ==
  IF status = STATUS_OK THEN {"RESPONSE"} ELSE {"RESPONSE", "ERROR"}

\* The endpoint always passes its default capabilities, so the C code's
\* capabilities != NULL holds.
BuildResponse(opcode, sequence, status) ==
  LET carriesCaps == status = STATUS_OK /\ opcode = OP_GET_CAPABILITIES
  IN  Header(ResponseOpcode(opcode),
             ResponseFlags(status),
             sequence,
             status,
             IF carriesCaps THEN CAPABILITIES_LEN ELSE 0,
             IF carriesCaps THEN "caps" ELSE "zero")

\* What a buffer holds after memset 0, and what the wire gives when the
\* endpoint has nothing to send (its 0xff default and overrun characters).
\* The stored CRC of neither is the CRC of its header.
ZeroFrame ==
  [ magic |-> FALSE, version |-> 0, headerLen |-> 0, opcode |-> 0,
    flags |-> {}, sequence |-> 0, status |-> 0, payloadLen |-> 0,
    crcOk |-> FALSE, body |-> "zero" ]

IdleFrame ==
  [ magic |-> FALSE, version |-> 255, headerLen |-> 255, opcode |-> 255,
    flags |-> FlagBits, sequence |-> 65535, status |-> 65535,
    payloadLen |-> 65535, crcOk |-> FALSE, body |-> "ones" ]

-----------------------------------------------------------------------------
(* Validation, in the order of the C early returns.                        *)

WrongPayloadLength_MaxOnly(f) == f.payloadLen > MAX_PAYLOAD
WrongPayloadLength(f) == f.payloadLen > MAX_PAYLOAD \/ f.payloadLen # 0

ValidateRequest_OpcodeBeforeCrc(f, len) ==
  IF len # REQUEST_LEN              THEN "BAD_PHYSICAL_LENGTH"
  ELSE IF ~f.magic                  THEN "BAD_MAGIC"
  ELSE IF f.version # VERSION       THEN "BAD_VERSION"
  ELSE IF f.headerLen # HEADER_LEN  THEN "BAD_HEADER_LENGTH"
  ELSE IF f.flags # {}              THEN "BAD_FLAGS"
  ELSE IF f.status # 0              THEN "BAD_RESERVED"
  ELSE IF WrongPayloadLength(f)     THEN "BAD_PAYLOAD_LENGTH"
  ELSE IF f.opcode # OP_GET_CAPABILITIES THEN "BAD_OPCODE"
  ELSE IF ~f.crcOk                  THEN "BAD_CRC"
  ELSE "OK"
ValidateRequest(f, len) ==
  IF len # REQUEST_LEN              THEN "BAD_PHYSICAL_LENGTH"
  ELSE IF ~f.magic                  THEN "BAD_MAGIC"
  ELSE IF f.version # VERSION       THEN "BAD_VERSION"
  ELSE IF f.headerLen # HEADER_LEN  THEN "BAD_HEADER_LENGTH"
  ELSE IF f.flags # {}              THEN "BAD_FLAGS"
  ELSE IF f.status # 0              THEN "BAD_RESERVED"
  ELSE IF WrongPayloadLength(f)     THEN "BAD_PAYLOAD_LENGTH"
  ELSE IF ~f.crcOk                  THEN "BAD_CRC"
  ELSE IF f.opcode # OP_GET_CAPABILITIES THEN "BAD_OPCODE"
  ELSE "OK"

StatusFromValidation(result) ==
  CASE result = "OK"          -> StatusOf.OK
    [] result = "BAD_MAGIC"   -> StatusOf.BAD_MAGIC
    [] result = "BAD_VERSION" -> StatusOf.BAD_VERSION
    [] result \in {"BAD_HEADER_LENGTH", "BAD_PHYSICAL_LENGTH",
                   "BAD_PAYLOAD_LENGTH"} -> StatusOf.BAD_LENGTH
    [] result \in {"BAD_FLAGS", "BAD_RESERVED"} -> StatusOf.BAD_FLAGS
    [] result = "BAD_CRC"     -> StatusOf.BAD_CRC
    [] result = "BAD_OPCODE"  -> StatusOf.UNKNOWN_OPCODE
    [] OTHER                  -> StatusOf.INTERNAL_ERROR

ResponseShape(f, opcode) ==
  IF f.status = STATUS_OK
  THEN IF "ERROR" \in f.flags THEN "BAD_FLAGS"
       ELSE IF /\ opcode = RSP_GET_CAPABILITIES
               /\ f.payloadLen # CAPABILITIES_LEN THEN "BAD_PAYLOAD_LENGTH"
       ELSE "OK"
  ELSE IF "ERROR" \notin f.flags THEN "BAD_FLAGS"
       ELSE IF f.payloadLen # 0  THEN "BAD_PAYLOAD_LENGTH"
       ELSE "OK"

ValidateResponse(f, len, opcode, sequence) ==
  IF len # RESPONSE_LEN             THEN "BAD_PHYSICAL_LENGTH"
  ELSE IF ~f.magic                  THEN "BAD_MAGIC"
  ELSE IF f.version # VERSION       THEN "BAD_VERSION"
  ELSE IF f.headerLen # HEADER_LEN  THEN "BAD_HEADER_LENGTH"
  ELSE IF \/ "RESPONSE" \notin f.flags
          \/ "RESERVED" \in f.flags THEN "BAD_FLAGS"
  ELSE IF \/ f.payloadLen > MAX_PAYLOAD
          \/ HEADER_LEN + f.payloadLen > RESPONSE_LEN
                                    THEN "BAD_PAYLOAD_LENGTH"
  ELSE IF ~f.crcOk                  THEN "BAD_CRC"
  ELSE IF f.sequence # sequence     THEN "BAD_SEQUENCE"
  ELSE IF f.opcode # opcode         THEN "BAD_OPCODE"
  ELSE IF f.status > StatusOf.BAD_FLAGS THEN "BAD_STATUS"
  ELSE ResponseShape(f, opcode)

DecodesCapabilities(f) ==
  /\ f.status = STATUS_OK
  /\ f.opcode = RSP_GET_CAPABILITIES
  /\ f.payloadLen = CAPABILITIES_LEN

-----------------------------------------------------------------------------
(* What the two programs make of a frame.                                  *)

\* The endpoint's main loop: validate, map to a status, echo the opcode and
\* the sequence of whatever was received.
Reply(f) ==
  BuildResponse(f.opcode, f.sequence,
                StatusFromValidation(ValidateRequest(f, REQUEST_LEN)))

\* The probe's tests: the request each sends and the answer it expects.
Test(request, status, opcode, caps) ==
  [ request |-> request, status |-> status, opcode |-> opcode, caps |-> caps ]

ValidExchange(s) ==
  Test(BuildRequest(s), StatusOf.OK, RSP_GET_CAPABILITIES, TRUE)
UnknownVersion(s) ==
  Test([BuildRequest(s) EXCEPT !.version = 2],
       StatusOf.BAD_VERSION, RSP_GET_CAPABILITIES, FALSE)
ReservedFlags(s) ==
  Test([BuildRequest(s) EXCEPT !.flags = {"RESERVED"}],
       StatusOf.BAD_FLAGS, RSP_GET_CAPABILITIES, FALSE)
OversizedPayload(s) ==
  Test([BuildRequest(s) EXCEPT !.payloadLen = MAX_PAYLOAD + 1],
       StatusOf.BAD_LENGTH, RSP_GET_CAPABILITIES, FALSE)
BadCrc(s) ==
  Test([BuildRequest(s) EXCEPT !.crcOk = FALSE],
       StatusOf.BAD_CRC, RSP_GET_CAPABILITIES, FALSE)
UnknownOpcode(s) ==
  Test([BuildRequest(s) EXCEPT !.opcode = 127],
       StatusOf.UNKNOWN_OPCODE, 255, FALSE)

TestsWith(s) ==
  {ValidExchange(s), UnknownVersion(s), ReservedFlags(s),
   OversizedPayload(s), BadCrc(s), UnknownOpcode(s)}

\* exchange_request's acceptance of the 32 bytes it clocked
Accepts_AnyStatus(t, f) ==
  ValidateResponse(f, RESPONSE_LEN, t.opcode, t.request.sequence) = "OK"
Accepts_AnySequence(t, f) ==
  /\ ValidateResponse(f, RESPONSE_LEN, t.opcode, f.sequence) = "OK"
  /\ f.status = t.status
  /\ t.caps => DecodesCapabilities(f) /\ f.body = "caps"
Accepts(t, f) ==
  /\ ValidateResponse(f, RESPONSE_LEN, t.opcode, t.request.sequence) = "OK"
  /\ f.status = t.status
  /\ t.caps => DecodesCapabilities(f) /\ f.body = "caps"

\* parser_sequence_mismatch_self_test
SelfTestPasses ==
  ValidateResponse(BuildResponse(OP_GET_CAPABILITIES, 2, STATUS_OK),
                   RESPONSE_LEN, RSP_GET_CAPABILITIES, 1) = "BAD_SEQUENCE"

-----------------------------------------------------------------------------
(* A frame damaged on the wire: the CRC no longer matches, and at most one *)
(* of the fields the codec looks at has changed.                           *)
Garbled(f) ==
  LET g == [f EXCEPT !.crcOk = FALSE]
  IN  {g,
       [g EXCEPT !.magic = FALSE],
       [g EXCEPT !.version = 2],
       [g EXCEPT !.flags = @ \cup {"RESERVED"}],
       [g EXCEPT !.payloadLen = MAX_PAYLOAD + 1],
       [g EXCEPT !.opcode = 127]}
        \cup {[g EXCEPT !.sequence = s] : s \in {f.sequence + 1} \cap Word}
=============================================================================
