----------------------------- MODULE TphipCodec -----------------------------
(***************************************************************************)
(* The endpoint answering whatever 16 bytes it receives, one after         *)
(* another: the codec of TphipFrame under inputs the suite never sends.    *)
(* A behaviour receives a frame, answers it, and receives the next.        *)
(***************************************************************************)
EXTENDS TphipFrame

CONSTANTS
  Inputs,     \* the frames that may arrive
  Sequences   \* the sequences whose tests the answers are held against

ASSUME InputsAssumption == Inputs \subseteq Frame /\ Sequences \subseteq Word

VARIABLES
  received,   \* request_rx
  reply,      \* response_tx
  answered    \* whether reply answers received

codecVars == <<received, reply, answered>>

CodecInit ==
  /\ received = ZeroFrame
  /\ reply = ZeroFrame
  /\ answered = FALSE

\* receive_request clears its buffer before it waits.
AwaitFrame ==
  /\ answered
  /\ received' = ZeroFrame
  /\ answered' = FALSE
  /\ UNCHANGED reply

\* One turn of the endpoint's loop up to tphip_build_response.
AnswerFrame ==
  /\ ~answered
  /\ received' \in Inputs
  /\ reply' = Reply(received')
  /\ answered' = TRUE

CodecNext == AwaitFrame \/ AnswerFrame

CodecSpec == CodecInit /\ [][CodecNext]_codecVars

\* The status the endpoint gives a frame.
Verdict(f) == StatusFromValidation(ValidateRequest(f, REQUEST_LEN))

Tested == UNION { TestsWith(s) : s \in Sequences }

-----------------------------------------------------------------------------

\* Whatever the endpoint is sent, its answer is a well-formed response to the
\* opcode and sequence it received: a peer that validates it by them learns
\* the status and never finds the answer malformed (tphip_build_response
\* against tphip_validate_response).
ReplyWellFormed ==
  answered => ValidateResponse(reply, RESPONSE_LEN,
                               ResponseOpcode(received.opcode),
                               received.sequence) = "OK"

\* Status OK, and with it the capabilities, is given for nothing but an
\* intact GET_CAPABILITIES request: the header that
\* tphip_build_get_capabilities_request makes for that sequence.
OkOnlyForIntactRequest ==
  (answered /\ reply.status = STATUS_OK)
    => received = Header(OP_GET_CAPABILITIES, {}, received.sequence, 0, 0,
                         received.body)

\* A frame is never good in both directions: an echoed or looped-back answer
\* is refused as a request, and a request is refused as an answer.
DirectionsDisjoint ==
  /\ answered => ValidateRequest(reply, REQUEST_LEN) = "BAD_FLAGS"
  /\ ValidateRequest(received, REQUEST_LEN) = "OK"
       => \A s \in Sequences : \A t \in TestsWith(s) : ~Accepts(t, received)

\* Every test of the suite tells its own fault from all others: its request
\* is answered so that it passes, and it passes on no frame whose sequence,
\* opcode or first fault is not the one the test is about.
TestsDiscriminate ==
  /\ \A t \in Tested : Accepts(t, Reply(t.request))
  /\ answered =>
       \A t \in Tested :
         Accepts(t, reply) <=>
           /\ received.sequence = t.request.sequence
           /\ ResponseOpcode(received.opcode) = t.opcode
           /\ Verdict(received) = Verdict(t.request)
=============================================================================
