---------------------------- MODULE MCTphipCodec ----------------------------
(* Frames around every boundary the codec looks at.                        *)
EXTENDS TphipCodec

BoundaryFrames ==
  [ magic : BOOLEAN, version : {1, 2}, headerLen : {15, 16},
    opcode : {1, 127, 129, 255}, flags : SUBSET FlagBits, sequence : {0, 1, 2},
    status : {0, 9, 10}, payloadLen : {0, 16, 65},
    crcOk : BOOLEAN, body : {"caps", "zero"} ]
    \cup {ZeroFrame, IdleFrame}

TestedSequences == {1, 2}
=============================================================================
