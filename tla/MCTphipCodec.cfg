SPECIFICATION CodecSpec
CONSTANTS
  Inputs <- BoundaryFrames
  Sequences <- TestedSequences
INVARIANTS ReplyWellFormed OkOnlyForIntactRequest DirectionsDisjoint TestsDiscriminate
