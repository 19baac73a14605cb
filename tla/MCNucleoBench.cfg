\* Every probe against a CDK that brings up its DW3110, with restarts at any
\* stage, any stage failing and up to three corrupted reads per power-on.
SPECIFICATION BenchFairSpec
CONSTANTS
  Answers <- SomeAnswers
  Identities <- SomeIdentities
  Accepted <- MaskedMatches
  Zero = "zero"
  IdleAttempts = 2
  MaxCorrupted = 3
INVARIANTS ProbesTypeOK TransfersFramed VerdictGenuine
INVARIANTS BringupTypeOK IdentityGenuine TransfersMeetLiveChip SummaryExplains
PROPERTIES BringupEnds EveryVariantTried
