\* An interrupt inside a message.
CONSTANTS
  NumCalls = 1
  MaxRequest = 1
  SegmentLen = 1
  MessageLen = 3
  MaxMessages = 2
  MaxResends = 0
  MaxInterrupts = 1
  MaxRounds = 1
  MaxBreaks = 1
  MidMessageBreak = TRUE
  DecodeFailure = FALSE
  ReadTimeout = FALSE
  LinkLoss = FALSE
SPECIFICATION Spec
INVARIANTS FieldIntact
