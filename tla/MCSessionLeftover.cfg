\* A value that cannot be decoded, in the middle of a response.
CONSTANTS
  NumCalls = 2
  MaxRequest = 1
  SegmentLen = 1
  MessageLen = 2
  MaxMessages = 2
  MaxResends = 0
  MaxInterrupts = 0
  MaxRounds = 0
  MaxBreaks = 0
  MidMessageBreak = FALSE
  DecodeFailure = TRUE
  ReadTimeout = FALSE
  LinkLoss = FALSE
SPECIFICATION Spec
INVARIANTS Paired
