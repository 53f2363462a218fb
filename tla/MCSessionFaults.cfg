\* Also the faults that put the connection out of step: undecodable values,
\* interrupts inside a message or of an interrupted response, more break
\* markers than the client accepts.
CONSTANTS
  NumCalls = 3
  MaxRequest = 2
  SegmentLen = 1
  MessageLen = 2
  MaxMessages = 2
  MaxResends = 1
  MaxInterrupts = 2
  MaxRounds = 2
  MaxBreaks = 4
  MidMessageBreak = TRUE
  DecodeFailure = TRUE
  ReadTimeout = TRUE
  LinkLoss = TRUE
SPECIFICATION Spec
INVARIANTS WireInv RequestIntact ResetExpected
