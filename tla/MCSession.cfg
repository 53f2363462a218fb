\* Every fault after which the connection stays in step: resends, interrupts
\* between messages (at most TrialLimit break markers), a lost link.  No read
\* timeout: every call must end by what the server does.
CONSTANTS
  NumCalls = 2
  MaxRequest = 3
  SegmentLen = 2
  MessageLen = 3
  MaxMessages = 2
  MaxResends = 1
  MaxInterrupts = 2
  MaxRounds = 1
  MaxBreaks = 3
  MidMessageBreak = FALSE
  DecodeFailure = FALSE
  ReadTimeout = FALSE
  LinkLoss = TRUE
SPECIFICATION FairSpec
INVARIANTS TypeOK Paired InSequence
PROPERTIES EveryCallEnds ImplementsFairCalls
