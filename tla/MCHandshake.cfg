CONSTANTS
  ServerCaps <- MCServerCaps
  ClientTtc = 11
  MaxRenegotiations = 1
SPECIFICATION FairSpec
INVARIANTS TypeOK TakesTurns ReadsOwnResponse FormatsAgree AcceptedMeansPlain OpenedMeansAuthenticated
PROPERTIES HandshakeEnds
