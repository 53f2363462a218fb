CONSTANTS
  ServerCaps <- MCServerCaps
  ClientTtc = 11
  MaxRenegotiations = 1
SPECIFICATION Spec
INVARIANTS LayersAgree
