\* Integers of four bytes instead of eight, and big chunks of 300 bytes instead
\* of 32767; negative numbers of four digits, with a leading zero, have no marker, and
\* floats have 8 bits instead of 53.
CONSTANTS
  Digit <- MCDigit
  MaxDigits = 3
  Scale <- MCScale
  MarkerDigits = 4
  ExponentLimit = 64
  FullMantissa = 128
  WordBytes = 4
  SmallChunk = 64
  BigChunk = 300
  Exchanges <- MCExchanges
SPECIFICATION Spec
INVARIANTS TypeOK InStep RoundTrips OrderPreserved CanonicalBytes LogonVerified
CHECK_DEADLOCK FALSE
