----------------------------- MODULE MCHandshake -----------------------------
EXTENDS Handshake

\* An old server, an equal one and a newer one, with the capabilities apart.
MCServerCaps ==
  {[eos |-> FALSE, fsap |-> FALSE, big |-> FALSE, ttc |-> 6],
   [eos |-> TRUE, fsap |-> FALSE, big |-> FALSE, ttc |-> 11],
   [eos |-> FALSE, fsap |-> TRUE, big |-> TRUE, ttc |-> 12]}

=============================================================================
