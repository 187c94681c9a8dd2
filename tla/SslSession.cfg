\* A client and a server whose peer waits for its answers; the calls of the
\* server may fail at once.
CONSTANTS
  Sides = {"client", "server"}
  Flights <- MCFlights
  RecvMax = 3
  MaxRecords = 3
  PeerWaits = TRUE
  FailsAtOnce = {"server"}
SPECIFICATION FairSpec
\* The session ends, and so may the peer.
CHECK_DEADLOCK FALSE
INVARIANTS InOrder HeldByOneCall
PROPERTIES AllHandled HandshakeTold SessionEnds
