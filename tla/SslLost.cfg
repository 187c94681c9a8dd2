\* A peer that sends a request without waiting: it may come with the last
\* flight of the handshake.
CONSTANTS
  Sides = {"server"}
  Flights <- MCFlights
  RecvMax = 3
  MaxRecords = 2
  PeerWaits = FALSE
  FailsAtOnce = {}
SPECIFICATION FairSpec
CHECK_DEADLOCK FALSE
INVARIANTS InOrder
