CONSTANTS
  a = a
  b = b
  Main = Main
  Clients = {a, b}
  OnWorker = {b}
  Rounds = 3
  Runners = {"pipe", "stream", "none"}
  PipeSize = 1
  StreamSize = 6
  Batch = 2
  StoresInOrder = TRUE

SPECIFICATION FairSpec

CHECK_DEADLOCK FALSE

INVARIANTS
  ResultIsThere
  OneThread

PROPERTY AllLeave
