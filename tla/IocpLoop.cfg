CONSTANTS
  f1 = f1
  f2 = f2
  work = work
  poll = poll
  file = file
  sock = sock
  Futures = {f1, f2}
  Sockets = {sock}
  Streams = {file}
  Randoms = {}
  Callbacks = {work, poll}
  PollResult = poll
  MaxLen = 1
  MaxOffset = 2
  MaxCount = 2
  RunKey = 9
  OneAtATime = TRUE
  NULL = NULL

SPECIFICATION FairSpec

INVARIANTS
  PendingIsHeld
  StreamIsContinuous
  PostsAreKept
  ResultsAreStill

PROPERTY AllServed
