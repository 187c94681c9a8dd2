CONSTANTS
  Ctxs = {s1, s2}
  Fds = {s1, s2}
  FdOf <- MCFdOf
  Conditions <- MCConditions
  Backends = {"epoll", "kqueue"}
  MaxEvents = 2
  NULL = NULL
  Futures = {f1, f2}
  Ops <- MCOps
  s1 = s1
  s2 = s2
  Uses <- MCUses
  f1 = f1
  f2 = f2
  InLengths = {1}
  OutLengths = {2}
  MaxLen = 2
  OneAtATime = TRUE
  PartialSends = TRUE

SPECIFICATION FairSpec

INVARIANTS
  PendingIsHeld

PROPERTIES CalledOncePending PendingCompletes
