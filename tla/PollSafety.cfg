CONSTANTS
  c1 = c1
  c2 = c2
  c3 = c3
  f1 = f1
  f2 = f2
  Ctxs = {c1, c2, c3}
  Fds = {f1, f2}
  FdOf <- MCFdOf
  Conditions <- MCConditions
  Backends = {"epoll"}
  MaxEvents = 2
  NULL = NULL
  AskedSets <- MCAskedSets
  TouchOthers = FALSE

SPECIFICATION UsersSpec

INVARIANT Agreed

PROPERTY CalledAsAsked
