\* Two transfers that main starts and one that a callback may start.
CONSTANTS
  c1 = c1
  c2 = c2
  c3 = c3
  fd1 = fd1
  fd2 = fd2
  NULL = NULL
  Ctxs = {c1, c2, c3}
  Fds = {fd1, fd2}
  FdOf <- MCFdOf
  Conditions <- MCConditions
  MaxEvents = 2
  Backends = {"epoll"}
  First = {c1, c2}
SPECIFICATION FairCurlSpec
INVARIANTS WatchedAsAsked TimerAsAsked
PROPERTIES AllToldBack
