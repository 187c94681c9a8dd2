CONSTANTS
  c1 = c1
  c2 = c2
  c3 = c3
  s1 = s1
  s2 = s2
  Ctxs = {c1, c2, c3}
  Fds = {s1, s2}
  FdOf <- MCFdOf
  Data = {d1, d2}
  AskedSets <- MCAskedSets
  Refusable = {s1}
  Brings <- MCBrings
  MaxEvents = 3
  KeepsData = TRUE
  NULL = NULL

SPECIFICATION Spec

INVARIANTS
  ObjectsAreKept
  SelectedWhereItStands
  NoLostWake

PROPERTY CalledAsAsked

SYMMETRY Symmetry
VIEW View
