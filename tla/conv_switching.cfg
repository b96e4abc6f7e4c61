CONSTANTS
  MaxConvs = 3
  MaxOpen = 2
  p = p
  q = q
  h = h
  Cwd = {p, q}
  StartCwd = p
  History = {h}
  HistoryCwd <- MCHistoryCwd
  Slot = {s1}
  Commands <- Switching
SPECIFICATION Spec
INVARIANTS Reachable CapHeld WorkspaceFollows OneWriter
PROPERTIES BackgroundKept
