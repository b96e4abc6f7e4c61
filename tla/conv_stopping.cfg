CONSTANTS
  MaxConvs = 2
  MaxOpen = 2
  p = p
  q = q
  h = h
  Cwd = {p, q}
  StartCwd = q
  History = {h}
  HistoryCwd <- MCHistoryCwd
  Slot = {s1}
  Commands <- Stopping
SPECIFICATION FairSpec
PROPERTIES HungToolEnds GateOpens BackgroundKept
