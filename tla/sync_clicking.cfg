CONSTANTS
  Tab = {t1}
  Conv = {c1,c2,c3}
  c1 = c1
  c2 = c2
  c3 = c3
  m1 = m1
  m2 = m2
  FirstConv = c1
  NoConv = NoConv
  NewChat = NewChat
  Msg = {m1}
  MaxLen = 1
  MaxOpen = 2
  Clicks = {"open","switch","new","prompt","wait"}
  Outcomes = {"booted","failed","refused"}
  Events = 1
  Clicking = 2
  Breaks = 0
  Restarts = 0
  Budget <- MCBudget
  MaxDrops = 1
SPECIFICATION Spec
SYMMETRY ConvSymmetry
INVARIANTS TypeOK ShownWasPublished
PROPERTIES ImplementsBoard
CHECK_DEADLOCK FALSE
