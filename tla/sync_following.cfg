CONSTANTS
  Tab = {t1}
  Conv = {c1}
  c1 = c1
  c2 = c2
  c3 = c3
  m1 = m1
  m2 = m2
  FirstConv = c1
  NoConv = NoConv
  NewChat = NewChat
  Msg = {m1}
  MaxLen = 2
  MaxOpen = 2
  Clicks = {}
  Outcomes = {"booted"}
  Events = 1
  Clicking = 0
  Breaks = 1
  Restarts = 1
  Budget <- MCBudget
  MaxDrops = 1
SPECIFICATION FairSpec
PROPERTIES Converges
CHECK_DEADLOCK FALSE
