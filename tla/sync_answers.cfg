CONSTANTS
  Tab = {t1}
  Conv = {c1,c2}
  c1 = c1
  c2 = c2
  c3 = c3
  m1 = m1
  m2 = m2
  FirstConv = c1
  NoConv = NoConv
  NewChat = NewChat
  Msg = {m1, m2}
  MaxLen = 1
  MaxOpen = 2
  Clicks = {"switch","open","wait"}
  Outcomes = {"booted","failed"}
  Events = 1
  Clicking = 3
  Breaks = 0
  Restarts = 0
  Budget <- MCBudget
  MaxDrops = 0
SPECIFICATION FairSpec
PROPERTIES Converges
CHECK_DEADLOCK FALSE
