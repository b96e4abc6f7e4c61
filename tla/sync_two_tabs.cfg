CONSTANTS
  Tab = {t1,t2}
  Conv = {c1,c2}
  c1 = c1
  c2 = c2
  c3 = c3
  m1 = m1
  m2 = m2
  FirstConv = c1
  NoConv = NoConv
  NewChat = NewChat
  Msg = {m1}
  MaxLen = 0
  MaxOpen = 2
  Clicks = {"open","switch"}
  Outcomes = {"booted"}
  Events = 0
  Clicking = 2
  Breaks = 0
  Restarts = 0
  Budget <- MCBudget
  MaxDrops = 0
SPECIFICATION Spec
INVARIANTS ClicksAnswered
CHECK_DEADLOCK FALSE
