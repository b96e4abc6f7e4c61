CONSTANTS
  Terminal = {u1, b1}
  BashTerminal = {b1}
  MaxLive = 1
  MaxHistory = 1
  MaxSpawns = 3
  MaxRequests = 1
  BashCall = {c1, c2, c3}
  WaitCall = {w1}
  MaxShells = 2
  CommandsExit = FALSE
  MaxPrinted = 3
  MaxOutput = 2
  MaxViews = 2
  SettingsTab = {t1, t2}
  Mine = t1
  SettingsChat = {x, y}
  FirstOpen = x
  MaxSets = 3
  Project = {pA, pB}
  HomeProject = pA
  File = {f1}
  MaxPreviewSteps = 4
  Reader = {r1, r2}
  Account = {a1, a2}
  MaxEntries = 1
  MaxReads = 3
  MaxSubEvents = 3
  Page = {p1, p2}
  Event = {e1}
  LedgerSize = 1
  MaxAlertSteps = 3
  InputBox = {i1}
  HistoryMax = 2
  RecallKeep = 2
  MaxComposed = 3
  WhileBrowsing = FALSE
  HistoryShrinks = TRUE
  BeforeRender = FALSE
  MaxPrompts = 2
  MaxCards = 2
  ClampJump = 4
  Reasserts = 1
  ImagesLoad = FALSE
  MaxHeight = 5
  MaxScrollSteps = 4
  MaxRows = 4
  Margin = 3
  Budget = 1
  KeepRecent = 3
  CollapseMin = 2
  Estimate = 1
  MaxTall = 2
  WheelReach = 1
  MaxWindowSteps = 6
  MaxTokens = 5
  MaxLines = 5
  DoubleBars = FALSE
  BareEscapes = FALSE
  Token = {k1, k2}
  Escaped = esc
  MaxAdmissions = 5
  Query = {"a", "ab"}
  MaxSearchSteps = 3
  MaxFindSteps = 4
  Chat = {ch1, ch2}
  Gone = g
  HomeChat = ch1
  MaxJumpSteps = 4
SPECIFICATION Spec
INVARIANTS TerminalsKept  SettingsSurvive PanelsTellTruth  TokenAdmits
PROPERTIES NotificationsLead ReaderIsLeftAlone SearchesAnswer
CHECK_DEADLOCK FALSE
