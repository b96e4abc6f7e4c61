CONSTANTS
  Chat = {c1, c2}
  FirstChat = c1
  Tab = {t1, t2}
  OneTab = {w1}
  MaxTurns = 3
  MaxQueue = 2
  MaxPrompts = 3
  Words = {a, b}
  Clicks = {k1, k2}
  MaxQuestions = 2
  MaxBreaks = 1
  MaxRestarts = 1
  MaxMessages = 2
  Call = {x1, x2}
  MaxSessions = 2
  MaxChanges = 2
  Bash = {b1, b2}
  Port = {p1, p2}
  MaxProcs = 2
  Worker = {1}
  MaxEvents = 1
  MaxPending = 2
  MaxDialogs = 2
  MaxUISteps = 3
  Task = {1, 2}
  MaxTodoSteps = 5
  FileCap = 4
  TotalCap = 6
  SkillSize = {3, 6}
  CharWidth = {1, 3}
  MaxSkills = 3
  MaxPromptSteps = 4
  SlashChat = {c1, c2, c3}
  MaxOpen = 2
  MaxVersions = 2
  MaxSlashSteps = 5
SPECIFICATION Spec
SYMMETRY TabSymmetry
INVARIANTS RunsReported FollowersServed OwnPrompt
PROPERTIES MessagesKept  StripFollowsRun
CHECK_DEADLOCK FALSE
