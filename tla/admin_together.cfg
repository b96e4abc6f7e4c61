SPECIFICATION Spec
CONSTANTS
  Parts = {"history", "worktrees", "models", "config", "projects", "form", "setup"}
  Transcript = {f1, f2}
  MaxScans = 2
  MaxRenames = 1
  WtChat = {c1, c2}
  HomeChat = c1
  MaxAdds = 1
  MaxRemovals = 1
  Project = {jA, jB}
  HomeProject = jA
  Provider = {p1, p2}
  KeyName = {k1, k2}
  FirstKey = k1
  MaxSteps = 4
  ListedModel = {m1, m2}
  RuntimeBase = TRUE
  MaxSaves = 5
  Checkout = dA
  LinkedCheckout = dW
  OtherDir = dB
  NoDir = noDir
  Scan = {s1}
  MaxKept = 2
  MaxEvents = 4
  FormProvider = {pA, pB}
  FirstProvider = pA
  FirstListed = m1
  MaxFormSteps = 7
  SetupTab = {t1, t2}
  ProbeTTL = 2
  ConfigTTL = 1
  MaxSetupSteps = 4
INVARIANTS HistoryKept   
PROPERTIES SetupTells
CHECK_DEADLOCK FALSE
