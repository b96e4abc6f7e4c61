CONSTANTS
  Socket = {s1, s2}
  Browser = client
  Systemd = TRUE
  MaxBreaks = 1
  MaxFailures = 1
  MaxStops = 1
  MaxToggles = 2
  MaxMessages = 2
  Pid = {1, 2, 3}
  NoPid = 0
  MaxWinCommands = 4
  MaxCrashes = 2
  Front = {f1, f2}
  Service = svc
  Nobody = nobody
  Port = {p1, p2}
  UsualPort = p1
  MaxUnixCommands = 3
  MaxUnixCrashes = 1
  TreeTab = {t1}
  MaxTreeEvents = 2
  Repo = {rA, rB}
  HomeRepo = rA
  Tracked = {g1, g2}
  Untracked = {}
  MaxScmEvents = 2
SPECIFICATION FairSpec
PROPERTIES SocketsServed ServiceManaged 
CHECK_DEADLOCK FALSE
