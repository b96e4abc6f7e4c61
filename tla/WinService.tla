----------------------------- MODULE WinService -----------------------------
(***************************************************************************)
(* The server as a service of Windows, as bin/pi-web-ui.mjs generates it:  *)
(* a PowerShell launcher per instance, which records its process id in a   *)
(* file and runs node in a loop; the desktop shortcut, whose launcher runs *)
(* node once when no service is installed; and the commands that install,  *)
(* start, stop, restart and remove the service by that file.               *)
(***************************************************************************)
EXTENDS Naturals, FiniteSets

CONSTANTS
  Pid,           \* process ids of launchers
  NoPid,
  MaxCommands,   \* bound: commands, clicks on the shortcut and logins
  MaxCrashes     \* bound: crashes of node

VARIABLES
  launcher,      \* pid -> what its launcher is
  node,          \* pid -> the node it started
  port,          \* the launcher whose node listens
  pidFile,       \* the process id the file holds
  runKey,        \* started at login
  files,         \* the scripts of the service exist
  cli,           \* the command that runs
  commands, crashes,
  stopped,       \* stop or uninstall was the last thing that was done
  unclear        \* launched twice, or a command read the file too early

winVars == <<launcher, node, port, pidFile, runKey, files, cli, commands, crashes, stopped,
             unclear>>

Alive(p) == p # NoPid /\ launcher[p] # "none"
Ours == {p \in Pid : launcher[p] # "none"}
Unrecorded == \E p \in Pid : launcher[p] \in {"checks", "starts"}
NoCommand == [is |-> "none", at |-> "idle"]

WinTypeOK ==
  /\ launcher \in [Pid -> {"none", "checks", "starts", "loops", "sleeps", "once"}]
  /\ node \in [Pid -> {"none", "boots", "up"}]
  /\ port \in Pid \cup {NoPid} /\ pidFile \in Pid \cup {NoPid}
  /\ {runKey, files, stopped, unclear} \subseteq BOOLEAN
  /\ cli \in [is : {"none", "stop", "restart", "uninstall"}, at : {"idle", "kill", "forget"}]
  /\ commands \in 0 .. MaxCommands /\ crashes \in 0 .. MaxCrashes

WinInit ==
  /\ launcher = [p \in Pid |-> "none"] /\ node = [p \in Pid |-> "none"]
  /\ port = NoPid /\ pidFile = NoPid /\ runKey = FALSE /\ files = FALSE
  /\ cli = NoCommand /\ commands = 0 /\ crashes = 0
  /\ stopped = FALSE /\ unclear = FALSE

CommandStep == commands < MaxCommands /\ commands' = commands + 1 /\ cli = NoCommand

-----------------------------------------------------------------------------
(* launchWinService: wscript starts the hidden launcher and returns.        *)
LaunchService(p) ==
  /\ launcher[p] = "none"
  /\ launcher' = [launcher EXCEPT ![p] = "starts"]
  /\ unclear' = (unclear \/ Ours # {})
  /\ stopped' = FALSE

MutRecordsFirstOnly(p) ==
  /\ launcher[p] = "starts"
  /\ launcher' = [launcher EXCEPT ![p] = "loops"]
  /\ node' = [node EXCEPT ![p] = "boots"]
  /\ pidFile' = IF pidFile = NoPid THEN p ELSE pidFile
  /\ UNCHANGED <<port, runKey, files, cli, commands, crashes, stopped, unclear>>
(* buildWinStartPs1: the process id is recorded, and the loop begins.       *)
ServiceRecords(p) ==
  /\ launcher[p] = "starts"
  /\ launcher' = [launcher EXCEPT ![p] = "loops"]
  /\ node' = [node EXCEPT ![p] = "boots"]
  /\ pidFile' = p
  /\ UNCHANGED <<port, runKey, files, cli, commands, crashes, stopped, unclear>>

(* node has ended: the loop sleeps ten seconds; the launcher of the shortcut *)
(* removes the file and ends.                                               *)
AfterNode(p) ==
  IF launcher[p] = "loops"
  THEN launcher' = [launcher EXCEPT ![p] = "sleeps"] /\ UNCHANGED pidFile
  ELSE launcher' = [launcher EXCEPT ![p] = "none"] /\ pidFile' = NoPid

(* node binds the port, or ends because another one has it.                 *)
NodeListens(p) ==
  /\ node[p] = "boots"
  /\ IF port = NoPid
     THEN /\ port' = p /\ node' = [node EXCEPT ![p] = "up"]
          /\ UNCHANGED <<launcher, pidFile>>
     ELSE node' = [node EXCEPT ![p] = "none"] /\ UNCHANGED port /\ AfterNode(p)
  /\ UNCHANGED <<runKey, files, cli, commands, crashes, stopped, unclear>>

(* It crashes, or quits on the browser's request.                           *)
NodeEnds(p) ==
  /\ crashes < MaxCrashes /\ crashes' = crashes + 1
  /\ node[p] = "up" /\ node' = [node EXCEPT ![p] = "none"] /\ port' = NoPid
  /\ AfterNode(p)
  /\ UNCHANGED <<runKey, files, cli, commands, stopped, unclear>>

MutStartsOutside(p) ==
  /\ launcher[p] = "sleeps"
  /\ launcher' = [launcher EXCEPT ![p] = "loops"]
  /\ UNCHANGED <<node, port, pidFile, runKey, files, cli, commands, crashes, stopped, unclear>>
(* The loop starts node again.                                              *)
LoopWakes(p) ==
  /\ launcher[p] = "sleeps"
  /\ launcher' = [launcher EXCEPT ![p] = "loops"]
  /\ node' = [node EXCEPT ![p] = "boots"]
  /\ UNCHANGED <<port, pidFile, runKey, files, cli, commands, crashes, stopped, unclear>>

-----------------------------------------------------------------------------
(* The desktop icon: a hidden launcher that first asks the server.          *)
Click(p) ==
  /\ CommandStep /\ launcher[p] = "none"
  /\ launcher' = [launcher EXCEPT ![p] = "checks"]
  /\ stopped' = FALSE
  /\ UNCHANGED <<node, port, pidFile, runKey, files, cli, crashes, unclear>>

(* buildWinShortcutPs1: up, the browser is opened; installed, the service   *)
(* is started; otherwise node runs under this launcher.                     *)
ShortcutChecks(p) ==
  /\ launcher[p] = "checks"
  /\ \/ /\ port # NoPid
        /\ launcher' = [launcher EXCEPT ![p] = "none"]
        /\ UNCHANGED <<node, pidFile>>
     \/ /\ port = NoPid /\ files
        /\ launcher' = [launcher EXCEPT ![p] = "starts"]
        /\ UNCHANGED <<node, pidFile>>
     \/ /\ port = NoPid /\ ~files
        /\ launcher' = [launcher EXCEPT ![p] = "once"]
        /\ node' = [node EXCEPT ![p] = "boots"]
        /\ pidFile' = p
  /\ unclear' = (unclear \/ (port = NoPid /\ (Ours # {p} \/ cli # NoCommand)))
  /\ UNCHANGED <<port, runKey, files, cli, commands, crashes, stopped>>

-----------------------------------------------------------------------------
(* installWindows: the scripts, the Run key and a first launch.             *)
Install(p) ==
  /\ CommandStep
  /\ files' = TRUE /\ runKey' = TRUE
  /\ LaunchService(p)
  /\ UNCHANGED <<node, port, pidFile, cli, crashes>>

(* start: nothing is launched while the recorded instance is alive.         *)
StartService(p) ==
  /\ CommandStep /\ runKey /\ ~Alive(pidFile)
  /\ LaunchService(p)
  /\ UNCHANGED <<node, port, pidFile, runKey, files, cli, crashes>>

(* stop, restart and uninstall begin; uninstall deletes the Run key first.  *)
Begin(cmd) ==
  /\ CommandStep
  /\ cmd # "stop" => runKey
  /\ cli' = [is |-> cmd, at |-> "kill"]
  /\ runKey' = IF cmd = "uninstall" THEN FALSE ELSE runKey
  /\ unclear' = (unclear \/ Unrecorded)
  /\ UNCHANGED <<launcher, node, port, pidFile, files, crashes, stopped>>

MutKillsNode(p) ==
  /\ launcher' = [launcher EXCEPT ![p] = IF @ = "once" THEN "none" ELSE "sleeps"]
  /\ node' = [node EXCEPT ![p] = "none"]
(* taskkill /T: the launcher and its node.                                  *)
KillTree(p) ==
  /\ launcher' = [launcher EXCEPT ![p] = "none"]
  /\ node' = [node EXCEPT ![p] = "none"]

(* stopWinInstance: the tree of the recorded process is killed and waited   *)
(* for; without a record nothing happens.                                   *)
StopKills ==
  /\ cli.at = "kill" /\ cli' = [cli EXCEPT !.at = "forget"]
  /\ IF Alive(pidFile)
     THEN KillTree(pidFile) /\ port' = IF port = pidFile THEN NoPid ELSE port
     ELSE UNCHANGED <<launcher, node, port>>
  /\ UNCHANGED <<pidFile, runKey, files, commands, crashes, stopped, unclear>>

(* The file goes; then restart launches, and uninstall removes the scripts. *)
StopEnds(p) ==
  /\ cli.at = "forget" /\ cli' = NoCommand
  /\ pidFile' = NoPid
  /\ IF cli.is = "restart" THEN LaunchService(p)
     ELSE stopped' = TRUE /\ UNCHANGED <<launcher, unclear>>
  /\ files' = IF cli.is = "uninstall" THEN FALSE ELSE files
  /\ UNCHANGED <<node, port, runKey, commands, crashes>>

(* The session ends: every process does; the file stays.  At the next login *)
(* the Run key launches the service.                                        *)
Login(p) ==
  /\ CommandStep
  /\ launcher' = [q \in Pid |-> IF q = p /\ runKey THEN "starts" ELSE "none"]
  /\ node' = [q \in Pid |-> "none"] /\ port' = NoPid
  /\ stopped' = (stopped /\ ~runKey)
  /\ UNCHANGED <<pidFile, runKey, files, cli, crashes, unclear>>

WinNext ==
  \/ \E p \in Pid : \/ ServiceRecords(p) \/ NodeListens(p) \/ NodeEnds(p) \/ LoopWakes(p)
                    \/ Click(p) \/ ShortcutChecks(p) \/ Install(p) \/ StartService(p)
                    \/ StopEnds(p) \/ Login(p)
  \/ \E cmd \in {"stop", "restart", "uninstall"} : Begin(cmd)
  \/ StopKills

(* Processes run, and the loop's sleep ends.                                *)
WinFairness ==
  \A p \in Pid : /\ WF_winVars(ServiceRecords(p)) /\ WF_winVars(NodeListens(p))
                 /\ WF_winVars(LoopWakes(p))

-----------------------------------------------------------------------------
(* bin/pi-web-ui.mjs: "server stop ... takes the loop down with it", that of *)
(* the shortcut too: after stop or uninstall nothing runs, unless two were  *)
(* launched at once or the file was read before it was written.             *)
StopStops == stopped /\ ~unclear => Ours = {}

(* The same without the condition: violated, a click while the loop sleeps  *)
(* after a crash launches a second loop, which overwrites the file.         *)
StopStopsAlways == stopped => Ours = {}

(* A recorded instance is found by the next command: the file names the     *)
(* launcher that runs.                                                      *)
FileNamesIt ==
  ~unclear /\ cli = NoCommand =>
    \A p \in Pid : launcher[p] \in {"loops", "sleeps", "once"} => pidFile = p

(* buildWinStartPs1: "if node exits, it restarts after 10s": while the loop *)
(* of a service runs, a server comes up again after each crash.             *)
WatchdogRestarts ==
  \A p \in Pid : launcher[p] \in {"loops", "sleeps"}
                   ~> (port # NoPid \/ launcher[p] = "none")
=============================================================================
