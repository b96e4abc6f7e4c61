----------------------------- MODULE UnixService ----------------------------
(***************************************************************************)
(* The server on Linux (a systemd unit) and macOS (a launchd agent): the   *)
(* service, instances in the foreground that the CLI or the desktop icon   *)
(* starts, the port they compete for, and the control socket in the data   *)
(* directory they share.  systemd and launchd start the service again      *)
(* whenever it ends by itself (Restart=always, KeepAlive).                 *)
(***************************************************************************)
EXTENDS Naturals, FiniteSets

CONSTANTS
  Front,         \* instances in the foreground
  Service,       \* the instance of the service
  Nobody,
  Port,          \* ports
  UsualPort,     \* the port of the service and of the icon
  MaxCommands,   \* bound: commands, clicks and reboots
  MaxCrashes     \* bound: crashes and quits

VARIABLES
  platform,
  unit,          \* the unit file or the plist exists
  at,            \* instance -> what it does
  binds,         \* instance -> the port it binds
  holder,        \* port -> the instance that listens
  control,       \* the instance the path of the control socket leads to
  icon,          \* front instances that a click on the icon started
  removing,      \* an uninstall has stopped the service
  stopped,       \* the service was stopped, and not started since
  commands, crashes,
  granted,       \* front instances that run though systemctl start succeeded
  raced,         \* a click fell into an uninstall
  together       \* two instances ran at once

unixVars == <<platform, unit, at, binds, holder, control, icon, removing, stopped, commands,
              crashes, granted, raced, together>>

Instance == Front \cup {Service}
Running == {i \in Instance : at[i] \in {"boots", "binds", "up"}}
Up == {i \in Instance : at[i] = "up"}

UnixTypeOK ==
  /\ platform \in {"linux", "mac"} /\ unit \in BOOLEAN
  /\ at \in [Instance -> {"off", "waits", "asks", "boots", "binds", "up"}]
  /\ binds \in [Instance -> Port] /\ holder \in [Port -> Instance \cup {Nobody}]
  /\ control \in Instance \cup {Nobody} /\ icon \subseteq Front
  /\ {removing, stopped, raced, together} \subseteq BOOLEAN /\ granted \subseteq Front
  /\ commands \in 0 .. MaxCommands /\ crashes \in 0 .. MaxCrashes

UnixInit ==
  /\ platform \in {"linux", "mac"} /\ unit = FALSE
  /\ at = [i \in Instance |-> "off"] /\ binds = [i \in Instance |-> UsualPort]
  /\ holder = [p \in Port |-> Nobody] /\ control = Nobody /\ icon = {}
  /\ removing = FALSE /\ stopped = FALSE /\ commands = 0 /\ crashes = 0
  /\ granted = {} /\ raced = FALSE /\ together = FALSE

CommandStep == commands < MaxCommands /\ commands' = commands + 1
Freed(i) == [p \in Port |-> IF holder[p] = i THEN Nobody ELSE holder[p]]

-----------------------------------------------------------------------------
MutLeavesStale(i) == IF control \in Instance THEN control ELSE i
(* startControlServer: the path is unlinked, whoever listens there, and     *)
(* bound; that comes before the port is known to be free.                   *)
TakesControl(i) == i

Boot(i) ==
  /\ at[i] = "boots"
  /\ at' = [at EXCEPT ![i] = "binds"]
  /\ control' = TakesControl(i)
  /\ together' = (together \/ Running # {i})
  /\ UNCHANGED <<platform, unit, binds, holder, icon, removing, stopped, commands, crashes, granted,
                 raced>>

MutStaysOff(i) == at' = [at EXCEPT ![i] = "off"]
(* An instance ended by itself: its supervisor waits and starts it again.   *)
Ended(i) == at' = [at EXCEPT ![i] = IF i = Service THEN "waits" ELSE "off"]

(* The port is bound, or the error that nobody handles ends the process.    *)
Listens(i) ==
  /\ at[i] = "binds"
  /\ IF holder[binds[i]] = Nobody
     THEN at' = [at EXCEPT ![i] = "up"] /\ holder' = [holder EXCEPT ![binds[i]] = i]
     ELSE Ended(i) /\ UNCHANGED holder
  /\ UNCHANGED <<platform, unit, binds, control, icon, removing, stopped, commands, crashes,
                 granted, raced, together>>

Returns ==
  /\ at[Service] = "waits" /\ at' = [at EXCEPT ![Service] = "boots"]
  /\ UNCHANGED <<platform, unit, binds, holder, control, icon, removing, stopped, commands, crashes,
                 granted, raced, together>>

(* A crash leaves the path of the socket behind; the quit of the browser    *)
(* and the end of a terminal shut down, which removes it.                   *)
Ends(i, gracefully) ==
  /\ crashes < MaxCrashes /\ crashes' = crashes + 1
  /\ at[i] = "up" /\ Ended(i)
  /\ holder' = Freed(i)
  /\ control' = IF gracefully THEN Nobody ELSE control
  /\ UNCHANGED <<platform, unit, binds, icon, removing, stopped, commands, granted, raced, together>>

-----------------------------------------------------------------------------
(* pi-web-ui [--port]: an instance in the foreground.                       *)
RunForeground(f, p) ==
  /\ CommandStep /\ at[f] = "off"
  /\ at' = [at EXCEPT ![f] = "boots"] /\ binds' = [binds EXCEPT ![f] = p]
  /\ icon' = icon \ {f} /\ granted' = granted \ {f}
  /\ UNCHANGED <<platform, unit, holder, control, removing, stopped, crashes, raced, together>>

(* The icon.  On Linux it asks the server first.                            *)
Click(f) ==
  /\ CommandStep /\ at[f] = "off"
  /\ platform = "linux" => holder[UsualPort] = Nobody
  /\ at' = [at EXCEPT ![f] = "asks"] /\ binds' = [binds EXCEPT ![f] = UsualPort]
  /\ icon' = icon \cup {f} /\ granted' = granted \ {f}
  /\ UNCHANGED <<platform, unit, holder, control, removing, stopped, crashes, raced, together>>

StartsService ==
  IF at[Service] \in {"off", "waits"} THEN "boots" ELSE at[Service]

(* buildLinuxStartScript: systemctl start, which may be refused; then the   *)
(* server is asked again, once, and node is started when it does not answer. *)
LinuxStarts(f, refused) ==
  /\ at[f] = "asks" /\ platform = "linux"
  /\ ~unit => refused
  /\ stopped' = (stopped /\ refused)
  /\ at' = [at EXCEPT ![f] = IF holder[UsualPort] = Nobody THEN "boots" ELSE "off",
                      ![Service] = IF refused THEN @ ELSE StartsService]
  /\ granted' = IF ~refused /\ holder[UsualPort] = Nobody THEN granted \cup {f} ELSE granted
  /\ raced' = (raced \/ (removing /\ ~refused))
  /\ UNCHANGED <<platform, unit, binds, holder, control, icon, removing, commands, crashes,
                 together>>

(* buildMacShortcut: the agent is loaded or kicked when it exists, otherwise *)
(* node runs in the terminal.                                               *)
MacStarts(f) ==
  /\ at[f] = "asks" /\ platform = "mac"
  /\ LET agent == unit \/ at[Service] # "off" IN
       /\ at' = [at EXCEPT ![f] = IF agent THEN "off" ELSE "boots",
                           ![Service] = IF agent THEN StartsService ELSE @]
       /\ stopped' = (stopped /\ ~agent)
       /\ raced' = (raced \/ (removing /\ agent))
  /\ UNCHANGED <<platform, unit, binds, holder, control, icon, removing, commands, crashes,
                 granted, together>>

-----------------------------------------------------------------------------
(* install: the file is written, and the service started unless it runs;    *)
(* launchd's is unloaded first.                                             *)
Install ==
  /\ CommandStep /\ ~removing /\ stopped' = FALSE /\ unit' = TRUE
  /\ IF platform = "mac" /\ at[Service] # "off"
     THEN /\ at' = [at EXCEPT ![Service] = "boots"] /\ holder' = Freed(Service)
          /\ control' = IF at[Service] \in {"binds", "up"} THEN Nobody ELSE control
     ELSE at' = [at EXCEPT ![Service] = StartsService] /\ UNCHANGED <<holder, control>>
  /\ UNCHANGED <<platform, binds, icon, removing, crashes, granted, raced, together>>

(* start; restart ends the instance and starts it anew.                     *)
StartOrRestart(again) ==
  /\ CommandStep /\ ~removing /\ stopped' = FALSE /\ unit
  /\ again /\ platform = "mac" => at[Service] # "off"
  /\ IF again /\ at[Service] \in {"boots", "binds", "up"}
     THEN /\ at' = [at EXCEPT ![Service] = "boots"] /\ holder' = Freed(Service)
          /\ control' = IF at[Service] \in {"binds", "up"} THEN Nobody ELSE control
     ELSE at' = [at EXCEPT ![Service] = StartsService] /\ UNCHANGED <<holder, control>>
  /\ UNCHANGED <<platform, unit, binds, icon, removing, crashes, granted, raced, together>>

MutLeavesIt == UNCHANGED <<at, holder, control>>
(* systemctl stop, launchctl bootout: SIGTERM, and no restart.              *)
ServiceStops ==
  /\ at' = [at EXCEPT ![Service] = "off"] /\ holder' = Freed(Service)
  /\ control' = IF at[Service] \in {"binds", "up"} THEN Nobody ELSE control

(* stop, and the first half of uninstall.                                   *)
StopService(forGood) ==
  /\ CommandStep /\ ~removing /\ (unit \/ platform = "mac")
  /\ ServiceStops
  /\ removing' = forGood /\ stopped' = TRUE
  /\ UNCHANGED <<platform, unit, binds, icon, crashes, granted, raced, together>>

(* The second half: the file is removed.                                    *)
UninstallEnds ==
  /\ removing /\ removing' = FALSE /\ unit' = FALSE
  /\ UNCHANGED <<platform, at, binds, holder, control, icon, stopped, commands, crashes, granted,
                 raced, together>>

(* The machine starts again: a unit that is enabled, or an agent whose      *)
(* plist exists.                                                            *)
Reboot ==
  /\ CommandStep /\ ~removing /\ stopped' = FALSE
  /\ at' = [i \in Instance |-> IF i = Service /\ unit THEN "boots" ELSE "off"]
  /\ holder' = [p \in Port |-> Nobody]
  /\ UNCHANGED <<platform, unit, binds, control, icon, removing, crashes, granted, raced,
                 together>>

UnixNext ==
  \/ \E i \in Instance : \/ Boot(i) \/ Listens(i)
                         \/ \E g \in BOOLEAN : Ends(i, g)
  \/ Returns \/ Install \/ UninstallEnds \/ Reboot
  \/ \E b \in BOOLEAN : StartOrRestart(b) \/ StopService(b)
  \/ \E f \in Front : \/ \E p \in Port : RunForeground(f, p)
                      \/ Click(f) \/ MacStarts(f)
                      \/ \E b \in BOOLEAN : LinuxStarts(f, b)

UnixFairness ==
  WF_unixVars(Returns) /\ \A i \in Instance : WF_unixVars(Boot(i)) /\ WF_unixVars(Listens(i))

-----------------------------------------------------------------------------
(* control-socket.ts: the CLI "can query status and quiesce" a running      *)
(* server: the path leads to it, after crashes and restarts too, if no two  *)
(* instances ran at once.                                                   *)
ControlReachable == ~together => \A i \in Up : control = i

(* control-socket.ts: "A second instance on the same data dir / port would  *)
(* fail to bind ... and run without a control socket": violated, it unlinks *)
(* the path, and ends when the port is taken.                               *)
ControlReachableAlways == Up # {} => control \in Running

(* The launcher of Linux runs node itself only when systemctl start failed  *)
(* ("失败则前台运行"): violated, it does not wait for the service to listen.    *)
ForegroundOnlyRefused == granted = {}

(* Once uninstalled the service does not run, nor after a reboot, unless the *)
(* icon was clicked during the uninstall.                                   *)
UninstalledIsGone == ~unit /\ ~raced => at[Service] = "off"

(* However its instance ends, an installed service comes to listen again, or *)
(* another instance has the port, unless it was stopped ("Restart=always").  *)
ServiceReturns ==
  unit /\ ~stopped ~> (holder[UsualPort] # Nobody \/ stopped \/ ~unit)
=============================================================================
