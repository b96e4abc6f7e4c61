----------------------------- MODULE MCServices -----------------------------
(***************************************************************************)
(* What has to catch up by itself: the sockets of the tabs, the process    *)
(* under the service managers of Windows and Unix, the file panel and the  *)
(* git panel.  As in MCRuns a behaviour exercises one part, which its      *)
(* initial state chooses.                                                  *)
(***************************************************************************)
EXTENDS Naturals, Sequences, FiniteSets

CONSTANTS
  Socket, Browser, Systemd, MaxBreaks, MaxFailures, MaxStops, MaxToggles,
  MaxMessages,                                                         \* Sockets
  Pid, NoPid, MaxWinCommands, MaxCrashes,                              \* WinService
  Front, Service, Nobody, Port, UsualPort, MaxUnixCommands,
  MaxUnixCrashes,                                                      \* UnixService
  TreeTab, MaxTreeEvents,                                              \* FilePanels
  Repo, HomeRepo, Tracked, Untracked, MaxScmEvents                     \* FilePanels

VARIABLES part,
  process, sock, queue, session, sinks, created, sent, held, handled, quiesced,
  admitted, streaming, interrupted, cut, unrecorded, breaks, failures, stops, toggles,
  launcher, node, port, pidFile, runKey, files, cli, winCommands, winCrashes,
  winStopped, unclear,
  platform, unit, at, binds, holder, control, icon, removing, unixStopped,
  unixCommands, unixCrashes, granted, unixRaced, together,
  content, recursive, sessionCwd, watched, notice, reads, answers, panel, happened,
  holds, active, gitWatcher, gitWatchCwd, gitDirtyTimer, arming, unowned, scmAsks,
  running, scmWire, scmData, lastCwd, shown, slot, busy, scmError,
  selectedFile, fileDiff, diffLoading, scmEvents, scmRaced, hurried

(* The tabs of one browser share their client id.                           *)
OneBrowser == [s \in Socket |-> Browser]

Sock == INSTANCE Sockets WITH
            Client <- {Browser}, ClientOf <- OneBrowser
Win  == INSTANCE WinService WITH
            MaxCommands <- MaxWinCommands, commands <- winCommands,
            crashes <- winCrashes, stopped <- winStopped
Unix == INSTANCE UnixService WITH
            MaxCommands <- MaxUnixCommands, MaxCrashes <- MaxUnixCrashes,
            stopped <- unixStopped, commands <- unixCommands, crashes <- unixCrashes,
            raced <- unixRaced
Pane == INSTANCE FilePanels WITH
            Workspace <- Repo, HomeWorkspace <- HomeRepo, raced <- scmRaced

sockVars == <<process, sock, queue, session, sinks, created, sent, held, handled,
              quiesced, admitted, streaming, interrupted, cut, unrecorded, breaks,
              failures, stops, toggles>>
winVars == <<launcher, node, port, pidFile, runKey, files, cli, winCommands,
             winCrashes, winStopped, unclear>>
unixVars == <<platform, unit, at, binds, holder, control, icon, removing, unixStopped,
              unixCommands, unixCrashes, granted, unixRaced, together>>
treeVars == <<content, recursive, sessionCwd, watched, notice, reads, answers, panel,
              happened>>
scmVars == <<holds, active, gitWatcher, gitWatchCwd, gitDirtyTimer, arming, unowned,
             scmAsks, running, scmWire, scmData, lastCwd, shown, slot, busy,
             scmError, selectedFile, fileDiff, diffLoading, scmEvents, scmRaced,
             hurried>>

vars == <<part, sockVars, winVars, unixVars, treeVars, scmVars>>

Init ==
  /\ part \in {"sockets", "windows", "unix", "tree", "scm"}
  /\ Sock!SockInit /\ Win!WinInit
  /\ Unix!UnixInit /\ (part # "unix" => platform = "linux")
  /\ Pane!TreeInit /\ (part # "tree" => recursive)
  /\ Pane!ScmInit

(* The parts a behaviour does not exercise stay as they are.                *)
Rest ==
  /\ part' = part
  /\ IF part = "sockets" THEN TRUE ELSE UNCHANGED sockVars
  /\ IF part = "windows" THEN TRUE ELSE UNCHANGED winVars
  /\ IF part = "unix" THEN TRUE ELSE UNCHANGED unixVars
  /\ IF part = "tree" THEN TRUE ELSE UNCHANGED treeVars
  /\ IF part = "scm" THEN TRUE ELSE UNCHANGED scmVars

Next ==
  \/ part = "sockets" /\ Sock!SockNext /\ Rest
  \/ part = "windows" /\ Win!WinNext /\ Rest
  \/ part = "unix" /\ Unix!UnixNext /\ Rest
  \/ part = "tree" /\ Pane!TreeNext /\ Rest
  \/ part = "scm" /\ Pane!ScmNext /\ Rest

Spec == Init /\ [][Next]_vars

(* A tab connects, says hello and closes a refused connection by itself; a  *)
(* session is created or fails; the process that stops ends and its         *)
(* supervisor starts it.                                                    *)
SocketFairness ==
  /\ \A s \in Socket : WF_sockVars(part = "sockets" /\
       (Sock!Open(s) \/ Sock!Hello(s) \/ (sock[s] = "refused" /\ Sock!Closed(s))))
  /\ WF_sockVars(part = "sockets" /\ Sock!SessionCreated(Browser))
  /\ WF_sockVars(part = "sockets" /\ (Sock!Exit \/ Sock!Start))

(* Processes run, and the sleep of the loop ends.                           *)
WindowsFairness ==
  \A p \in Pid : WF_winVars(part = "windows" /\
    (Win!ServiceRecords(p) \/ Win!NodeListens(p) \/ Win!LoopWakes(p)))

(* Processes run, and the service manager restarts what ended by itself.    *)
UnixFairness ==
  /\ \A i \in Front \cup {Service} :
       WF_unixVars(part = "unix" /\ (Unix!Boot(i) \/ Unix!Listens(i)))
  /\ WF_unixVars(part = "unix" /\ Unix!Returns)

(* Directories are read in the end, messages arrive, and the panel polls.   *)
TreeFairness ==
  /\ WF_treeVars(part = "tree" /\ reads # <<>> /\ (Pane!ReadDir(1) \/ Pane!ListEnds(1)))
  /\ \A t \in TreeTab : /\ WF_treeVars(part = "tree" /\ Pane!Receive(t))
                        /\ WF_treeVars(part = "tree" /\ Pane!Poll(t))

(* The same for git; a render shows what the store holds.                   *)
ScmFairness ==
  /\ WF_scmVars(part = "scm" /\ Pane!Query)
  /\ WF_scmVars(part = "scm" /\ \E q \in running : Pane!QueryEnds(q))
  /\ WF_scmVars(part = "scm" /\ Pane!GitDirKnown(1))
  /\ WF_scmVars(part = "scm" /\ Pane!MessageArrives)
  /\ WF_scmVars(part = "scm" /\ Pane!ApplyScmData)
  /\ WF_scmVars(part = "scm" /\ Pane!ScmPoll)

FairSpec == /\ Spec
            /\ SocketFairness /\ WindowsFairness /\ UnixFairness
            /\ TreeFairness /\ ScmFairness

-----------------------------------------------------------------------------
(* Sockets: an attached tab is heard and served by the one session of its   *)
(* client, early messages are neither lost nor reordered, the user learns   *)
(* of runs cut short by a restart, and every tab gets attached in the end.  *)
SocketsServed ==
  /\ [](part = "sockets" => /\ Sock!SockTypeOK
                            /\ Sock!AttachedTabsHear
                            /\ Sock!OneSession
                            /\ Sock!HandledInOrder
                            /\ Sock!NoticeKept)
  /\ (part = "sockets" => Sock!EveryTabAttached)

(* WinService and UnixService: after stop nothing runs, the PID file names  *)
(* what runs, the control socket leads to the server, an uninstalled        *)
(* service does not run; the watchdog and the service manager bring the     *)
(* server back.                                                             *)
ServiceManaged ==
  /\ [](part = "windows" => /\ Win!WinTypeOK
                            /\ Win!StopStops
                            /\ Win!FileNamesIt)
  /\ [](part = "unix" => /\ Unix!UnixTypeOK
                         /\ Unix!ControlReachable
                         /\ Unix!UninstalledIsGone)
  /\ Win!WatchdogRestarts
  /\ (part = "unix" => Unix!ServiceReturns)

(* FileTree and Scm: a notice names the directory that is watched, the      *)
(* watcher is of the workspace it is taken for, the patch shown is of the   *)
(* file selected, and both panels catch up with the disk.                   *)
PanelsCatchUp ==
  /\ [](part = "tree" => Pane!TreeTypeOK /\ Pane!NoticeOfWatched)
  /\ [](part = "scm" => /\ Pane!ScmTypeOK
                        /\ Pane!WatcherOfWorkspace
                        /\ Pane!PatchOfItsFile)
  /\ (part = "tree" => Pane!PanelCatchesUp)
  /\ (part = "scm" => Pane!RepoCatchesUp)
=============================================================================
