------------------------------- MODULE MCRuns -------------------------------
(***************************************************************************)
(* The parts of ClientSession around the runs of its conversations.  They  *)
(* share no variable of the models, so a behaviour exercises one of them,  *)
(* which its initial state chooses: one run explores them all, and the     *)
(* state spaces add up instead of multiplying.                             *)
(***************************************************************************)
EXTENDS Naturals, Sequences, FiniteSets, TLC

CONSTANTS
  Chat, FirstChat, Tab,
  MaxTurns, MaxQueue,                                    \* RunNotifications
  MaxPrompts, Words, Clicks,                             \* PromptQueue
  MaxQuestions, MaxBreaks, MaxRestarts, MaxMessages,     \* Questions
  Call, MaxSessions, MaxChanges,                         \* RunGuards
  Bash, Port, MaxProcs,                                  \* BgServers
  OneTab, Worker, MaxEvents, MaxPending,                 \* Workers
  MaxDialogs, MaxUISteps,                                \* ExtensionUI
  Task, MaxTodoSteps,                                    \* Todos
  FileCap, TotalCap, SkillSize, CharWidth, MaxSkills, MaxPromptSteps, \* SystemPrompt
  SlashChat, MaxOpen, MaxVersions, MaxSlashSteps         \* SlashCommands

(* Bounds are numbers, and the chat the server starts with is a chat.       *)
ASSUME RunsBounds ==
  /\ MaxTurns \in Nat /\ MaxQueue \in Nat
  /\ MaxSessions \in Nat \ {0} /\ MaxChanges \in Nat /\ MaxProcs \in Nat
  /\ MaxPrompts \in Nat
  /\ MaxQuestions \in Nat /\ MaxBreaks \in Nat /\ MaxRestarts \in Nat /\ FirstChat \in Chat
  /\ MaxEvents \in Nat /\ MaxDialogs \in Nat

(* One tab follows the workers, and no worker has the id of none.           *)
ASSUME OneFollower ==
  /\ \E t \in OneTab : OneTab = {t}
  /\ 0 \notin Worker

(* A bash call is none of the other things a process can descend from.      *)
ASSUME BashNames == Bash \cap {"none", "desktop", "unknown"} = {}

VARIABLES part,
  sdk, queued, workers, retryState, run, lastStop, turn, stopped, carried, announced,
  steering, followUp, said, kindOf, removal, delivered, removed, lost, crossed,
  questionSeq, pending, asked, activeChat, unsent, online, down, up, panel, source,
  answered, given, outcome, breaks, restarts,
  phase, session, state, overdue, toolStartTimes, toolWatchdogs, bashKills,
  interrupting, quiet, stallNoticed, version, loaded, pendingReload,
  reloadFailed, stoppedEnd,
  listening, procs, owner, servers, listenBefore, bash, snapping, before, seen,
  surely, killed,
  active, known, open, vanished, live, pushTimers, shown, selected, pane, requests,
  replies,
  dialogsActive, footers, drawing, widgetOn, lastLines, dialogsPending, dialogSeq,
  wire, dialogsOnline, page, did,
  branch, unsaved, todosLive, todosBefore, blurred, strip, worked,
  system, appendix, promptLoaded, lastBase, lastAdded, lastLoad, template, overrides,
  pasted, promptActive, sent, edited,
  slashOpen, written, slashActive, disk, offers, ungated, running, slashShown,
  strayed, slashCrossed, typed

(* What a widget draws, with and without its colours; the workspaces.       *)
Strip(drawn) == IF drawn = "red" THEN "plain" ELSE drawn
HomeOf == [c \in Chat |-> IF c = FirstChat THEN "wA" ELSE "wB"]

Notes     == INSTANCE RunNotifications
Queue     == INSTANCE PromptQueue
Ask       == INSTANCE Questions
Guards    == INSTANCE RunGuards
Bg        == INSTANCE BgServers
Follow    == INSTANCE Workers WITH Tab <- OneTab
Dialogs == INSTANCE ExtensionUI WITH
            HomeChat <- FirstChat, Text <- {"text"}, Drawn <- {"plain", "red"},
            Colourless <- Strip, AtOnce <- 1, active <- dialogsActive,
            pending <- dialogsPending, online <- dialogsOnline
Todo == INSTANCE Todos WITH
            live <- todosLive, before <- todosBefore
Prompt == INSTANCE SystemPrompt WITH
            Home <- HomeOf, loaded <- promptLoaded, active <- promptActive
Slash == INSTANCE SlashCommands WITH
            Chat <- SlashChat, HomeChat <- FirstChat, open <- slashOpen,
            active <- slashActive, shown <- slashShown, crossed <- slashCrossed

noteVars == <<sdk, queued, workers, retryState, run, lastStop, turn, stopped,
              carried, announced>>
queueVars == <<steering, followUp, said, kindOf, removal, delivered, removed, lost,
               crossed>>
askVars == <<questionSeq, pending, asked, activeChat, unsent, online, down, up,
             panel, source, answered, given, outcome, breaks, restarts>>
guardVars == <<phase, session, state, overdue, toolStartTimes, toolWatchdogs,
               bashKills, interrupting, quiet, stallNoticed, version, loaded,
               pendingReload, reloadFailed, stoppedEnd>>
bgVars == <<listening, procs, owner, servers, listenBefore, bash, snapping, before,
            seen, surely, killed>>
workerVars == <<active, known, open, vanished, live, pushTimers, shown, selected,
                pane, requests, replies>>
dialogVars == <<dialogsActive, footers, drawing, widgetOn, lastLines, dialogsPending,
                dialogSeq, wire, dialogsOnline, page, did>>
todoVars == <<branch, unsaved, todosLive, todosBefore, blurred, strip, worked>>
promptVars == <<system, appendix, promptLoaded, lastBase, lastAdded, lastLoad,
                template, overrides, pasted, promptActive, sent, edited>>
slashVars == <<slashOpen, written, slashActive, disk, offers, ungated, running,
               slashShown, strayed, slashCrossed, typed>>

vars == <<part, noteVars, queueVars, askVars, guardVars,
          bgVars, workerVars, dialogVars, todoVars, promptVars, slashVars>>

Init ==
  /\ part \in {"notes", "queue", "ask", "guards", "bg", "follow",
              "dialogs", "todos", "prompt", "slash"}
  /\ Notes!NoteInit /\ Queue!QueueInit /\ Ask!AskInit /\ Guards!GuardInit
  /\ Bg!BgInit /\ Follow!WorkerInit
  /\ Dialogs!UIInit /\ (part # "dialogs" => drawing = "plain")
  /\ Todo!TodoInit
  /\ Prompt!PromptInit
  /\ part # "prompt" => system = {} /\ appendix = {} /\ promptActive = FirstChat
  /\ Slash!SlashInit /\ (part # "slash" => written = {})

(* The parts a behaviour does not exercise stay as they are.                *)
Rest ==
  /\ part' = part
  /\ IF part = "notes" THEN TRUE ELSE UNCHANGED noteVars
  /\ IF part = "queue" THEN TRUE ELSE UNCHANGED queueVars
  /\ IF part = "ask" THEN TRUE ELSE UNCHANGED askVars
  /\ IF part = "guards" THEN TRUE ELSE UNCHANGED guardVars
  /\ IF part = "bg" THEN TRUE ELSE UNCHANGED bgVars
  /\ IF part = "follow" THEN TRUE ELSE UNCHANGED workerVars
  /\ IF part = "dialogs" THEN TRUE ELSE UNCHANGED dialogVars
  /\ IF part = "todos" THEN TRUE ELSE UNCHANGED todoVars
  /\ IF part = "prompt" THEN TRUE ELSE UNCHANGED promptVars
  /\ IF part = "slash" THEN TRUE ELSE UNCHANGED slashVars

Next ==
  \/ part = "notes" /\ Notes!NoteNext /\ Rest
  \/ part = "queue" /\ Queue!QueueNext /\ Rest
  \/ part = "ask" /\ Ask!AskNext /\ Rest
  \/ part = "guards" /\ Guards!GuardNext /\ Rest
  \/ part = "bg" /\ Bg!BgNext /\ Rest
  \/ part = "follow" /\ Follow!WorkerNext /\ Rest
  \/ part = "dialogs" /\ Dialogs!UINext /\ Rest
  \/ part = "todos" /\ Todo!TodoNext /\ Rest
  \/ part = "prompt" /\ Prompt!PromptNext /\ Rest
  \/ part = "slash" /\ Slash!SlashNext /\ Rest

Spec == Init /\ [][Next]_vars

(* The tabs of Questions are alike.                                         *)
TabSymmetry == Permutations(Tab)

-----------------------------------------------------------------------------
(* RunNotifications: a run with a record of its own is announced once, with *)
(* its final outcome, and never when the user stopped it.                   *)
RunsReported ==
  part = "notes" => /\ Notes!NoteTypeOK
                    /\ Notes!StoppedIsSilent
                    /\ Notes!OneOutcome
                    /\ Notes!NothingMissed

(* PromptQueue and Questions: a queued text is in one place and in order    *)
(* whatever crosses a removal, and a click takes back one text; a question  *)
(* the model waits on is on every calm screen, its restored panel closes    *)
(* with it, and a tool call gets the answer to its own question.            *)
MessagesKept ==
  /\ [](part = "queue" => /\ Queue!QueueTypeOK
                          /\ Queue!QueueConserved
                          /\ Queue!QueueOrder)
  /\ [](part = "ask" => /\ Ask!AskTypeOK
                        /\ Ask!NoHiddenQuestion
                        /\ Ask!RestoredPanelsClose
                        /\ Ask!OwnAnswers)
  /\ Queue!OneClickOneText

(* RunGuards and BgServers: a call that can hang is guarded as long as it   *)
(* runs and no longer, changed settings reach the session or stay pending;  *)
(* a server left running by a command is found, and no program of the       *)
(* desktop is killed.                                                       *)
RunsGuarded ==
  /\ [](part = "guards" => /\ Guards!GuardTypeOK
                           /\ Guards!HungCallsEnd
                           /\ Guards!NoStrayTimers
                           /\ Guards!SettingsFollow)
  /\ [](part = "bg" => Bg!BgTypeOK /\ Bg!DesktopIsSafe)
  /\ Bg!ServersFound

(* Workers and ExtensionUI: a calm pane shows all of the transcript of a    *)
(* known worker; the footer is the active chat's, a new page has the widget *)
(* lines the poll compares with, and a dialog that waits is on the page.    *)
FollowersServed ==
  /\ part = "follow" => /\ Follow!WorkerTypeOK
                        /\ Follow!FollowerUpToDate
                        /\ Follow!FollowedAreKnown
  /\ part = "dialogs" => /\ Dialogs!UITypeOK
                         /\ Dialogs!FooterOfTheChat
                         /\ Dialogs!ShownIsCompared
                         /\ Dialogs!WaitIsShown

(* Todos: the strip over the composer holds the tasks of its run, the run's *)
(* own among them, a list read back from the transcript is the list there   *)
(* was, and a forced reset keeps the strip it takes over.                   *)
StripFollowsRun ==
  /\ [](part = "todos" => /\ Todo!TodoTypeOK
                          /\ Todo!StripHasItsTasks
                          /\ Todo!RunIsInStrip
                          /\ Todo!HistoryAgrees)
  /\ Todo!ResetKeepsStrip

(* SystemPrompt and SlashCommands: a run is told its own directory and      *)
(* files, a fresh chat speaks with its own SYSTEM.md, an override leaves    *)
(* the other sections alone, pasted skills fit their cap; the text after    *)
(* /new stays with its chat, the picker offers the active chat's commands,  *)
(* and a tool switched off stays off after /reload.                         *)
OwnPrompt ==
  /\ part = "prompt" => /\ Prompt!PromptTypeOK
                        /\ Prompt!OwnContext
                        /\ Prompt!FreshSpeaksOwn
                        /\ Prompt!OthersUntouched
                        /\ Prompt!CapInCharacters
  /\ part = "slash" => /\ Slash!SlashTypeOK
                       /\ Slash!NothingStraysInPlace
                       /\ Slash!CatalogueOfTheChat
                       /\ Slash!OffStaysOff
=============================================================================
