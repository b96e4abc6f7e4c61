----------------------------- MODULE RunGuards -----------------------------
(***************************************************************************)
(* What the server does around a running turn of one conversation so that  *)
(* it cannot hang or be torn down: the watchdog of each tool call, the     *)
(* notice about a silent run, stopping only the shell commands, and the    *)
(* reload of changed settings, which waits for the turn to end.            *)
(* Time is abstract: a call grows overdue, the events stop for too long.   *)
(***************************************************************************)
EXTENDS Naturals, FiniteSets

CONSTANTS
  Call,         \* tool call ids
  MaxSessions,  \* bound: sessions the conversation goes through
  MaxChanges    \* bound: changes of settings that need a reload

VARIABLES
  phase,        \* of the session: "idle", "streaming", "wedged": streaming
                \* and deaf to the abort signal
  session,      \* number of the session, grows when it is force-reset
  state,        \* [Call -> CallState]
  overdue,      \* calls running longer than TOOL_WATCHDOG_TIMEOUT_MS
  toolStartTimes, toolWatchdogs,
  bashKills,    \* commands with an AbortController in ClientSession.bashKills
  interrupting, \* interruptRun in progress
  quiet,        \* no event for STALL_NOTIFY_MS
  stallNoticed,
  version, loaded,  \* settings saved; settings the session was loaded with
  pendingReload,
  reloadFailed, \* the last reload failed, which a notice has said
  stoppedEnd    \* the last turn ended by an abort

guardVars == <<phase, session, state, overdue, toolStartTimes, toolWatchdogs, bashKills,
               interrupting, quiet, stallNoticed, version, loaded,
               pendingReload, reloadFailed, stoppedEnd>>
reloadVars == <<version, loaded, pendingReload, reloadFailed, stoppedEnd>>

Kind == {"bash", "other", "question"}
CallState == {"none", "killed"} \cup Kind

GuardTypeOK ==
  /\ phase \in {"idle", "streaming", "wedged"} /\ session \in 1..MaxSessions
  /\ state \in [Call -> CallState]
  /\ \A s \in {overdue, toolStartTimes, toolWatchdogs, bashKills} : s \subseteq Call
  /\ {interrupting, quiet, stallNoticed, pendingReload, reloadFailed, stoppedEnd}
       \subseteq BOOLEAN
  /\ version \in 0..MaxChanges /\ loaded \in 0..MaxChanges

GuardInit ==
  /\ phase = "idle" /\ session = 1 /\ state = [c \in Call |-> "none"]
  /\ overdue = {} /\ toolStartTimes = {} /\ toolWatchdogs = {} /\ bashKills = {}
  /\ interrupting = FALSE /\ quiet = FALSE /\ stallNoticed = FALSE
  /\ version = 0 /\ loaded = 0 /\ pendingReload = FALSE
  /\ reloadFailed = FALSE /\ stoppedEnd = FALSE

Running(c) == state[c] # "none"
Streaming == phase # "idle"
(* isWaitingOnUser                                                          *)
WaitingOnUser == \E c \in Call : state[c] = "question"

(* The head of onEvent: any event proves the run alive.                     *)
Alive == quiet' = FALSE /\ stallNoticed' = FALSE
SameSilence == UNCHANGED <<quiet, stallNoticed>>

-----------------------------------------------------------------------------
Start ==
  /\ phase = "idle" /\ ~interrupting
  /\ phase' \in {"streaming", "wedged"}
  /\ Alive
  /\ UNCHANGED <<session, state, overdue, toolStartTimes, toolWatchdogs, bashKills,
                 interrupting, reloadVars>>

MutOnlyBash(kind) == kind = "bash"
(* A question waits for a person and is exempt.                             *)
Armed(kind) == kind # "question"

(* tool_execution_start, and the bash tool that registers its controller.   *)
ToolStart(c, kind) ==
  /\ Streaming /\ ~Running(c)
  /\ state' = [state EXCEPT ![c] = kind]
  /\ toolStartTimes' = toolStartTimes \cup {c}
  /\ toolWatchdogs' = toolWatchdogs \cup (IF Armed(kind) THEN {c} ELSE {})
  /\ bashKills' = bashKills \cup (IF kind = "bash" THEN {c} ELSE {})
  /\ Alive
  /\ UNCHANGED <<phase, session, overdue, interrupting, reloadVars>>

WatchdogsWithout(c) == toolWatchdogs \ {c}

(* tool_execution_end.                                                      *)
ToolEnd(c) ==
  /\ Streaming /\ Running(c)
  /\ state' = [state EXCEPT ![c] = "none"]
  /\ overdue' = overdue \ {c}
  /\ toolStartTimes' = toolStartTimes \ {c}
  /\ toolWatchdogs' = WatchdogsWithout(c)
  /\ bashKills' = bashKills \ {c}
  /\ Alive
  /\ UNCHANGED <<phase, session, interrupting, reloadVars>>

(* Time.                                                                    *)
GrowOverdue(c) ==
  /\ c \in toolWatchdogs \ overdue
  /\ overdue' = overdue \cup {c}
  /\ UNCHANGED <<phase, session, state, toolStartTimes, toolWatchdogs, bashKills,
                 interrupting, quiet, stallNoticed, reloadVars>>

GrowQuiet ==
  /\ Streaming /\ ~quiet
  /\ quiet' = TRUE
  /\ UNCHANGED <<phase, session, state, overdue, toolStartTimes, toolWatchdogs,
                 bashKills, interrupting, stallNoticed, reloadVars>>

(* armToolWatchdog's timer: nothing when the call has ended meanwhile.      *)
WatchdogFires(c) ==
  /\ c \in toolWatchdogs /\ c \in overdue
  /\ toolWatchdogs' = toolWatchdogs \ {c}
  /\ toolStartTimes' = toolStartTimes \ {c}
  /\ interrupting' = (interrupting \/ c \in toolStartTimes)
  /\ UNCHANGED <<phase, session, state, overdue, bashKills, quiet, stallNoticed,
                 reloadVars>>

(* The Stop button.                                                         *)
Stop ==
  /\ Streaming /\ ~interrupting
  /\ interrupting' = TRUE
  /\ UNCHANGED <<phase, session, state, overdue, toolStartTimes, toolWatchdogs,
                 bashKills, quiet, stallNoticed, reloadVars>>

(* abortBash: the commands end, their calls return an error, the run goes on *)
AbortBash ==
  /\ \E c \in bashKills : state[c] = "bash"
  /\ state' = [c \in Call |-> IF c \in bashKills THEN "killed" ELSE state[c]]
  /\ UNCHANGED <<phase, session, overdue, toolStartTimes, toolWatchdogs, bashKills,
                 interrupting, quiet, stallNoticed, reloadVars>>

(* startStallTimer's tick.                                                  *)
StallTick ==
  /\ ~stallNoticed /\ Streaming /\ quiet /\ ~WaitingOnUser
  /\ stallNoticed' = TRUE
  /\ UNCHANGED <<phase, session, state, overdue, toolStartTimes, toolWatchdogs,
                 bashKills, interrupting, quiet, reloadVars>>

(* applyRuntime defers while the reply streams.                             *)
Defers == Streaming

(* applyReload: a reload that fails is reported, and not tried again.       *)
ApplyReload(saved) ==
  \/ loaded' = saved /\ reloadFailed' = FALSE
  \/ UNCHANGED loaded /\ reloadFailed' = TRUE

(* SettingsService.set with a part that needs a reload.                     *)
ChangeSettings ==
  /\ version < MaxChanges
  /\ version' = version + 1
  /\ IF Defers THEN pendingReload' = TRUE /\ UNCHANGED <<loaded, reloadFailed>>
               ELSE ApplyReload(version') /\ UNCHANGED pendingReload
  /\ UNCHANGED <<phase, session, state, overdue, toolStartTimes, toolWatchdogs,
                 bashKills, interrupting, quiet, stallNoticed, stoppedEnd>>

MutForgetsPending(aborted) == FALSE
(* agent_end: the reload that waited, unless the turn was aborted.          *)
AppliesNow(aborted) == pendingReload /\ ~aborted

AgentEnd(aborted) ==
  /\ \A c \in Call : ~Running(c)
  /\ phase' = "idle" /\ stoppedEnd' = aborted
  /\ IF AppliesNow(aborted) THEN ApplyReload(version)
                           ELSE UNCHANGED <<loaded, reloadFailed>>
  /\ pendingReload' = (pendingReload /\ aborted)
  /\ Alive
  /\ UNCHANGED <<session, state, overdue, toolStartTimes, toolWatchdogs, bashKills, version>>

TurnEnds == phase = "streaming" /\ ~interrupting /\ AgentEnd(FALSE) /\ UNCHANGED interrupting

(* interruptRun: the abort stops the tools (their end events come first),   *)
(* then agent_end says aborted.                                             *)
AbortWorks ==
  /\ interrupting /\ phase = "streaming"
  /\ \/ AgentEnd(TRUE) /\ interrupting' = FALSE
     \/ \E c \in Call : ToolEnd(c)

MutKeepsTimers == toolWatchdogs
NoTimers == {}

(* The abort has no effect, or the turn has already ended:                  *)
(* forceResetConversation replaces the session.                             *)
ForceReset ==
  /\ interrupting /\ phase # "streaming"
  /\ session < MaxSessions
  /\ session' = session + 1
  /\ interrupting' = FALSE /\ phase' = "idle" /\ stoppedEnd' = TRUE
  /\ state' = [c \in Call |-> "none"]
  /\ toolStartTimes' = {} /\ toolWatchdogs' = NoTimers
  /\ overdue' = overdue \cap NoTimers
  /\ bashKills' = {}
  /\ loaded' = version /\ reloadFailed' = FALSE
  /\ SameSilence
  /\ UNCHANGED <<version, pendingReload>>

GuardNext ==
  \/ Start \/ GrowQuiet \/ Stop \/ AbortBash \/ StallTick \/ ChangeSettings
  \/ TurnEnds \/ AbortWorks \/ ForceReset
  \/ \E c \in Call : \/ ToolEnd(c) \/ GrowOverdue(c) \/ WatchdogFires(c)
                     \/ \E kind \in Kind : ToolStart(c, kind)

GuardSpec == GuardInit /\ [][GuardNext]_guardVars

-----------------------------------------------------------------------------
(* A call that can hang is guarded as long as it runs: its watchdog is      *)
(* armed, or has fired and the run is being interrupted.                    *)
HungCallsEnd ==
  \A c \in Call : state[c] \in {"bash", "other", "killed"} =>
    c \in toolWatchdogs \/ interrupting

(* The hang guard interrupts the run only for a call that runs in the       *)
(* present session, and never for a question a person thinks about: no      *)
(* timer of an ended call or of a replaced session stops a healthy run.     *)
NoStrayTimers ==
  \A c \in toolWatchdogs : state[c] \in {"bash", "other", "killed"}

(* A turn that ends by itself leaves no settings unapplied, and settings    *)
(* that were not applied are not forgotten: the reload is still pending, or *)
(* it failed and the user was told.                                         *)
SettingsFollow ==
  /\ (phase = "idle" /\ ~stoppedEnd) => (loaded = version \/ reloadFailed)
  /\ loaded # version => (pendingReload \/ reloadFailed)

(* settings-service.ts: "A reply is in progress; settings will apply when   *)
(* it finishes".                                                            *)
SettingsApplyAtEnd == phase = "idle" => (loaded = version \/ reloadFailed)
=============================================================================
