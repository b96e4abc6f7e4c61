--------------------------- MODULE SettingsStore ---------------------------
(***************************************************************************)
(* The settings panel: the configuration that all tabs share in            *)
(* ClientStateStore, the copy of it each tab's SettingsService works on,   *)
(* and how a change reaches the sessions of a tab's chats: tools are gated *)
(* in the active session, the retry count is injected in all of them, and  *)
(* prompt and skills need a reload, which waits for the reply to finish.   *)
(* Of the tools there are those of the terminal group and the question     *)
(* tool, whose switch is kept twice: in disabledAgentTools (off) and as    *)
(* the older alias questionnaireEnabled (ask).                             *)
(***************************************************************************)
EXTENDS Naturals, FiniteSets

CONSTANTS
  SettingsTab,   \* tabs with a SettingsService
  Mine,          \* the tab whose chats are followed
  SettingsChat,  \* its chats
  FirstOpen,     \* the chat it shows first
  MaxSets        \* bound: changes and presets saved or applied

VARIABLES
  store,         \* settings in client-state.json
  presets,       \* the one named preset there: saved settings or NoPreset
  copy,          \* SettingsTab -> SettingsService.settings
  presetCopy,    \* SettingsTab -> SettingsService.presets
  chosen,        \* what the users chose last, in whichever tab
  showing,       \* the active chat
  exists,        \* chats with a session
  replying,      \* chats whose session streams
  loadedWith,    \* chat -> skills its session was loaded with
  tools,         \* chat -> tools active in its session
  retries,       \* chat -> maxRetries of its session
  reloads,       \* sessions in session.reload()
  unreplayed,    \* sessions whose reload failed: the overrides are lost
  reloadPending, \* SettingsService.pendingReload
  stale,         \* chats not reached by a change of tools or skills
  sets

settingsVars == <<store, presets, copy, presetCopy, chosen, showing, exists, replying,
                  loadedWith, tools, retries, reloads, unreplayed, reloadPending, stale,
                  sets>>

Tool == {"terminal", "question"}
Settings == [skills : 0 .. 1, off : SUBSET Tool, ask : BOOLEAN, retry : 0 .. 1]
NoPreset == [saved |-> FALSE, skills |-> 0, off |-> {}, retry |-> 0]
Preset == [saved : BOOLEAN, skills : 0 .. 1, off : SUBSET Tool, retry : 0 .. 1]

SettingsTypeOK ==
  /\ store \in Settings /\ chosen \in Settings /\ presets \in Preset
  /\ copy \in [SettingsTab -> Settings] /\ presetCopy \in [SettingsTab -> Preset]
  /\ showing \in exists /\ replying \subseteq exists /\ exists \subseteq SettingsChat
  /\ loadedWith \in [SettingsChat -> 0 .. 1] /\ retries \in [SettingsChat -> 0 .. 1]
  /\ tools \in [SettingsChat -> SUBSET Tool]
  /\ reloads \cup stale \cup unreplayed \subseteq exists /\ reloadPending \in BOOLEAN
  /\ sets \in 0 .. MaxSets

Default == [skills |-> 0, off |-> {"terminal"}, ask |-> TRUE, retry |-> 0]

SettingsInit ==
  /\ store = Default /\ presets = NoPreset /\ chosen = Default
  /\ copy = [t \in SettingsTab |-> Default]
  /\ presetCopy = [t \in SettingsTab |-> NoPreset]
  /\ showing = FirstOpen /\ exists = {FirstOpen} /\ replying = {}
  /\ loadedWith = [x \in SettingsChat |-> 0] /\ retries = [x \in SettingsChat |-> 0]
  /\ tools = [x \in SettingsChat |-> IF x = FirstOpen THEN {"question"} ELSE {}]
  /\ reloads = {} /\ unreplayed = {} /\ reloadPending = FALSE /\ stale = {}
  /\ sets = 0

-----------------------------------------------------------------------------
(* deriveLegacy: the alias as the list has it.                              *)
AskIn(off) == "question" \notin off
(* effectiveDisabledAgentTools: the list, and the alias when it says no.    *)
Effective(s) == s.off \cup (IF s.ask THEN {} ELSE {"question"})
(* What push shows of the question tool: derived from the list alone.       *)
PanelShows(s) == Tool \ s.off

(* applyAgentToolsGating replays every tool of the catalog.                 *)
Gated(s) == Tool \ Effective(s)

MutActiveOnly(s) == [x \in SettingsChat |-> IF x = showing THEN s.retry ELSE retries[x]]
(* applyRetryOverrides, in all sessions.                                    *)
Overrides(s) == [x \in SettingsChat |-> IF x \in exists THEN s.retry ELSE retries[x]]

(* The retry count injected, or not, in all sessions; then applyRuntime     *)
(* when the change needs a reload of the active session: at once, unless    *)
(* its reply streams; then when a reply has ended.  What a session reads    *)
(* from the disk again lacks the override.  Overlapping reloads of a session*)
(* count as one, which ends with the last.                                  *)
Apply(s, injects, needsReload, streaming) ==
  LET injected == IF injects THEN Overrides(s) ELSE retries
      now == needsReload /\ showing \notin streaming IN
  /\ reloads' = IF now THEN reloads \cup {showing} ELSE reloads
  /\ retries' = IF now THEN [injected EXCEPT ![showing] = 0] ELSE injected
  /\ unreplayed' = IF injects THEN {} ELSE unreplayed
  /\ reloadPending' = IF needsReload THEN showing \in streaming ELSE reloadPending

(* A tab's settings are saved whole; those of Mine reach its sessions.      *)
Save(t, s, toolsChanged, injects, needsReload) ==
  /\ copy' = [copy EXCEPT ![t] = s]
  /\ store' = s
  /\ IF t = Mine
     THEN /\ tools' = IF toolsChanged THEN [tools EXCEPT ![showing] = Gated(s)] ELSE tools
          /\ stale' = IF toolsChanged THEN stale \cup (exists \ {showing}) ELSE stale
          /\ Apply(s, injects, needsReload, replying)
     ELSE UNCHANGED <<retries, tools, stale, reloads, unreplayed, reloadPending>>

(* SettingsService.set with one of its parts.                               *)
Set(t, s, toolsChanged, injects, needsReload) ==
  /\ sets < MaxSets /\ sets' = sets + 1
  /\ Save(t, s, toolsChanged, injects, needsReload)
  /\ UNCHANGED <<presets, presetCopy, showing, exists, replying, loadedWith>>

SetSkills(t) ==
  /\ Set(t, [copy[t] EXCEPT !.skills = 1 - @], FALSE, FALSE, TRUE)
  /\ chosen' = [chosen EXCEPT !.skills = 1 - copy[t].skills]
SetRetry(t) ==
  /\ Set(t, [copy[t] EXCEPT !.retry = 1 - @], FALSE, TRUE, FALSE)
  /\ chosen' = [chosen EXCEPT !.retry = 1 - copy[t].retry]
(* The switch of a tool writes the list; the alias is derived again.        *)
SetTool(t, tool) ==
  LET off == IF tool \in copy[t].off THEN copy[t].off \ {tool} ELSE copy[t].off \cup {tool} IN
  /\ Set(t, [copy[t] EXCEPT !.off = off, !.ask = AskIn(off)], TRUE, FALSE, FALSE)
  /\ chosen' = [chosen EXCEPT !.off = off, !.ask = AskIn(off)]

SavePresets(t, p) ==
  /\ sets < MaxSets /\ sets' = sets + 1
  /\ presets' = p /\ presetCopy' = [presetCopy EXCEPT ![t] = p]
  /\ UNCHANGED <<store, copy, chosen, showing, exists, replying, loadedWith, tools,
                 retries, reloads, unreplayed, reloadPending, stale>>
SavePreset(t) ==
  SavePresets(t, [saved |-> TRUE, skills |-> copy[t].skills, off |-> copy[t].off,
                  retry |-> copy[t].retry])
DeletePreset(t) == presetCopy[t].saved /\ SavePresets(t, NoPreset)

(* The preset's list with the current alias.                                *)
ApplyPreset(t) ==
  /\ presetCopy[t].saved
  /\ LET p == presetCopy[t]
         s == [skills |-> p.skills, off |-> p.off, ask |-> copy[t].ask, retry |-> p.retry] IN
       Set(t, s, TRUE, TRUE, TRUE) /\ chosen' = s

-----------------------------------------------------------------------------
(* A session reads its tools and skills when it is created, and bindSession *)
(* injects the retry count in all.                                          *)
OpenChat(x) ==
  /\ x \notin exists
  /\ exists' = exists \cup {x} /\ showing' = x
  /\ loadedWith' = [loadedWith EXCEPT ![x] = copy[Mine].skills]
  /\ tools' = [tools EXCEPT ![x] = Gated(copy[Mine])]
  /\ retries' = [Overrides(copy[Mine]) EXCEPT ![x] = copy[Mine].retry]
  /\ unreplayed' = {}
  /\ UNCHANGED <<store, presets, copy, presetCopy, chosen, replying, reloads,
                 reloadPending, stale, sets>>

ShowChat(x) ==
  /\ x \in exists \ {showing}
  /\ showing' = x
  /\ retries' = Overrides(copy[Mine]) /\ unreplayed' = {}
  /\ UNCHANGED <<store, presets, copy, presetCopy, chosen, exists, replying, loadedWith,
                 tools, reloads, reloadPending, stale, sets>>

Reply(x) ==
  /\ x \in exists \ replying
  /\ replying' = replying \cup {x}
  /\ UNCHANGED <<store, presets, copy, presetCopy, chosen, showing, exists, loadedWith,
                 tools, retries, reloads, unreplayed, reloadPending, stale, sets>>

(* agent_end of any chat that was not aborted applies a reload that waits,  *)
(* to the active one.                                                       *)
ReplyEnds(x, aborted) ==
  /\ x \in replying
  /\ replying' = replying \ {x}
  /\ Apply(copy[Mine], FALSE, reloadPending /\ ~aborted, replying')
  /\ UNCHANGED <<store, presets, copy, presetCopy, chosen, showing, exists, loadedWith,
                 tools, stale, sets>>

MutNoReplay(x) == [retries EXCEPT ![x] = 0]
(* Overrides are replayed after a reload, which reads the disk's again.     *)
AfterReload(x) == Overrides(copy[Mine])

MutUngates(x) == [tools EXCEPT ![x] = Tool]
(* The reload put every custom tool back; the gates are replayed.           *)
GatesAfterReload(x) == [[tools EXCEPT ![x] = Tool] EXCEPT ![showing] = Gated(copy[Mine])]

(* session.reload() has ended: its session has the skills of the settings,  *)
(* and the overrides are replayed, the gates in the session active by now.  *)
ReloadEnds(x) ==
  /\ x \in reloads
  /\ reloads' = reloads \ {x}
  /\ loadedWith' = [loadedWith EXCEPT ![x] = copy[Mine].skills]
  /\ retries' = AfterReload(x) /\ unreplayed' = {}
  /\ tools' = GatesAfterReload(x)
  /\ stale' = IF showing = x THEN stale \ {x} ELSE (stale \ {showing}) \cup {x}
  /\ UNCHANGED <<store, presets, copy, presetCopy, chosen, showing, exists, replying,
                 reloadPending, sets>>

(* It throws after reading the disk's settings: nothing is replayed.        *)
ReloadFails(x) ==
  /\ x \in reloads
  /\ reloads' = reloads \ {x} /\ unreplayed' = unreplayed \cup {x}
  /\ stale' = stale \cup {x}
  /\ UNCHANGED <<store, presets, copy, presetCopy, chosen, showing, exists, replying,
                 loadedWith, tools, retries, reloadPending, sets>>

(* The process restarts: every tab reads the settings of the store.         *)
SettingsRestart ==
  /\ copy' = [t \in SettingsTab |-> [store EXCEPT !.ask = AskIn(store.off)]]
  /\ presetCopy' = [t \in SettingsTab |-> presets]
  /\ exists' = {showing} /\ replying' = {} /\ reloads' = {} /\ reloadPending' = FALSE
  /\ unreplayed' = {}
  /\ loadedWith' = [loadedWith EXCEPT ![showing] = store.skills]
  /\ tools' = [tools EXCEPT ![showing] = Gated(copy'[Mine])]
  /\ retries' = [retries EXCEPT ![showing] = store.retry]
  /\ stale' = {}
  /\ UNCHANGED <<store, presets, chosen, showing, sets>>

SettingsNext ==
  \/ \E t \in SettingsTab : \/ SetSkills(t) \/ SetRetry(t) \/ SavePreset(t)
                            \/ DeletePreset(t) \/ ApplyPreset(t)
                            \/ \E tool \in Tool : SetTool(t, tool)
  \/ \E x \in SettingsChat : \/ OpenChat(x) \/ ShowChat(x) \/ Reply(x) \/ ReplyEnds(x, TRUE)
                             \/ ReplyEnds(x, FALSE) \/ ReloadEnds(x) \/ ReloadFails(x)
  \/ SettingsRestart

-----------------------------------------------------------------------------
(* Every session of a tab retries as often as its panel says, whatever      *)
(* chats are opened, switched to and reloaded, unless its reload failed     *)
(* (applyRetryOverrides and its replays).                                   *)
RetryOverrideHolds ==
  \A x \in exists \ (reloads \cup unreplayed) : retries[x] = copy[Mine].retry

(* A tool the user switched off is off in every session the last change     *)
(* reached: the active one at once, and still after its reload             *)
(* (applyToolGating and its replays).                                       *)
ToolsStayGated ==
  \A x \in exists \ (reloads \cup stale) : tools[x] = Gated(copy[Mine])

(* The switches work live (ClientSettings.disabledAgentTools), in every     *)
(* chat.                                                                    *)
ToolsGatedEverywhere ==
  \A x \in exists : x \notin reloads => tools[x] = Gated(copy[Mine])

(* All tabs share one configuration (GLOBAL_SETTINGS_KEY): what was chosen  *)
(* last is what is stored, of every setting.                                *)
OneConfiguration ==
  store = chosen

(* The panel shows the tools that are in effect.                            *)
PanelIsTrue == \A t \in SettingsTab : PanelShows(copy[t]) = Gated(copy[t])

(* Every idle chat works with the skills of the panel, once nothing is      *)
(* pending.                                                                 *)
SkillsFollowEverywhere ==
  reloadPending \/ reloads # {} \/ replying # {} \/
    \A x \in exists : loadedWith[x] = copy[Mine].skills
=============================================================================
