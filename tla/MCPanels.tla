------------------------------ MODULE MCPanels ------------------------------
(***************************************************************************)
(* The panels of the page and what answers them on the server: terminals,  *)
(* settings, previews, usage, notifications, the composer, the message     *)
(* list and its searches.  As in MCRuns a behaviour exercises one part,    *)
(* which its initial state chooses.                                        *)
(***************************************************************************)
EXTENDS Naturals, Sequences, FiniteSets

CONSTANTS
  Terminal, BashTerminal, MaxLive, MaxHistory, MaxSpawns, MaxRequests, \* Terminals
  BashCall, WaitCall, MaxShells, CommandsExit,               \* TerminalBash
  MaxPrinted, MaxOutput, MaxViews,                           \* Terminals
  SettingsTab, Mine, SettingsChat, FirstOpen, MaxSets,       \* SettingsStore
  Project, HomeProject, File, MaxPreviewSteps,               \* FilePreview
  Reader, Account, MaxEntries, MaxReads, MaxSubEvents,       \* Subscriptions
  Page, Event, LedgerSize, MaxAlertSteps,                    \* Alerts
  InputBox, HistoryMax, RecallKeep, MaxComposed, WhileBrowsing, HistoryShrinks,
  BeforeRender,                                              \* Composer
  MaxPrompts, MaxCards,                                      \* Composer
  ClampJump, Reasserts, ImagesLoad, MaxHeight, MaxScrollSteps, \* MessageList
  MaxRows, Margin, Budget, KeepRecent, CollapseMin, Estimate, MaxTall, WheelReach,
  MaxWindowSteps,                                            \* MessageList
  MaxTokens, MaxLines, DoubleBars, BareEscapes,              \* TerminalBash
  Token, Escaped, MaxAdmissions,                             \* Admission
  Query, MaxSearchSteps,                                     \* Searches
  MaxFindSteps,                                              \* Searches
  Chat, Gone, HomeChat, MaxJumpSteps                         \* Alerts

ASSUME PanelsBounds ==
  /\ MaxAdmissions \in Nat /\ {"none", "clear", "keep"} \cap (Token \cup {Escaped}) = {}
  /\ IsFiniteSet(Terminal) /\ MaxLive \in Nat /\ MaxHistory \in Nat \ {0}
  /\ MaxSpawns \in Nat /\ MaxRequests \in Nat
  /\ MaxPrinted \in Nat /\ MaxOutput \in Nat /\ MaxViews \in Nat
  /\ Mine \in SettingsTab /\ FirstOpen \in SettingsChat /\ MaxSets \in Nat
  /\ "none" \notin Page /\ IsFiniteSet(Event) /\ LedgerSize \in Nat /\ MaxAlertSteps \in Nat
  /\ HomeChat \in Chat /\ Gone \notin Chat /\ "none" \notin Chat \cup {Gone}

VARIABLES part,
  terms, terminalsHistory, spawned, terminalsRunning, exits, touched, timers,
  reminder, viewed, mounted, terminalsRequests, lost,
  shell, shells, typed, output, call, cursor, result, watches, sentinelPending, wait,
  told, overlapped,
  printed, pendingOut, onActive, wire, listed, panelOpen, xterm, screen, buffer,
  overflowed, views,
  settingsStore, presets, copy, presetCopy, chosen, showing, exists, replying,
  loadedWith, tools, retries, reloads, unreplayed, reloadPending, stale, sets,
  disk, project, asks, readings, arriving, content, previewOpen, loaded, loading,
  editing, draft, worked, typedText, outOfTurn,
  usageToken, ready, visible, inFlight, usageTimer, usageShown, reads, entries, fresh,
  guarded, unused, subEvents,
  enabled, permission, ledger, lock, lockQueue, stage, announcedTo, toasts, watched,
  switchShown, prompts, testing, storageEvents, intent, alertsCrossed, userSteps,
  composerText, saved, at, composerHistory, recalls, taken, reading, attached,
  composerShown, sent, erased, made,
  transcript, nextTurn, flights, queued, filesRunning, uploads, filesCrossed, origin,
  dropped, prompted,
  height, top, tallComposer, scrollActive, unread, prevTop, prevHeight, stick,
  escaped, stickBottom, grace, rendered, streaming, wasStreaming, pinQueued,
  bottomSnaps, endSnaps, jumping, wheeled, left, placeKept, scrollSteps,
  windowLast, real, measured, known, hidden, pinned, windowExpanded, windowSearching,
  scroll, sweepQueued, plan, afar, cut, windowSteps,
  rule, input,
  admissionToken, cookie, stored, admissionRequests, responses, connected, entered,
  refused, presented, admissions,
  searchOpen, searchQuery, searchTimer, lastReq, pending, searchStore, searchShown,
  uplink, searching, switching, cwd, answers, overtaken, acted,
  findQuery, findText, folded, activeKey, hits, findLast, lastQuery, frame, byReader,
  findExpanded, scrolledTo, finds,
  roster, jumpsActive, up, down, asked, page, url, clicked, jump, landed, gone

(* Hits of a message in its data and in the page: the texts of FindBar.     *)
NoHits == [page |-> 0, data |-> 1]
Counts ==
  {[page |-> 0, data |-> 0], [page |-> 1, data |-> 2], NoHits, [page |-> 2, data |-> 2]}

(* The anchors each chat holds: the chats share no message, so an anchor    *)
(* goes by the name of its chat.                                            *)
Anchor == Chat
Marks == [c \in Chat |-> {c}]

Term == INSTANCE Terminals WITH
            history <- terminalsHistory, running <- terminalsRunning,
            requests <- terminalsRequests
Bash == INSTANCE TerminalBash
Sets == INSTANCE SettingsStore WITH
            store <- settingsStore
Prev == INSTANCE FilePreview WITH
            open <- previewOpen
Usage == INSTANCE Subscriptions WITH
            token <- usageToken, timer <- usageTimer
Alert == INSTANCE Alerts WITH
            crossed <- alertsCrossed, Holds <- Marks, active <- jumpsActive
Comp == INSTANCE Composer WITH
            Box <- InputBox, text <- composerText, history <- composerHistory,
            shown <- composerShown, running <- filesRunning, crossed <- filesCrossed
List == INSTANCE MessageList WITH
            Screen <- 2, active <- scrollActive,
            Viewport <- 1, MaxMessages <- MaxRows, last <- windowLast,
            expanded <- windowExpanded, searchOpen <- windowSearching
Adm == INSTANCE Admission WITH
            Encodes <- {}, AllowedOrigins <- {}, PageOrigin <- "own",
            token <- admissionToken, requests <- admissionRequests
Search == INSTANCE Searches WITH
            open <- searchOpen, query <- searchQuery, timer <- searchTimer,
            store <- searchStore, shown <- searchShown,
            MaxMessages <- 2, Count <- Counts, text <- findText,
            lastHit <- findLast, expanded <- findExpanded

termVars == <<terms, terminalsHistory, spawned, terminalsRunning, exits, touched,
              timers, reminder, viewed, mounted, terminalsRequests, lost>>
bashVars == <<shell, shells, typed, output, call, cursor, result, watches,
              sentinelPending, wait, told, overlapped>>
screenVars == <<printed, pendingOut, onActive, wire, listed, panelOpen, xterm, screen,
                buffer, overflowed, views>>
settingsVars == <<settingsStore, presets, copy, presetCopy, chosen, showing, exists,
                  replying, loadedWith, tools, retries, reloads, unreplayed,
                  reloadPending, stale, sets>>
previewVars == <<disk, project, asks, readings, arriving, content, previewOpen,
                 loaded, loading, editing, draft, worked, typedText, outOfTurn>>
usageVars == <<usageToken, ready, visible, inFlight, usageTimer, usageShown, reads,
               entries, fresh, guarded, unused, subEvents>>
alertVars == <<enabled, permission, ledger, lock, lockQueue, stage, announcedTo,
               toasts, watched, switchShown, prompts, testing, storageEvents, intent,
               alertsCrossed, userSteps>>
composerVars == <<composerText, saved, at, composerHistory, recalls, taken, reading,
                  attached, composerShown, sent, erased, made>>
filesVars == <<transcript, nextTurn, flights, queued, filesRunning, uploads,
               filesCrossed, origin, dropped, prompted>>
scrollVars == <<height, top, tallComposer, scrollActive, unread, prevTop, prevHeight,
                stick, escaped, stickBottom, grace, rendered, streaming, wasStreaming,
                pinQueued, bottomSnaps, endSnaps, jumping, wheeled, left, placeKept,
                scrollSteps>>
windowVars == <<windowLast, real, measured, known, hidden, pinned, windowExpanded,
                windowSearching, scroll, sweepQueued, plan, afar, cut, windowSteps>>
ruleVars == <<rule, input>>
admissionVars == <<admissionToken, cookie, stored, admissionRequests, responses,
                   connected, entered, refused, presented, admissions>>
searchVars == <<searchOpen, searchQuery, searchTimer, lastReq, pending, searchStore,
                searchShown, uplink, searching, switching, cwd, answers, overtaken,
                acted>>
findVars == <<findQuery, findText, folded, activeKey, hits, findLast, lastQuery,
              frame, byReader, findExpanded, scrolledTo, finds>>
jumpVars == <<roster, jumpsActive, up, down, asked, page, url, clicked, jump, landed,
              gone>>

vars == <<part, termVars, bashVars, screenVars, settingsVars, previewVars, usageVars,
           alertVars, composerVars, filesVars, scrollVars, windowVars, ruleVars,
           admissionVars, searchVars, findVars, jumpVars>>

Init ==
  /\ part \in {"terminals", "bash", "screen", "settings", "preview", "usage", "alerts",
              "composer", "files", "scroll", "window", "rules",
              "admission", "search", "find", "jumps"}
  /\ Term!TermInit
  /\ Bash!BashInit
  /\ Term!ScreenInit
  /\ Sets!SettingsInit
  /\ Prev!PreviewInit
  /\ Usage!SubInit
  /\ part # "usage" => usageToken = [r \in Reader |-> CHOOSE a \in Account : TRUE]
  /\ Alert!AlertInit /\ (part # "alerts" => enabled)
  /\ Comp!ComposerInit
  /\ Comp!FilesInit
  /\ List!ScrollInit /\ (part # "scroll" => height = 1)
  /\ List!WindowInit /\ (part # "window" => real = [m \in 1 .. MaxRows |-> 1])
  /\ Bash!RulesInit
  /\ Adm!AdmissionInit /\ (part # "admission" => admissionToken = CHOOSE t \in Token : TRUE)
  /\ Search!SearchInit
  /\ Search!FindInit /\ (part # "find" => findText = <<NoHits>> /\ folded = {})
  /\ Alert!JumpInit /\ (part # "jumps" => roster = {HomeChat} /\ url = "none")

(* The parts a behaviour does not exercise stay as they are.                *)
Rest ==
  /\ part' = part
  /\ IF part = "terminals" THEN TRUE ELSE UNCHANGED termVars
  /\ IF part = "bash" THEN TRUE ELSE UNCHANGED bashVars
  /\ IF part = "screen" THEN TRUE ELSE UNCHANGED screenVars
  /\ IF part = "settings" THEN TRUE ELSE UNCHANGED settingsVars
  /\ IF part = "preview" THEN TRUE ELSE UNCHANGED previewVars
  /\ IF part = "usage" THEN TRUE ELSE UNCHANGED usageVars
  /\ IF part = "alerts" THEN TRUE ELSE UNCHANGED alertVars
  /\ IF part = "composer" THEN TRUE ELSE UNCHANGED composerVars
  /\ IF part = "files" THEN TRUE ELSE UNCHANGED filesVars
  /\ IF part = "scroll" THEN TRUE ELSE UNCHANGED scrollVars
  /\ IF part = "window" THEN TRUE ELSE UNCHANGED windowVars
  /\ IF part = "rules" THEN TRUE ELSE UNCHANGED ruleVars
  /\ IF part = "admission" THEN TRUE ELSE UNCHANGED admissionVars
  /\ IF part = "search" THEN TRUE ELSE UNCHANGED searchVars
  /\ IF part = "find" THEN TRUE ELSE UNCHANGED findVars
  /\ IF part = "jumps" THEN TRUE ELSE UNCHANGED jumpVars

Next ==
  \/ part = "terminals" /\ Term!TermNext /\ Rest
  \/ part = "bash" /\ Bash!BashNext /\ Rest
  \/ part = "screen" /\ Term!ScreenNext /\ Rest
  \/ part = "settings" /\ Sets!SettingsNext /\ Rest
  \/ part = "preview" /\ Prev!PreviewNext /\ Rest
  \/ part = "usage" /\ Usage!SubNext /\ Rest
  \/ part = "alerts" /\ Alert!AlertNext /\ Rest
  \/ part = "composer" /\ Comp!ComposerNext /\ Rest
  \/ part = "files" /\ Comp!FilesNext /\ Rest
  \/ part = "scroll" /\ List!ScrollNext /\ Rest
  \/ part = "window" /\ List!WindowNext /\ Rest
  \/ part = "rules" /\ Bash!RulesNext /\ Rest
  \/ part = "admission" /\ Adm!AdmissionNext /\ Rest
  \/ part = "search" /\ Search!SearchNext /\ Rest
  \/ part = "find" /\ Search!FindNext /\ Rest
  \/ part = "jumps" /\ Alert!JumpNext /\ Rest

Spec == Init /\ [][Next]_vars

-----------------------------------------------------------------------------
(* Terminals: the user sees every process that runs and can stop it, within *)
(* the caps on live and remembered terminals, an idle one is reported to    *)
(* the agent once, and a terminal that is shown misses no output.           *)
TerminalsKept ==
  /\ part = "terminals" => /\ Term!TermTypeOK
                           /\ Term!EveryProcessShown
                           /\ Term!WithinCaps
                           /\ Term!OneReminder
  /\ part = "screen" => /\ Term!ScreenTypeOK
                        /\ Term!NothingMissing

(* TerminalBash: a call of the bash tool returns the exit code of its own   *)
(* command, a command left in the background is announced, no wait outlives *)
(* what it waits for, and the rules by which a command is cut and its       *)
(* output shown keep what they promise.                                     *)
BashAnswers ==
  /\ part = "bash" => /\ Bash!BashTypeOK
                      /\ Bash!CodeOfOwnCommand
                      /\ Bash!BackgroundAnnounced
                      /\ Bash!NobodyWaitsForNothing
  /\ part = "rules" => /\ Bash!RulesTypeOK
                       /\ Bash!CutAtPipes
                       /\ Bash!SearchShowsHits
                       /\ Bash!CutsAddUp
                       /\ Bash!KeysDiffer
                       /\ Bash!ShellThere
                       /\ Bash!OutputOnly

(* SettingsStore: what the user set, the retry count and the tools he       *)
(* switched off, is in effect in every open chat, across reloads that       *)
(* overlap or fail.                                                         *)
SettingsSurvive ==
  part = "settings" => /\ Sets!SettingsTypeOK
                       /\ Sets!RetryOverrideHolds
                       /\ Sets!ToolsStayGated

(* FilePreview and Subscriptions: an answer does not overwrite what was     *)
(* typed, a saved file is shown as it was saved, a page shows the usage of  *)
(* its own account, from one request at a time, keeps polling, and no       *)
(* service is disposed while it is read.                                    *)
PanelsTellTruth ==
  /\ part = "preview" => /\ Prev!PreviewTypeOK
                         /\ Prev!DraftKept
                         /\ Prev!ShownIsSaved
  /\ part = "usage" => /\ Usage!SubTypeOK
                       /\ Usage!OwnUsage
                       /\ Usage!PollingGoesOn
                       /\ Usage!OneRequestCounts
                       /\ Usage!CacheKept

(* Alerts: one tab shows an event, none over a tab that is looked at, the   *)
(* switch is as the user chose last; a click on a toast, the address of a   *)
(* chat and a hit of the search lead to their chat.                         *)
NotificationsLead ==
  /\ [](part = "alerts" => /\ Alert!AlertTypeOK
                           /\ Alert!ShownOnce
                           /\ Alert!StrictGate
                           /\ Alert!LastChoiceHolds)
  /\ [](part = "jumps" => /\ Alert!JumpTypeOK
                          /\ Alert!ClickNotForgotten
                          /\ Alert!JumpIsSeen)
  /\ Alert!AddressHonoured

(* Composer: what was written is in the box, in its history or sent, once,  *)
(* a file goes with one message, and its card stands behind the question it *)
(* was attached to, after an edit of the question, too.                     *)
WritingIsKept ==
  /\ part = "composer" => /\ Comp!ComposerTypeOK
                          /\ Comp!ShowsEntries
                          /\ Comp!NothingLost
                          /\ Comp!NoWordTwice
                          /\ Comp!FileInOneMessage
                          /\ Comp!NoTwins
  /\ part = "files" => /\ Comp!FilesTypeOK
                       /\ Comp!CardsFollow
                       /\ Comp!EditKeepsFiles

(* MessageList: nobody pulls a reader down who went up, one at the end      *)
(* stays there, a list shown again stands where it was left, a swap of      *)
(* rows does not move what is looked at, and nothing on screen stays a      *)
(* placeholder.                                                             *)
ReaderIsLeftAlone ==
  /\ [](part = "scroll" => List!ScrollTypeOK /\ List!EndInView)
  /\ [](part = "window" => List!WindowTypeOK /\ List!InViewIsShown)
  /\ List!LeftAlone
  /\ List!PlaceReturns
  /\ List!ReaderStays

(* Searches: no hit of another query stays on the panel, a query ends with  *)
(* its hits; the current hit of a chat is in the page, the folded message   *)
(* that holds it is unfolded, and an answer being written leaves the view   *)
(* alone.                                                                   *)
SearchesAnswer ==
  /\ [](part = "search" => /\ Search!SearchTypeOK
                           /\ Search!NoOtherQuery
                           /\ Search!QueryIsAnswered)
  /\ [](part = "find" => Search!FindTypeOK /\ Search!ActiveIsShown)
  /\ Search!UnfoldsTheHit
  /\ Search!ViewStays

(* Admission: who entered once needs the token no more, and nobody has a    *)
(* cookie who did not show it.                                              *)
TokenAdmits ==
  part = "admission" => /\ Adm!AdmissionTypeOK
                        /\ Adm!OneEntryIsEnough
                        /\ Adm!CookieEarned
=============================================================================
