----------------------------- MODULE Terminals -----------------------------
(***************************************************************************)
(* The terminals of one conversation: TerminalManager, which owns a PTY    *)
(* per terminal and keeps what an exited one printed, and the terminal     *)
(* panel of a browser tab, whose xterms ask for their terminal when they   *)
(* are mounted.  A PTY is named by the order in which it was spawned.      *)
(*                                                                         *)
(* The second half of the module follows what one terminal prints, on its  *)
(* way to the xterm of a tab.  The halves share no variable.               *)
(***************************************************************************)
EXTENDS Naturals, Sequences, FiniteSets, SequencesExt

CONSTANTS
  Terminal,      \* terminal ids: the user's and those of the agent's tools
  BashTerminal,  \* those the bash tool opens, which do not count for the cap
  MaxLive,       \* MAX_TERMINALS
  MaxHistory,    \* MAX_TERMINAL_HISTORY
  MaxSpawns,     \* bound: PTYs spawned
  MaxRequests    \* bound: requests of the tab on their way

VARIABLES
  terms,         \* TerminalManager.terms: the live entries
  history,       \* TerminalManager.history, oldest first
  spawned,       \* PTYs spawned so far
  running,       \* processes that run
  exits,         \* exit events on their way to onExit
  touched,       \* agentTouched, by PTY
  timers,        \* idleTimer set, by PTY
  reminder,      \* "none", "due" since the agent touched it, "sent", "again"
  viewed,        \* the tab shows this conversation
  mounted,       \* terminals with an xterm
  requests,      \* messages of the tab not handled yet
  lost           \* PTYs whose process or output went because of a mount

termVars == <<terms, history, spawned, running, exits, touched, timers, reminder,
              viewed, mounted, requests, lost>>

Pty == 1 .. MaxSpawns
None == [pty |-> 0, command |-> FALSE, agentBash |-> FALSE]
Live == {id \in Terminal : terms[id] # None}
Kept == {h.id : h \in ToSet(history)}
Listed == Live \cup Kept
EntryOf(id) == IF id \in Live THEN terms[id]
               ELSE (CHOOSE h \in ToSet(history) : h.id = id).entry

TermTypeOK ==
  /\ terms \in [Terminal -> [pty : 0 .. MaxSpawns, command : BOOLEAN, agentBash : BOOLEAN]]
  /\ Len(history) <= MaxHistory /\ Cardinality(Kept) = Len(history)
  /\ Live \cap Kept = {}
  /\ spawned \in 0 .. MaxSpawns
  /\ running \cup exits \cup touched \cup timers \subseteq 1 .. spawned
  /\ reminder \in [Pty -> {"none", "due", "sent", "again"}]
  /\ viewed \in BOOLEAN /\ mounted \subseteq Terminal
  /\ Len(requests) <= MaxRequests

TermInit ==
  /\ terms = [id \in Terminal |-> None]
  /\ history = <<>> /\ spawned = 0 /\ running = {} /\ exits = {}
  /\ touched = {} /\ timers = {} /\ reminder = [p \in Pty |-> "none"]
  /\ viewed = TRUE /\ mounted = {} /\ requests = <<>> /\ lost = {}

-----------------------------------------------------------------------------
MutCountsHistory(id, agentBash) ==
  \/ id \in Listed \/ agentBash
  \/ Cardinality({i \in Live : ~terms[i].agentBash}) < MaxLive

(* The admission rule of every spawn: an exited terminal has no slot.       *)
EnsureSpawnAllowed(id, agentBash) ==
  \/ id \in Live
  \/ agentBash
  \/ Cardinality({i \in Live : ~terms[i].agentBash}) < MaxLive

MutRemembers(id) == history
Forget(id) ==
  IF id \in Kept
  THEN RemoveAt(history, CHOOSE i \in DOMAIN history : history[i].id = id)
  ELSE history

(* A new PTY under this id; the output of an exited one is dropped.         *)
Spawn(id, command, agentBash, why) ==
  LET p == spawned + 1 IN
  /\ spawned' = p
  /\ running' = (running \ {terms[id].pty}) \cup {p}
  /\ exits' = IF terms[id].pty \in running THEN exits \cup {terms[id].pty} ELSE exits
  /\ terms' = [terms EXCEPT ![id] = [pty |-> p, command |-> command,
                                     agentBash |-> agentBash]]
  /\ history' = Forget(id)
  /\ lost' = IF id \in Listed /\ why = "mount" THEN lost \cup {EntryOf(id).pty} ELSE lost

(* terminal_create: a live terminal of that name is returned as it is.      *)
Create(id, agentBash, why) ==
  IF id \in Live \/ ~EnsureSpawnAllowed(id, agentBash) \/ spawned = MaxSpawns
  THEN UNCHANGED <<terms, history, spawned, running, exits, lost>>
  ELSE Spawn(id, FALSE, agentBash, why)

MutKeepsOldProcess(id, why) ==
  IF EnsureSpawnAllowed(id, FALSE) /\ spawned < MaxSpawns
  THEN /\ spawned' = spawned + 1
       /\ running' = running \cup {spawned + 1}
       /\ exits' = exits
       /\ terms' = [terms EXCEPT ![id] = [pty |-> spawned + 1, command |-> TRUE,
                                          agentBash |-> FALSE]]
       /\ history' = Forget(id)
       /\ lost' = lost
  ELSE UNCHANGED <<terms, history, spawned, running, exits, lost>>

(* run_command: a live terminal is restarted in place, its process killed.  *)
RunCommand(id, why) ==
  IF EnsureSpawnAllowed(id, FALSE) /\ spawned < MaxSpawns
  THEN Spawn(id, TRUE, FALSE, why)
  ELSE UNCHANGED <<terms, history, spawned, running, exits, lost>>

(* The panel shows what the list names: the xterm of a terminal that left   *)
(* it is unmounted.                                                         *)
StillMounted == mounted' = mounted \cap (Live \cup Kept)'

-----------------------------------------------------------------------------
(* The "+" of the panel, or a command of the project's list in a new tab.   *)
OpenTab(id, command) ==
  /\ viewed /\ id \notin Listed \cup mounted \cup BashTerminal
  /\ Len(requests) < MaxRequests
  /\ mounted' = mounted \cup {id}
  /\ requests' = Append(requests, [id |-> id, run |-> command, by |-> "user"])
  /\ UNCHANGED <<terms, history, spawned, running, exits, touched, timers, reminder,
                 viewed, lost>>

(* A command whose tab is open is run again in it.                          *)
Rerun(id) ==
  /\ viewed /\ id \in Listed /\ EntryOf(id).command
  /\ Len(requests) < MaxRequests
  /\ requests' = Append(requests, [id |-> id, run |-> TRUE, by |-> "user"])
  /\ UNCHANGED <<terms, history, spawned, running, exits, touched, timers, reminder,
                 viewed, mounted, lost>>

(* A terminal of the list gets its xterm, which asks for the terminal it    *)
(* shows: the effect of TermXterm runs the command of the entry again, or   *)
(* creates the shell.                                                       *)
Mount(id) ==
  /\ viewed /\ id \in Listed \ mounted
  /\ Len(requests) < MaxRequests
  /\ mounted' = mounted \cup {id}
  /\ requests' = Append(requests, [id |-> id, run |-> EntryOf(id).command,
                                   by |-> "mount"])
  /\ UNCHANGED <<terms, history, spawned, running, exits, touched, timers, reminder,
                 viewed, lost>>

(* The user looks at another conversation, or at this one again.            *)
ChangeView ==
  /\ viewed' = ~viewed
  /\ mounted' = {}
  /\ UNCHANGED <<terms, history, spawned, running, exits, touched, timers, reminder,
                 requests, lost>>

(* The server handles the oldest request of the tab.                        *)
Handle ==
  /\ requests # <<>>
  /\ LET r == Head(requests) IN
       IF r.run THEN RunCommand(r.id, r.by) ELSE Create(r.id, FALSE, r.by)
  /\ requests' = Tail(requests)
  /\ UNCHANGED <<mounted, touched, timers, reminder, viewed>>

(* The bash tool opens its terminal: bash, whatever the user's cap.         *)
BashOpens(id) ==
  /\ id \in BashTerminal
  /\ spawned < MaxSpawns
  /\ Create(id, TRUE, "agent")
  /\ timers' = timers \ {terms[id].pty}           \* suspendIdleWatch
  /\ UNCHANGED <<touched, reminder, viewed, mounted, requests>>

(* noteAgentActivity: a tool of the agent touched the terminal and begins   *)
(* a new epoch of silence.                                                  *)
Touch(p) ==
  /\ touched' = touched \cup {p}
  /\ timers' = timers \cup {p}
  /\ reminder' = [reminder EXCEPT ![p] = IF @ = "again" THEN @ ELSE "due"]

(* The agent's terminal_create.                                             *)
AgentCreates(id) ==
  /\ id \notin BashTerminal
  /\ id \in Live \/ (spawned < MaxSpawns /\ EnsureSpawnAllowed(id, FALSE))
  /\ Create(id, FALSE, "agent")
  /\ Touch(terms'[id].pty)
  /\ UNCHANGED <<viewed, mounted, requests>>

(* terminal_input and terminal_key of the agent.                            *)
AgentTypes(id) ==
  /\ id \in Live
  /\ Touch(terms[id].pty)
  /\ UNCHANGED <<terms, history, spawned, running, exits, viewed, mounted, requests, lost>>

MutStaysArmed(p) ==
  /\ p \in timers
  /\ reminder' = IF \E id \in Live : terms[id].pty = p
                 THEN [reminder EXCEPT ![p] = IF @ = "due" THEN "sent" ELSE "again"]
                 ELSE reminder
  /\ UNCHANGED <<terms, history, spawned, running, exits, touched, timers, viewed,
                 mounted, requests, lost>>

(* The watchdog of a silent terminal: once in an epoch, and not for an      *)
(* entry that is gone or replaced.                                          *)
IdleFires(p) ==
  /\ p \in timers
  /\ timers' = timers \ {p}
  /\ IF \E id \in Live : terms[id].pty = p
     THEN /\ touched' = touched \ {p}
          /\ reminder' = [reminder EXCEPT ![p] = IF @ = "due" THEN "sent" ELSE "again"]
     ELSE UNCHANGED <<touched, reminder>>
  /\ UNCHANGED <<terms, history, spawned, running, exits, viewed, mounted, requests, lost>>

(* A process ends by itself.                                                *)
ProcessEnds(p) ==
  /\ p \in running
  /\ running' = running \ {p}
  /\ exits' = exits \cup {p}
  /\ UNCHANGED <<terms, history, spawned, touched, timers, reminder, viewed, mounted,
                 requests, lost>>

(* The history gives up its oldest entries to stay below its bound.         *)
Evicted == SubSeq(history, 1, Len(history) + 1 - MaxHistory)

(* onExit: the entry moves to the history, unless the PTY was replaced.     *)
OnExit(p) ==
  /\ p \in exits
  /\ exits' = exits \ {p}
  /\ IF \E id \in Live : terms[id].pty = p
     THEN LET id == CHOOSE i \in Live : terms[i].pty = p IN
          /\ terms' = [terms EXCEPT ![id] = None]
          /\ history' = Append(SubSeq(history, Len(Evicted) + 1, Len(history)),
                               [id |-> id, entry |-> terms[id]])
          /\ touched' = touched \ {p} /\ timers' = timers \ {p}
     ELSE UNCHANGED <<terms, history, touched, timers>>
  /\ StillMounted
  /\ UNCHANGED <<spawned, running, reminder, viewed, requests, lost>>

(* terminal_kill of a closed tab, or terminal_close of the agent.           *)
Kill(id) ==
  /\ id \in Listed
  /\ LET p == EntryOf(id).pty IN
       /\ terms' = [terms EXCEPT ![id] = None]
       /\ history' = Forget(id)
       /\ running' = running \ {p}
       /\ exits' = IF p \in running THEN exits \cup {p} ELSE exits
       /\ touched' = touched \ {p} /\ timers' = timers \ {p}
  /\ StillMounted
  /\ UNCHANGED <<spawned, reminder, viewed, requests, lost>>

(* killAll: the conversation is disposed of.                                *)
KillAll ==
  /\ Live # {}
  /\ exits' = exits \cup (running \cap {terms[id].pty : id \in Live})
  /\ running' = running \ {terms[id].pty : id \in Live}
  /\ touched' = {} /\ timers' = timers \ {terms[id].pty : id \in Live}
  /\ terms' = [id \in Terminal |-> None] /\ history' = <<>>
  /\ mounted' = {}
  /\ UNCHANGED <<spawned, reminder, viewed, requests, lost>>

TermNext ==
  \/ \E id \in Terminal : \/ OpenTab(id, TRUE) \/ OpenTab(id, FALSE) \/ Rerun(id)
                          \/ Mount(id) \/ Kill(id) \/ BashOpens(id)
                          \/ AgentCreates(id) \/ AgentTypes(id)
  \/ \E p \in Pty : ProcessEnds(p) \/ OnExit(p) \/ IdleFires(p)
  \/ ChangeView \/ Handle \/ KillAll

-----------------------------------------------------------------------------
(* No process runs that no terminal shows, and a live entry has a process   *)
(* or the event of its end: a restart kills what it replaces, and the late  *)
(* exit of a replaced PTY does not end the new one (spawnShell's closures). *)
EveryProcessShown ==
  /\ \A p \in running : \E id \in Live : terms[id].pty = p
  /\ \A id \in Live : terms[id].pty \in running \cup exits

(* The user's live terminals stay within the cap and the exited ones within *)
(* the history, whatever sequence of creating, exiting, reviving by an id   *)
(* of the history, and restarting (ensureSpawnAllowed).                     *)
WithinCaps ==
  /\ Cardinality({id \in Live : ~terms[id].agentBash}) <= MaxLive
  /\ Len(history) <= MaxHistory

(* The agent is reminded of a silent terminal at most once for each time it *)
(* touched it, restarts and late timers included (noteAgentActivity).       *)
OneReminder == \A p \in Pty : reminder[p] # "again"

(* The panel only looks: what a terminal printed, and a process that runs   *)
(* in it, go when somebody closes or reruns the terminal, or when it is     *)
(* evicted, never because its xterm was mounted again (the comment of       *)
(* TermXterm's cleanup says the PTY is persistent).                         *)
LookingIsHarmless == lost = {}

-----------------------------------------------------------------------------
(***************************************************************************)
(* How what a terminal prints reaches the xterm of a tab: the coalescing   *)
(* window and the retained output of TerminalManager, the filter and the   *)
(* replay of ClientSession, the socket, and the bridge of the tab, which   *)
(* buffers for an xterm that is not mounted.  Output is a run of numbered  *)
(* chunks.                                                                 *)
(***************************************************************************)
CONSTANTS
  MaxPrinted,    \* bound: chunks printed
  MaxOutput,     \* MAX_OUTPUT, and MAX_TERM_BUFFER of the tab, in chunks
  MaxViews       \* bound: conversation switches and reconnects

VARIABLES
  printed,       \* chunks printed so far
  pendingOut,    \* how many of the last ones the coalescing window holds
  onActive,      \* the conversation of the terminal is the active one
  wire,          \* messages on their way to the tab
  listed,        \* the tab's list of terminals names it
  panelOpen,     \* the bottom panel was opened once: it stays mounted
  xterm,         \* the xterm is mounted
  screen,        \* what was written to it
  buffer,        \* what the bridge holds for it
  overflowed,    \* the bridge dropped output
  views

screenVars == <<printed, pendingOut, onActive, wire, listed, panelOpen, xterm, screen,
                buffer, overflowed, views>>

Chunk(m, n) == [i \in 1 .. (n + 1 - m) |-> m - 1 + i]
Retained == Chunk(IF printed > MaxOutput THEN printed + 1 - MaxOutput ELSE 1, printed)

ScreenTypeOK ==
  /\ printed \in 0 .. MaxPrinted /\ pendingOut \in 0 .. printed
  /\ {onActive, listed, panelOpen, xterm, overflowed} \subseteq BOOLEAN
  /\ xterm => listed /\ panelOpen
  /\ ToSet(screen) \cup ToSet(buffer) \subseteq 1 .. printed
  /\ xterm => buffer = <<>>
  /\ views \in 0 .. MaxViews

ScreenInit ==
  /\ printed = 0 /\ pendingOut = 0 /\ onActive = TRUE /\ wire = <<>>
  /\ listed = TRUE /\ panelOpen = FALSE /\ xterm = FALSE
  /\ screen = <<>> /\ buffer = <<>> /\ overflowed = FALSE /\ views = 0

-----------------------------------------------------------------------------
(* onData: the output is kept, and queued for the coalescing window.        *)
PtyPrints ==
  /\ printed < MaxPrinted
  /\ printed' = printed + 1 /\ pendingOut' = pendingOut + 1
  /\ UNCHANGED <<onActive, wire, listed, panelOpen, xterm, screen, buffer, overflowed, views>>

(* The window ends: emitTerminal drops the output of another conversation.  *)
FlushPending ==
  /\ pendingOut > 0
  /\ pendingOut' = 0
  /\ wire' = IF onActive
             THEN Append(wire, [type |-> "output",
                                data |-> Chunk(printed + 1 - pendingOut, printed)])
             ELSE wire
  /\ UNCHANGED <<printed, onActive, listed, panelOpen, xterm, screen, buffer, overflowed, views>>

MutReplaysPending ==
  <<[type |-> "list", data |-> <<>>],
    [type |-> "output", data |-> Chunk(printed + 1 - pendingOut, printed)]>>

(* pushTerminals: the list, then all that is retained.                      *)
PushTerminals ==
  <<[type |-> "list", data |-> <<>>], [type |-> "output", data |-> Retained]>>

(* The user switches to another conversation, whose list the tab gets.      *)
SwitchAway ==
  /\ onActive /\ views < MaxViews
  /\ onActive' = FALSE /\ views' = views + 1
  /\ wire' = Append(wire, [type |-> "other", data |-> <<>>])
  /\ UNCHANGED <<printed, pendingOut, listed, panelOpen, xterm, screen, buffer, overflowed>>

SwitchBack ==
  /\ ~onActive
  /\ onActive' = TRUE
  /\ wire' = wire \o PushTerminals
  /\ UNCHANGED <<printed, pendingOut, listed, panelOpen, xterm, screen, buffer, overflowed, views>>

(* The socket breaks and the tab is attached again: bridgeRef.clear, an     *)
(* empty list of terminals, then attachSink's replay.                       *)
Reconnect ==
  /\ views < MaxViews /\ views' = views + 1
  /\ listed' = FALSE /\ xterm' = FALSE /\ screen' = <<>> /\ buffer' = <<>>
  /\ wire' = IF onActive THEN PushTerminals ELSE <<[type |-> "other", data |-> <<>>]>>
  /\ overflowed' = FALSE
  /\ UNCHANGED <<printed, pendingOut, onActive, panelOpen>>

MutBridgeDrops(data) ==
  IF xterm THEN screen' = screen \o data /\ UNCHANGED <<buffer, overflowed>>
  ELSE UNCHANGED <<screen, buffer, overflowed>>

(* write of the bridge: to the xterm, or into the buffer, which starts over *)
(* when it would grow past its cap.                                         *)
BridgeWrite(data) ==
  IF xterm THEN screen' = screen \o data /\ UNCHANGED <<buffer, overflowed>>
  ELSE /\ IF Len(buffer) + Len(data) > MaxOutput
          THEN buffer' = data /\ overflowed' = (overflowed \/ buffer # <<>>)
          ELSE buffer' = buffer \o data /\ overflowed' = overflowed
       /\ screen' = screen

(* The tab handles a message.  Unmounting drops the bridge's buffer.        *)
Receive ==
  /\ wire # <<>>
  /\ wire' = Tail(wire)
  /\ LET m == Head(wire) IN
       CASE m.type = "list" -> listed' = TRUE /\ UNCHANGED <<xterm, screen, buffer, overflowed>>
         [] m.type = "other" ->
              /\ listed' = FALSE /\ xterm' = FALSE /\ screen' = <<>>
              /\ buffer' = IF xterm THEN <<>> ELSE buffer
              /\ overflowed' = (overflowed /\ ~xterm)
         [] m.type = "output" -> BridgeWrite(m.data) /\ UNCHANGED <<listed, xterm>>
  /\ UNCHANGED <<printed, pendingOut, onActive, panelOpen, views>>

OpenPanel ==
  /\ ~panelOpen /\ panelOpen' = TRUE
  /\ UNCHANGED <<printed, pendingOut, onActive, wire, listed, xterm, screen, buffer, overflowed, views>>

(* The xterm of a listed terminal is mounted and takes what was buffered.   *)
MountXterm ==
  /\ panelOpen /\ listed /\ ~xterm
  /\ xterm' = TRUE /\ screen' = buffer /\ buffer' = <<>>
  /\ UNCHANGED <<printed, pendingOut, onActive, wire, listed, panelOpen, overflowed, views>>

ScreenNext ==
  \/ PtyPrints \/ FlushPending \/ SwitchAway \/ SwitchBack \/ Reconnect \/ Receive
  \/ OpenPanel \/ MountXterm

-----------------------------------------------------------------------------
Settled == wire = <<>> /\ pendingOut = 0 /\ onActive /\ xterm

(* A calm xterm shows all the output the server retains, whatever switches, *)
(* reconnects and late mounts came before, unless the bridge's buffer was   *)
(* over its cap (the comment of makeTerminalBridge: nothing is lost during  *)
(* mount and reconnect).                                                    *)
NothingMissing == Settled /\ ~overflowed => ToSet(Retained) \subseteq ToSet(screen)

(* ... with the cap counted in.                                             *)
NothingMissingEver == Settled => ToSet(Retained) \subseteq ToSet(screen)

(* A calm xterm shows its output once.                                      *)
NoRepeats == Settled => IsInjective(screen)
=============================================================================
