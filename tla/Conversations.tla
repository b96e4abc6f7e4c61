--------------------------- MODULE Conversations ---------------------------
(***************************************************************************)
(* The conversation table of one client (class ClientSession in            *)
(* server/agent-service.ts): which conversations are open, which one is    *)
(* active, and what starting, switching, opening, dismissing and stopping  *)
(* them does to the others.                                                *)
(*                                                                         *)
(* The socket dispatches every command without waiting for the previous    *)
(* one, so a handler that awaits is interleaved with the others.  A        *)
(* handler is a task in a slot; each of its steps is the code between two  *)
(* awaits.  Slot is the number of handlers in flight at a time: one slot   *)
(* is a client whose commands never overlap, two or more is the program.   *)
(***************************************************************************)
EXTENDS Naturals, FiniteSets

CONSTANTS
  MaxConvs,      \* bound: conversation ids allocated in one behaviour
  MaxOpen,       \* MAX_OPEN_CONVERSATIONS, per project
  Cwd,           \* workspaces
  StartCwd,      \* the workspace the client starts in
  History,       \* transcripts on disk before the client connects
  HistoryCwd,    \* [History -> Cwd], the project of each
  Slot,          \* handlers that can be in flight at the same time
  Commands       \* the commands the client sends, and what runs may do

ASSUME ConstantsAssumption ==
  /\ MaxConvs \in Nat \ {0}
  /\ MaxOpen \in Nat \ {0}
  /\ StartCwd \in Cwd
  /\ HistoryCwd \in [History -> Cwd]
  /\ History \cap Nat = {}
  /\ Commands \subseteq {"newChat", "newChatIn", "setCwd", "switch", "open",
                         "dismiss", "forceDismiss", "prompt", "stop",
                         "terminal", "quiesce", "hang", "save"}

(* Conversation ids are c1, c2, ... (convSeq); the session file a fresh     *)
(* conversation creates is named by the id of the conversation.             *)
Conv == 1..MaxConvs
None == 0
File == Conv \cup History

VARIABLES
  convSeq,       \* ids allocated so far
  convs,         \* keys of the `convs` Map: the open conversations
  activeId,
  cwd,           \* ClientSession.cwd
  home,          \* Conversation.cwd
  file,          \* conv.session.sessionFile
  listed, prompted,   \* Conversation.listed, promptedSinceActive
  msgs,          \* the session has messages
  run,           \* the run of conv.session, see RunState
  term,          \* the conversation's terminal
  bound,         \* conv.unsubscribe: events of the session reach onEvent
  live,          \* the conversation's runtime exists and is not disposed
  saved,         \* session files on disk
  recent,        \* newest session file of each project, or None
  booting,       \* bootingSwitches
  reset,         \* forceResetConversation in progress on a conversation
  rebinding,     \* bindSession calls of forced resets that await
  quiesced,      \* the server is draining
  task           \* handlers in flight

table    == <<convs, activeId, cwd>>
marks    == <<listed, prompted>>
records  == <<convSeq, home, file>>
sessions == <<run, term, bound, live, msgs>>
storage  == <<saved, recent>>
resets   == <<reset, rebinding>>
vars == <<table, marks, records, sessions, storage, resets,
          booting, quiesced, task>>

(* "hungTool": a tool that never returns, with its watchdog armed;          *)
(* "hung": a run that never ends and that no watchdog guards (a silent      *)
(* model stream, or a tool whose start event reached nobody).               *)
RunState == {"idle", "busy", "hungTool", "hung"}

Kind == {"newChat", "workspace", "cwd", "session"}

Task ==
  [op     : {"idle", "boot", "bind", "resolve", "resolveNew", "thenNew",
             "prompt", "prompted", "abort", "settle", "vacate", "drop"},
   kind   : Kind,
   conv   : Conv \cup {None},   \* being created, prompted or interrupted
   gone   : Conv \cup {None},   \* displaced, to be removed after the boot
   up     : Conv \cup {None},   \* promoted to the list by this handler
   target : Conv \cup {None},   \* to be dismissed at the end
   dir    : Cwd,
   flag   : BOOLEAN]            \* then new chat / run ended / session replaced

Idle == [op |-> "idle", kind |-> "newChat", conv |-> None, gone |-> None,
         up |-> None, target |-> None, dir |-> StartCwd, flag |-> FALSE]

FileCwd(f) == IF f \in History THEN HistoryCwd[f] ELSE home[f]

\* seeded defect: no new file when the project has none
ContinueRecentOnly(w, c) == recent[w]

(* SessionManager.continueRecent: the newest file of the project, or a new  *)
(* one.                                                                     *)
ContinueRecent(w, c) == IF recent[w] = None THEN c ELSE recent[w]

TypeOK ==
  /\ convSeq \in Conv
  /\ convs \in SUBSET Conv
  /\ activeId \in Conv
  /\ cwd \in Cwd
  /\ home \in [Conv -> Cwd]
  /\ file \in [Conv -> File]
  /\ listed \in SUBSET Conv
  /\ prompted \in SUBSET Conv
  /\ msgs \in SUBSET Conv
  /\ run \in [Conv -> RunState]
  /\ term \in [Conv -> {"none", "live", "exited"}]
  /\ bound \in SUBSET Conv
  /\ live \in SUBSET Conv
  /\ saved \in SUBSET File
  /\ recent \in [Cwd -> File \cup {None}]
  /\ booting \in SUBSET Conv
  /\ reset \in [Conv -> {"no", "dispose", "boot"}]
  /\ rebinding \in SUBSET Conv
  /\ quiesced \in BOOLEAN
  /\ task \in [Slot -> Task]

(* ClientSession.create: one conversation, resumed from the newest          *)
(* transcript of the project, bound and active.                             *)
Init ==
  /\ convSeq = 1 /\ convs = {1} /\ activeId = 1 /\ cwd = StartCwd
  /\ home = [c \in Conv |-> StartCwd]
  /\ listed = {} /\ prompted = {}
  /\ saved = History
  /\ recent \in [Cwd -> History \cup {None}]
  /\ \A w \in Cwd : LET here == {h \in History : HistoryCwd[h] = w}
                    IN  IF here = {} THEN recent[w] = None ELSE recent[w] \in here
  /\ file = [c \in Conv |-> IF c = 1 THEN ContinueRecent(StartCwd, 1) ELSE c]
  /\ msgs = IF recent[StartCwd] = None THEN {} ELSE {1}
  /\ run = [c \in Conv |-> "idle"]
  /\ term = [c \in Conv |-> "none"]
  /\ bound = {1} /\ live = {1}
  /\ booting = {} /\ rebinding = {}
  /\ reset = [c \in Conv |-> "no"]
  /\ quiesced = FALSE
  /\ task = [s \in Slot |-> Idle]

-----------------------------------------------------------------------------
(* The running-list lifecycle.                                              *)

\* seeded defect: a running conversation is not kept
IsRetainedNotStreaming(c) == term[c] = "live" \/ c \in listed \cap prompted

(* isRetained: the conversation keeps its runtime when it is left.          *)
IsRetained(c) ==
  \/ run[c] # "idle"
  \/ term[c] = "live"
  \/ c \in listed \cap prompted

(* displaceActive: a conversation that is not retained is to be removed by  *)
(* the caller, once another one is active.                                  *)
Displaced == IF IsRetained(activeId) THEN None ELSE activeId
\* seeded defect: a kept conversation is not listed
PromotedNever == listed

(* displaceActive: a retained conversation enters the list.                 *)
Promoted == IF IsRetained(activeId) THEN listed \cup {activeId} ELSE listed

(* What newChatInWorkspace takes back when the boot fails.                  *)
NewlyListed == IF IsRetained(activeId) /\ activeId \notin listed THEN activeId ELSE None

\* seeded defect: the active conversation is not spared
RemovableEvenActive(d, a) == {d} \cap convs

(* removeConversation: the conversations a call with id d removes when a    *)
(* is active.                                                               *)
Removable(d, a) == {d} \cap (convs \ {a})

(* Closing the records and sessions of `gone` while the runtimes of         *)
(* `started` come to life; the marks of the others become those given.      *)
Close(gone, started, newListed, newPrompted) ==
  /\ listed' = newListed \ gone
  /\ prompted' = newPrompted \ gone
  /\ run' = [c \in Conv |-> IF c \in gone THEN "idle" ELSE run[c]]
  /\ term' = [c \in Conv |-> IF c \in gone THEN "none" ELSE term[c]]
  /\ bound' = bound \ gone
  /\ live' = (live \cup started) \ gone
  /\ msgs' = (msgs \cup {c \in started : file[c] \in saved}) \ gone

IsBlank(c) == c \notin msgs /\ term[c] = "none"

(* The synchronous part of switchConversation; set_cwd to a project with an *)
(* open conversation does the same.                                         *)
SwitchTo(c) ==
  LET gone == Removable(Displaced, c)
  IN  /\ activeId' = c
      /\ convs' = convs \ gone
      /\ Close(gone, {}, Promoted, prompted \ {c})
      /\ cwd' = home[c]

Free(s) == task[s].op = "idle"
Accepts(s, command) == Free(s) /\ command \in Commands

(* A handler started on behalf of a dismissal ends by removing its target.  *)
Then(s, target) ==
  task' = [task EXCEPT ![s] =
             IF target = None THEN Idle
             ELSE [Idle EXCEPT !.op = "drop", !.target = target]]

(* nextConversationId.                                                      *)
NextId == convSeq + 1

(* A handler allocates an id and awaits createAgentSessionRuntime.  When    *)
(* the bound on ids is reached the start fails at once.                     *)
StartBoot(s, kind, w, f, gone, up, target, flag) ==
  LET n == NextId
  IN  \/ /\ convSeq < MaxConvs
         /\ convSeq' = n
         /\ home' = [home EXCEPT ![n] = w]
         /\ file' = [file EXCEPT ![n] = f]
         /\ booting' = IF kind = "session" THEN booting \cup {n} ELSE booting
         /\ task' = [task EXCEPT ![s] =
              [op |-> "boot", kind |-> kind, conv |-> n, gone |-> gone,
               up |-> up, target |-> target, dir |-> w, flag |-> flag]]
      \/ /\ convSeq = MaxConvs
         /\ Then(s, target)
         /\ UNCHANGED <<records, booting>>

-----------------------------------------------------------------------------
(* new_chat, set_cwd, switch_conversation, switch_session.                  *)

OpenIn(w) == {c \in convs : home[c] = w}

\* seeded defect: one conversation too many
FullOffByOne(w, leaving) == Cardinality(OpenIn(w) \ leaving) > MaxOpen

(* The project has no room for another conversation once `leaving` is gone. *)
Full(w, leaving) == Cardinality(OpenIn(w) \ leaving) >= MaxOpen

\* seeded defect: only the active conversation is looked at
HoldersActiveOnly(f) == {c \in {activeId} : file[c] = f}

(* The open conversations on a session file.                                *)
Holders(f) == {c \in convs : file[c] = f}

\* seeded defect: the gate is never lifted
UngatedForgotten(c) == booting

(* bootingSwitches.delete.                                                  *)
Ungated(c) == booting \ {c}

(* newChat without a workspace: stay on a blank chat, go to another one     *)
(* (any; the code takes the oldest), refuse at the cap, or boot.  `target`  *)
(* is what vacateActive must remove.                                        *)
NewChatCore(s, target) ==
  LET blanks == {c \in convs : c # activeId /\ home[c] = cwd /\ IsBlank(c)}
      settled == IsBlank(activeId) \/ (blanks = {} /\ Full(cwd, {}))
  IN  \/ /\ settled
         /\ Then(s, target)
         /\ UNCHANGED <<table, marks, records, sessions, booting>>
      \/ /\ ~settled
         /\ \E c \in blanks : SwitchTo(c)
         /\ Then(s, target)
         /\ UNCHANGED <<records, booting>>
      \/ /\ ~settled /\ blanks = {}
         /\ listed' = Promoted
         /\ StartBoot(s, "newChat", cwd, NextId, Displaced, None, target, FALSE)
         /\ UNCHANGED <<table, prompted, sessions>>

(* A draining server (quiesceBlocked) refuses the chat at once.             *)
NewChatAdmitted(s, target) ==
  \/ /\ quiesced
     /\ Then(s, target)
     /\ UNCHANGED <<table, marks, records, sessions, booting>>
  \/ ~quiesced /\ NewChatCore(s, target)

NewChat(s) ==
  /\ Accepts(s, "newChat") /\ NewChatAdmitted(s, None)
  /\ UNCHANGED <<storage, resets, quiesced>>

(* new_chat(cwd) and set_cwd first await fs.stat of the directory.          *)
NewChatIn(s, w) ==
  /\ Accepts(s, "newChatIn") /\ ~quiesced
  /\ task' = [task EXCEPT ![s] = [Idle EXCEPT !.op = "resolveNew", !.dir = w]]
  /\ UNCHANGED <<table, marks, records, sessions, storage,
                 resets, booting, quiesced>>

SetCwd(s, w) ==
  /\ Accepts(s, "setCwd")
  /\ task' = [task EXCEPT ![s] = [Idle EXCEPT !.op = "resolve", !.dir = w]]
  /\ UNCHANGED <<table, marks, records, sessions, storage,
                 resets, booting, quiesced>>

(* newChat(cwd) after the stat: boot a blank chat there (newChatInWorkspace)*)
(* or go through set_cwd, whose own stat comes next.                        *)
ResolveNew(s) ==
  LET w == task[s].dir
  IN  /\ task[s].op = "resolveNew"
      /\ \/ /\ w # cwd /\ OpenIn(w) = {}
            /\ listed' = Promoted
            /\ StartBoot(s, "workspace", w, NextId, Displaced, NewlyListed, None, FALSE)
            /\ UNCHANGED <<table, prompted, sessions>>
         \/ /\ w = cwd \/ OpenIn(w) # {}
            /\ task' = [task EXCEPT ![s].op = "resolve", ![s].flag = TRUE]
            /\ UNCHANGED <<table, marks, records, sessions, booting>>
      /\ UNCHANGED <<storage, resets, quiesced>>

(* set_cwd after the stat.  Among several open conversations of the project *)
(* the code takes the most recently active one.                             *)
Resolve(s) ==
  LET w == task[s].dir
      next == IF task[s].flag THEN [task[s] EXCEPT !.op = "thenNew"] ELSE Idle
  IN  /\ task[s].op = "resolve"
      /\ \/ /\ w = cwd
            /\ task' = [task EXCEPT ![s] = next]
            /\ UNCHANGED <<table, marks, records, sessions, booting>>
         \/ /\ w # cwd
            /\ \E c \in OpenIn(w) : SwitchTo(c)
            /\ task' = [task EXCEPT ![s] = next]
            /\ UNCHANGED <<records, booting>>
         \/ /\ w # cwd /\ OpenIn(w) = {}
            /\ listed' = Promoted
            /\ StartBoot(s, "cwd", w, ContinueRecent(w, NextId), Displaced, None, None,
                         task[s].flag)
            /\ UNCHANGED <<table, prompted, sessions>>
      /\ UNCHANGED <<storage, resets, quiesced>>

(* fs.stat fails: a notice.  newChat(cwd) goes on when it was set_cwd's own *)
(* stat that failed.                                                        *)
ResolveFails(s) ==
  /\ task[s].op \in {"resolve", "resolveNew"}
  /\ task' = [task EXCEPT ![s] = IF @.flag THEN [@ EXCEPT !.op = "thenNew"] ELSE Idle]
  /\ UNCHANGED <<table, marks, records, sessions, storage,
                 resets, booting, quiesced>>

(* newChat(cwd) once set_cwd is done: only if the workspace was reached.    *)
ThenNewChat(s) ==
  /\ task[s].op = "thenNew"
  /\ \/ /\ cwd = task[s].dir
        /\ NewChatCore(s, None)
     \/ /\ cwd # task[s].dir
        /\ task' = [task EXCEPT ![s] = Idle]
        /\ UNCHANGED <<table, marks, records, sessions, booting>>
  /\ UNCHANGED <<storage, resets, quiesced>>

SwitchConversation(s, c) ==
  /\ Accepts(s, "switch") /\ c \in convs /\ c # activeId
  /\ SwitchTo(c)
  /\ UNCHANGED <<records, storage, resets, booting, quiesced, task>>

(* switchSession: a session that is already open is switched to; otherwise  *)
(* its preview goes out, prompts are gated, and its runtime boots.          *)
SwitchSession(s, f) ==
  LET holders == Holders(f)
  IN  /\ Accepts(s, "open") /\ ~quiesced /\ f \in saved
      /\ \/ /\ \E c \in holders \ {activeId} : SwitchTo(c)
            /\ UNCHANGED <<records, booting, task>>
         \/ /\ holders = {}
            /\ StartBoot(s, "session", FileCwd(f), f, None, None, None, FALSE)
            /\ UNCHANGED <<table, marks, sessions>>
      /\ UNCHANGED <<storage, resets, quiesced>>

(* The runtime of a new chat or of a workspace is there: the conversation   *)
(* is opened and made active, the displaced one removed, bindSession begun. *)
Booted(s) ==
  LET t == task[s]
      gone == Removable(t.gone, t.conv)
  IN  /\ t.op = "boot" /\ t.kind # "session"
      /\ convs' = (convs \cup {t.conv}) \ gone
      /\ activeId' = t.conv
      /\ Close(gone, {t.conv}, listed, prompted)
      /\ task' = [task EXCEPT ![s].op = "bind"]
      /\ UNCHANGED <<cwd, records, storage, resets, booting, quiesced>>

(* The same for switchSession, which displaces only now and refuses when    *)
(* the project would exceed its cap.                                        *)
SessionBooted(s) ==
  LET t == task[s]
      w == home[t.conv]
      gone == Removable(Displaced, t.conv)
      atCap == Full(w, {Displaced})
  IN  /\ t.op = "boot" /\ t.kind = "session"
      /\ \/ /\ atCap
            /\ booting' = Ungated(t.conv)
            /\ task' = [task EXCEPT ![s] = Idle]
            /\ UNCHANGED <<table, marks, sessions>>
         \/ /\ ~atCap
            /\ convs' = (convs \cup {t.conv}) \ gone
            /\ activeId' = t.conv
            /\ Close(gone, {t.conv}, Promoted, prompted \cup {t.conv})
            /\ task' = [task EXCEPT ![s].op = "bind"]
            /\ UNCHANGED <<cwd, booting>>
      /\ UNCHANGED <<records, storage, resets, quiesced>>

(* createAgentSessionRuntime throws.  Only newChatInWorkspace takes back    *)
(* the promotion to the list.                                               *)
BootFails(s) ==
  LET t == task[s]
  IN  /\ t.op = "boot"
      /\ listed' = listed \ {t.up}
      /\ booting' = Ungated(t.conv)
      /\ IF t.kind = "newChat" THEN Then(s, t.target)
         ELSE IF t.flag THEN task' = [task EXCEPT ![s] = [Idle EXCEPT
                                !.op = "thenNew", !.dir = t.dir, !.flag = TRUE]]
         ELSE task' = [task EXCEPT ![s] = Idle]
      /\ UNCHANGED <<table, prompted, records, sessions, storage, resets, quiesced>>

\* seeded defect: opening history does not follow its workspace
WorkspaceKept(t) == IF t.kind \in {"newChat", "session"} THEN cwd ELSE t.dir

(* The workspace once the conversation of a handler is bound.               *)
WorkspaceAfter(t) == IF t.kind = "newChat" THEN cwd ELSE t.dir

(* bindExtensions returns: the session's events are subscribed to, and each *)
(* handler finishes its bookkeeping.                                        *)
Bound(s) ==
  LET t == task[s]
  IN  /\ t.op = "bind"
      /\ bound' = bound \cup {t.conv}
      /\ cwd' = WorkspaceAfter(t)
      /\ prompted' = IF t.kind \in {"cwd", "workspace"}
                     THEN prompted \ {t.conv} ELSE prompted
      /\ booting' = Ungated(t.conv)
      /\ IF t.flag THEN task' = [task EXCEPT ![s] = [Idle EXCEPT
                                !.op = "thenNew", !.dir = t.dir, !.flag = TRUE]]
         ELSE Then(s, t.target)
      /\ UNCHANGED <<convs, activeId, listed, records, run, term, live, msgs,
                     storage, resets, quiesced>>

-----------------------------------------------------------------------------
(* Dismissing a conversation from the running list.                         *)

(* vacateActive and the removal.  When the target is active another listed  *)
(* conversation or a new chat takes over first, and the removal waits.      *)
Vacate(s, c) ==
  LET others == {o \in convs : o # c /\ o \in listed}
  IN  \/ /\ c # activeId
         /\ convs' = convs \ {c}
         /\ Close({c} \cap convs, {}, listed, prompted)
         /\ task' = [task EXCEPT ![s] = Idle]
         /\ UNCHANGED <<activeId, cwd, records, booting>>
      \/ /\ c = activeId
         /\ \E o \in others : SwitchTo(o)
         /\ Then(s, c)
         /\ UNCHANGED <<records, booting>>
      \/ /\ c = activeId /\ others = {}
         /\ NewChatAdmitted(s, c)

Dismiss(s, c) ==
  /\ Accepts(s, "dismiss") /\ c \in convs \cap listed
  /\ run[c] = "idle" /\ term[c] # "live"
  /\ Vacate(s, c)
  /\ UNCHANGED <<storage, resets, quiesced>>

(* With `force` a run is interrupted first.                                 *)
ForceDismiss(s, c) ==
  /\ Accepts(s, "forceDismiss") /\ c \in convs \cap listed
  /\ \/ /\ run[c] = "idle" /\ Vacate(s, c)
     \/ /\ run[c] # "idle"
        /\ task' = [task EXCEPT ![s] =
                      [Idle EXCEPT !.op = "abort", !.conv = c, !.target = c]]
        /\ UNCHANGED <<table, marks, records, sessions, booting>>
  /\ UNCHANGED <<storage, resets, quiesced>>

ForceVacate(s) ==
  /\ task[s].op = "vacate"
  /\ Vacate(s, task[s].target)
  /\ UNCHANGED <<storage, resets, quiesced>>

(* The removal after the await: skipped only if the target is active.       *)
DropTarget(s) ==
  LET gone == Removable(task[s].target, activeId)
  IN  /\ task[s].op = "drop"
      /\ convs' = convs \ gone
      /\ Close(gone, {}, listed, prompted)
      /\ task' = [task EXCEPT ![s] = Idle]
      /\ UNCHANGED <<activeId, cwd, records, storage, resets, booting, quiesced>>

-----------------------------------------------------------------------------
(* Prompts and runs.                                                        *)

(* prompt: the active conversation is captured, then attachments are read.  *)
Prompt(s) ==
  /\ Accepts(s, "prompt") /\ booting = {} /\ ~quiesced
  /\ task' = [task EXCEPT ![s] = [Idle EXCEPT !.op = "prompt", !.conv = activeId]]
  /\ UNCHANGED <<table, marks, records, sessions, storage,
                 resets, booting, quiesced>>

(* session.prompt on the captured session: a run starts, or the message     *)
(* joins the run in progress.  A disposed or replaced session takes none.   *)
Deliver(s) ==
  LET c == task[s].conv
      ok == c \in live /\ ~task[s].flag
  IN  /\ task[s].op = "prompt"
      /\ run' = IF ok /\ run[c] = "idle" THEN [run EXCEPT ![c] = "busy"] ELSE run
      /\ msgs' = IF ok THEN msgs \cup {c} ELSE msgs
      /\ task' = [task EXCEPT ![s].op = "prompted"]
      /\ UNCHANGED <<table, marks, records, term, bound, live, storage,
                     resets, booting, quiesced>>

(* Attachments could not be read, or the SDK refused the message.           *)
DeliverFails(s) ==
  /\ task[s].op = "prompt"
  /\ task' = [task EXCEPT ![s].op = "prompted"]
  /\ UNCHANGED <<table, marks, records, sessions, storage,
                 resets, booting, quiesced>>

(* session.prompt returns, at some time after the delivery.  (The mark of a *)
(* conversation closed meanwhile is never read again.)                      *)
Prompted(s) ==
  LET c == task[s].conv
  IN  /\ task[s].op = "prompted"
      /\ prompted' = prompted \cup ({c} \cap convs)
      /\ task' = [task EXCEPT ![s] = Idle]
      /\ UNCHANGED <<table, listed, records, sessions, storage,
                     resets, booting, quiesced>>

(* agent_end: whoever interrupts this run sees it.                          *)
SeenEnd(c) ==
  [s \in Slot |-> IF task[s].op \in {"abort", "settle"} /\ task[s].conv = c
                  THEN [task[s] EXCEPT !.flag = TRUE] ELSE task[s]]

RunEnds(c) ==
  /\ run[c] = "busy"
  /\ run' = [run EXCEPT ![c] = "idle"]
  /\ task' = SeenEnd(c)
  /\ UNCHANGED <<table, marks, records, term, bound, live, msgs, storage,
                 resets, booting, quiesced>>

(* A model stream goes silent, or a tool never returns.  The watchdog of a  *)
(* tool is armed by its start event, which only a bound session reports.    *)
ModelHangs(c) ==
  /\ run[c] = "busy" /\ "hang" \in Commands
  /\ run' = [run EXCEPT ![c] = "hung"]
  /\ UNCHANGED <<table, marks, records, term, bound, live, msgs, storage,
                 resets, booting, quiesced, task>>

ToolHangs(c) ==
  /\ run[c] = "busy" /\ "hang" \in Commands
  /\ run' = [run EXCEPT ![c] = IF c \in bound THEN "hungTool" ELSE "hung"]
  /\ UNCHANGED <<table, marks, records, term, bound, live, msgs, storage,
                 resets, booting, quiesced, task>>

(* The run appends to its session file.                                     *)
Save(c) ==
  /\ run[c] = "busy" /\ "save" \in Commands
  /\ saved' = saved \cup {file[c]}
  /\ recent' = [recent EXCEPT ![home[c]] = file[c]]
  /\ UNCHANGED <<table, marks, records, sessions,
                 resets, booting, quiesced, task>>

-----------------------------------------------------------------------------
(* Interrupting a run.                                                      *)

(* The Stop button interrupts the active conversation, running or not.      *)
Stop(s) ==
  /\ Accepts(s, "stop")
  /\ task' = [task EXCEPT ![s] = [Idle EXCEPT !.op = "abort", !.conv = activeId]]
  /\ UNCHANGED <<table, marks, records, sessions, storage,
                 resets, booting, quiesced>>

(* The tool watchdog fires, once.                                           *)
Watchdog(s, c) ==
  /\ Free(s) /\ run[c] = "hungTool"
  /\ run' = [run EXCEPT ![c] = "hung"]
  /\ task' = [task EXCEPT ![s] = [Idle EXCEPT !.op = "abort", !.conv = c]]
  /\ UNCHANGED <<table, marks, records, term, bound, live, msgs, storage,
                 resets, booting, quiesced>>

(* session.abort stops the run, which reports agent_end.                    *)
AbortStops(s) ==
  LET c == task[s].conv
  IN  /\ task[s].op = "abort" /\ run[c] # "idle" /\ ~task[s].flag
      /\ run' = [run EXCEPT ![c] = "idle"]
      /\ task' = SeenEnd(c)
      /\ UNCHANGED <<table, marks, records, term, bound, live, msgs, storage,
                     resets, booting, quiesced>>

(* session.abort returns; it may have stopped nothing.                      *)
AbortReturns(s) ==
  /\ task[s].op = "abort"
  /\ task' = [task EXCEPT ![s].op = "settle"]
  /\ UNCHANGED <<table, marks, records, sessions, storage,
                 resets, booting, quiesced>>

(* forceResetConversation, first part: unsubscribe, drop the watchdogs.     *)
(* Bound: a conversation is reset by one call at a time.                    *)
ForceReset(c) ==
  /\ reset[c] = "no"
  /\ reset' = [reset EXCEPT ![c] = "dispose"]
  /\ bound' = bound \ {c}
  /\ run' = [run EXCEPT ![c] = IF @ = "hungTool" THEN "hung" ELSE @]

(* The hard timer fires before agent_end, while abort hangs or while the    *)
(* handler settles: a reset is forced, once.  abort then returns.           *)
HardAbort(s) ==
  /\ task[s].op \in {"abort", "settle"} /\ ~task[s].flag
  /\ ForceReset(task[s].conv)
  /\ task' = [task EXCEPT ![s].op = "settle", ![s].flag = TRUE]
  /\ UNCHANGED <<table, marks, records, term, live, msgs, storage,
                 booting, rebinding, quiesced>>

(* interruptRun returns: a forced dismissal goes on.                        *)
AfterInterrupt(s) ==
  task' = [task EXCEPT ![s] = IF task[s].target = None THEN Idle
             ELSE [Idle EXCEPT !.op = "vacate", !.target = task[s].target]]

\* seeded defect: no reset when the settle window closes
SettledGivesUp(s) ==
  /\ task[s].op = "settle"
  /\ AfterInterrupt(s)
  /\ UNCHANGED <<table, marks, records, sessions, storage, resets,
                 booting, quiesced>>

(* The settle window closes: no agent_end was seen, force a reset.          *)
Settled(s) ==
  /\ task[s].op = "settle"
  /\ \/ task[s].flag /\ UNCHANGED <<reset, bound, run>>
     \/ ~task[s].flag /\ ForceReset(task[s].conv)
  /\ AfterInterrupt(s)
  /\ UNCHANGED <<table, marks, records, term, live, msgs, storage,
                 booting, rebinding, quiesced>>

(* The stuck runtime is disposed; its run is over.  The replacement resumes *)
(* the newest transcript of the project.                                    *)
ResetDisposed(c) ==
  /\ reset[c] = "dispose"
  /\ reset' = [reset EXCEPT ![c] = "boot"]
  /\ live' = live \ {c}
  /\ run' = [run EXCEPT ![c] = "idle"]
  /\ file' = [file EXCEPT ![c] = ContinueRecent(home[c], c)]
  /\ UNCHANGED <<table, marks, convSeq, home, msgs, term, bound, storage,
                 booting, rebinding, quiesced, task>>

(* The replacement exists; prompts that captured the old session are lost.  *)
(* bindSession then rebinds the ACTIVE conversation.                        *)
ResetBooted(c) ==
  /\ reset[c] = "boot"
  /\ reset' = [reset EXCEPT ![c] = "no"]
  /\ live' = live \cup {c}
  /\ msgs' = IF file[c] \in saved THEN msgs \cup {c} ELSE msgs \ {c}
  /\ bound' = bound \ {activeId}
  /\ rebinding' = rebinding \cup {activeId}
  /\ task' = [s \in Slot |-> IF task[s].op = "prompt" /\ task[s].conv = c
                             THEN [task[s] EXCEPT !.flag = TRUE] ELSE task[s]]
  /\ UNCHANGED <<table, marks, records, run, term, storage,
                 booting, quiesced>>

ResetFails(c) ==
  /\ reset[c] = "boot"
  /\ reset' = [reset EXCEPT ![c] = "no"]
  /\ UNCHANGED <<table, marks, records, sessions, storage,
                 booting, rebinding, quiesced, task>>

Rebound(c) ==
  /\ c \in rebinding
  /\ bound' = bound \cup {c}
  /\ rebinding' = rebinding \ {c}
  /\ UNCHANGED <<table, marks, records, run, term, live, msgs, storage,
                 booting, reset, quiesced, task>>

-----------------------------------------------------------------------------
(* Terminals and draining.                                                  *)

OpenTerminal(s) ==
  /\ Accepts(s, "terminal") /\ term[activeId] # "live"
  /\ term' = [term EXCEPT ![activeId] = "live"]
  /\ UNCHANGED <<table, marks, records, run, bound, live, msgs, storage,
                 resets, booting, quiesced, task>>

TerminalExits(c) ==
  /\ term[c] = "live"
  /\ term' = [term EXCEPT ![c] = "exited"]
  /\ UNCHANGED <<table, marks, records, run, bound, live, msgs, storage,
                 resets, booting, quiesced, task>>

ToggleQuiesce ==
  /\ "quiesce" \in Commands
  /\ quiesced' = ~quiesced
  /\ UNCHANGED <<table, marks, records, sessions, storage, resets,
                 booting, task>>

-----------------------------------------------------------------------------
Command(s) ==
  \/ NewChat(s) \/ Prompt(s) \/ Stop(s) \/ OpenTerminal(s)
  \/ \E w \in Cwd : NewChatIn(s, w) \/ SetCwd(s, w)
  \/ \E f \in File : SwitchSession(s, f)
  \/ \E c \in Conv : SwitchConversation(s, c) \/ Dismiss(s, c) \/ ForceDismiss(s, c)

(* The continuation of a handler.                                           *)
Continue(s) ==
  \/ ResolveNew(s) \/ Resolve(s) \/ ResolveFails(s) \/ ThenNewChat(s)
  \/ Booted(s) \/ SessionBooted(s) \/ BootFails(s) \/ Bound(s)
  \/ ForceVacate(s) \/ DropTarget(s)
  \/ Deliver(s) \/ DeliverFails(s) \/ Prompted(s)
  \/ AbortStops(s) \/ AbortReturns(s) \/ HardAbort(s) \/ Settled(s)

ResetStep(c) ==
  ResetDisposed(c) \/ ResetBooted(c) \/ ResetFails(c)

Agent(c) == RunEnds(c) \/ ModelHangs(c) \/ ToolHangs(c) \/ Save(c) \/ TerminalExits(c)

Next ==
  \/ \E s \in Slot : Command(s) \/ Continue(s) \/ \E c \in Conv : Watchdog(s, c)
  \/ \E c \in Conv : ResetStep(c) \/ Rebound(c) \/ Agent(c)
  \/ ToggleQuiesce

Spec == Init /\ [][Next]_vars

-----------------------------------------------------------------------------
(* Properties.                                                              *)

(* The active conversation is always one of the open ones: `this.conv` is   *)
(* never undefined, although a conversation displaced at the start of a     *)
(* handler is removed only after its awaits, when another handler may have  *)
(* made it, or the conversation it was displaced for, active or not.        *)
ActiveOpen == activeId \in convs

(* bootingSwitches holds exactly the conversations a switch_session is      *)
(* still opening: prompts are refused while a preview is on screen, and a   *)
(* refused, failed or finished opening never leaves the gate shut.          *)
Opening == {task[s].conv : s \in {x \in Slot : /\ task[x].op \in {"boot", "bind"}
                                               /\ task[x].kind = "session"}}
PreviewGate == booting = Opening

(* Every open conversation can be reached by the user: it is active, in the *)
(* running list, or about to be removed by the handler that displaced it.   *)
Reachable ==
  \A c \in convs : \/ c = activeId \/ c \in listed
                   \/ \E s \in Slot : c \in {task[s].gone, task[s].target}

(* No project has more open conversations than MAX_OPEN_CONVERSATIONS.      *)
CapHeld == \A w \in Cwd : Cardinality(OpenIn(w)) <= MaxOpen

(* The client's workspace is that of its active conversation whenever no    *)
(* handler is in the middle of a switch.                                    *)
WorkspaceFollows == (\A s \in Slot : Free(s)) => home[activeId] = cwd

(* A runtime belongs to an open conversation: removal frees it for good.    *)
RuntimesOwned == live \subseteq convs

(* Each session file has at most one live runtime writing to it.            *)
OneWriter == \A c, d \in live : file[c] = file[d] => c = d

(* The events of an open conversation's session reach the server (and its   *)
(* browser) unless a bind or a reset of it is in progress.                  *)
EventsReach ==
  \A c \in convs \cap live :
                   \/ c \in bound \cup rebinding \/ reset[c] # "no"
                   \/ \E s \in Slot : task[s].op = "bind" /\ task[s].conv = c

(* Leaving, switching, starting and dismissing chats never ends another     *)
(* conversation's run, nor kills a live terminal: a conversation is closed  *)
(* with its run only when that run is being reset by force, and with a live *)
(* terminal only when it is dismissed by force.                             *)
BackgroundKept ==
  [][\A c \in convs \ convs' :
       /\ run[c] = "idle" \/ reset[c] # "no"
       /\ term[c] = "live" => \E s \in Slot : \/ task[s].target = c
                                              \/ ForceDismiss(s, c)]_vars

(* Only a run that did not end is torn down: forceResetConversation is for  *)
(* a conversation that is still not idle.                                   *)
ForceOnlyStuck ==
  [][\A c \in Conv : reset[c] = "no" /\ reset'[c] = "dispose" => run[c] # "idle"]_vars

(* Handlers and resets go on once their await is over, and a watchdog timer *)
(* fires whatever else the client does.                                     *)
Fairness ==
  /\ \A s \in Slot : WF_vars(Continue(s))
  /\ \A c \in Conv : WF_vars(ResetStep(c)) /\ WF_vars(Rebound(c))
  /\ \A c \in Conv : SF_vars(\E s \in Slot : Watchdog(s, c))

FairSpec == Spec /\ Fairness

(* A tool that never returns does not hang its conversation forever: its    *)
(* watchdog interrupts the run, through a forced reset when the abort has   *)
(* no effect.                                                               *)
HungToolEnds == \A c \in Conv : run[c] = "hungTool" ~> run[c] = "idle"

(* A conversation that is being opened from history is eventually open or   *)
(* given up, and prompts are accepted again.                                *)
GateOpens == \A c \in Conv : c \in booting ~> c \notin booting
=============================================================================
