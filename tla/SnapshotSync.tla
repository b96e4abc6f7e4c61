---------------------------- MODULE SnapshotSync ----------------------------
(***************************************************************************)
(* How the tabs of one client follow the conversation the server has       *)
(* active: full snapshots, incremental ones that chain on a revision       *)
(* (emitSnapshotNow in server/agent-service.ts), the socket that drops     *)
(* snapshots when a tab reads too slowly (send in server/index.ts), and    *)
(* the reducer of web/src/use-chat.ts, which also paints a click before    *)
(* the server has answered it.                                             *)
(*                                                                         *)
(* A socket is two queues, ordered and without loss until it closes; only  *)
(* the server's own backpressure drops a snapshot.  The conversation table *)
(* is reduced to what the snapshots depend on: which conversations are     *)
(* open, which is active, and the handlers that create one.                *)
(***************************************************************************)
EXTENDS Naturals, SequencesExt

CONSTANTS
  Tab,           \* browser tabs of the client
  Conv,          \* bound: conversation ids of one behaviour
  FirstConv,     \* the conversation a server starts with
  NoConv,        \* no conversation: null
  NewChat,       \* the synthetic conversation of an optimistic new chat
  Msg,           \* messages, told apart by identity as the server does
  MaxLen,        \* bound: messages of a conversation
  MaxOpen,       \* MAX_OPEN_CONVERSATIONS
  Clicks,        \* what the user does: "switch", "new", "open", "prompt",
                 \* or "wait" 15 s for the answer to a click
  Outcomes,      \* how an opening ends: "booted", "failed", "refused"
  Budget,        \* bound: how often each kind of outside event happens
  MaxDrops       \* bound: snapshots dropped under backpressure

Kind == {"event", "click", "break", "restart"}

ASSUME ConstantsAssumption ==
  /\ IsFiniteSet(Tab)
  /\ FirstConv \in Conv
  /\ NoConv \notin Conv
  /\ NewChat \notin Conv \cup {NoConv}
  /\ MaxLen \in Nat
  /\ MaxOpen \in Nat \ {0}
  /\ Clicks \subseteq {"switch", "new", "open", "prompt", "wait"}
  /\ Outcomes \subseteq {"booted", "failed", "refused"}
  /\ Budget \in [Kind -> Nat]
  /\ MaxDrops \in Nat

VARIABLES
  \* the server's session
  active,        \* activeId, or NoConv while there is no session
  open,          \* keys of convs
  used,          \* ids given out by nextConversationId
  opening,       \* handlers that create a conversation, by its id
  msgs,          \* the transcript of each conversation
  snapRev,
  emitted,       \* emittedConvId, emittedMessages and emittedRev
  snapshotTimer,
  \* the server's side of each socket
  attached,      \* the socket is one of the session's sinks
  sentFull,      \* lastSnapshotBytes > 0
  retry,         \* snapshotRetryTimer
  \* the network
  up, down,
  \* the tab
  connected,     \* the tab has an open socket
  view,          \* state.state
  cache,         \* snapshotsById
  list,          \* conversations
  pending,       \* switchPending or optimisticNewChat
  resync,        \* resyncTimerRef
  \* history and bounds
  log,           \* every state the server published
  drops,         \* snapshots dropped so far
  spent          \* outside events so far, by kind

table   == <<active, open, used, opening, msgs>>
emitter == <<snapRev, emitted, snapshotTimer>>
sockets == <<attached, sentFull, retry>>
wires   == <<up, down>>
tabs    == <<connected, view, cache, list, pending, resync>>
vars    == <<table, emitter, sockets, wires, tabs, log, drops, spent>>

Transcript == UNION {[1..n -> Msg] : n \in 0..MaxLen}

(* A state as a snapshot carries it and as a tab holds it.                 *)
Snapshot(conv, rev, messages, booting) ==
  [conv |-> conv, rev |-> rev, msgs |-> messages, booting |-> booting]

NoSnapshot == Snapshot(NoConv, 0, <<>>, FALSE)

Stages == {"no", "session", "sessionBind", "new", "newBind"}

(* bootingSwitches: a preview is on screen, its conversation is not there. *)
BootingSwitches == {c \in Conv : opening[c] \in {"session", "sessionBind"}}

Spend(kind) ==
  /\ spent[kind] < Budget[kind]
  /\ spent' = [spent EXCEPT ![kind] = @ + 1]

-----------------------------------------------------------------------------
(* Emission: every message goes to every attached tab.                     *)

ListMsg(convs)    == [type |-> "conversations", convs |-> convs]
ReadyMsg          == [type |-> "ready"]
FullMsg(s)        == [type |-> "snapshot", state |-> s]
DeltaMsg(c, rev, base, appended) ==
  [type |-> "snapshot_delta", conv |-> c, rev |-> rev, base |-> base,
   appended |-> appended]

IncrementalAcrossChats(c, messages, forceFull) ==
  /\ ~forceFull
  /\ emitted.conv # NoConv
  /\ IsPrefix(emitted.msgs, messages)

(* The incremental path of emitSnapshotNow: the messages emitted last,     *)
(* for the same conversation, are a prefix of the current ones.            *)
Incremental(c, messages, forceFull) ==
  /\ ~forceFull
  /\ emitted.conv = c
  /\ IsPrefix(emitted.msgs, messages)

SnapshotMsg(c, messages, forceFull) ==
  IF Incremental(c, messages, forceFull)
  THEN DeltaMsg(c, snapRev + 1, emitted.rev,
                SubSeq(messages, Len(emitted.msgs) + 1, Len(messages)))
  ELSE FullMsg(Snapshot(c, snapRev + 1, messages, FALSE))

(* send() for one message that announces the state s: the socket of a tab  *)
(* that has had a full snapshot may drop it, and then arms its retry timer *)
(* unless it is armed already.  `before` is what the handler sent the tab  *)
(* first; those messages are never dropped.  armed: the timers now armed.  *)
Send(m, s, sinks, before, armed) ==
  \E dropped \in SUBSET {t \in sinks : sentFull[t]} :
    /\ drops + Cardinality(dropped) <= MaxDrops
    /\ drops' = drops + Cardinality(dropped)
    /\ down' = [t \in Tab |->
                 IF t \notin sinks THEN down[t]
                 ELSE down[t] \o before[t] \o (IF t \in dropped THEN <<>> ELSE <<m>>)]
    /\ sentFull' = [t \in Tab |->
                     \/ sentFull[t]
                     \/ t \in sinks \ dropped /\ m.type = "snapshot"]
    /\ retry' = [t \in Tab |-> t \in armed \cup dropped]
    /\ log' = log \cup {s}

Sinks == {t \in Tab : attached[t]}
Armed == {t \in Tab : retry[t]}
Nothing == [t \in Tab |-> <<>>]

(* emitConversations, with the table the handler leaves behind.            *)
Conversations == [t \in Tab |-> <<ListMsg(open')>>]

(* emitSnapshotNow: the active conversation, as the handler leaves it.     *)
EmitSnapshotNow(forceFull, sinks, before, armed) ==
  LET c == active'
      messages == msgs'[c]
  IN  /\ snapRev' = snapRev + 1
      /\ emitted' = [conv |-> c, msgs |-> messages, rev |-> snapRev + 1]
      /\ Send(SnapshotMsg(c, messages, forceFull),
              Snapshot(c, snapRev + 1, messages, FALSE), sinks, before, armed)

(* flushSnapshot: the pending timer is cancelled.                          *)
FlushSnapshot(forceFull) ==
  /\ snapshotTimer' = FALSE
  /\ EmitSnapshotNow(forceFull, Sinks, Nothing, Armed)

FlushAfterList(forceFull) ==
  /\ snapshotTimer' = FALSE
  /\ EmitSnapshotNow(forceFull, Sinks, Conversations, Armed)

EmitSessionPreviewSameRev(c) ==
  LET state == Snapshot(c, snapRev, msgs'[c], TRUE) IN
  /\ emitted' = [conv |-> NoConv, msgs |-> <<>>, rev |-> snapRev]
  /\ Send(FullMsg(state), state, Sinks, Nothing, Armed)
  /\ UNCHANGED <<snapRev, snapshotTimer>>

(* emitSessionPreview: a full snapshot that no delta may build on.         *)
EmitSessionPreview(c) ==
  LET state == Snapshot(c, snapRev + 1, msgs'[c], TRUE) IN
  /\ snapRev' = snapRev + 1
  /\ emitted' = [conv |-> NoConv, msgs |-> <<>>, rev |-> snapRev + 1]
  /\ Send(FullMsg(state), state, Sinks, Nothing, Armed)
  /\ UNCHANGED snapshotTimer

Unsent == UNCHANGED <<snapRev, emitted, log, down, sentFull, retry, drops>>
Silent == Unsent /\ UNCHANGED snapshotTimer

ScheduleSnapshot == snapshotTimer' = TRUE /\ Unsent

-----------------------------------------------------------------------------
(* The session: events of the runs and timers.                             *)

(* An event of a bound session may append a message, or change what is     *)
(* already there (compaction, a fork, a transient error taken off), and    *)
(* ends in a flush or in the timer whichever conversation it belongs to.   *)
Changed(messages) ==
  {messages} \cup {Append(messages, m) : m \in Msg} \cup {<<m>> : m \in Msg}

OnEvent(c) ==
  /\ c \in open /\ opening[c] = "no"
  /\ Spend("event")
  /\ \E messages \in Changed(msgs[c]) :
       /\ Len(messages) <= MaxLen
       /\ msgs' = [msgs EXCEPT ![c] = messages]
  /\ UNCHANGED <<active, open, used, opening>>
  /\ FlushSnapshot(FALSE) \/ ScheduleSnapshot
  /\ UNCHANGED <<attached, up, tabs>>

SnapshotTimer ==
  /\ snapshotTimer
  /\ UNCHANGED table
  /\ FlushSnapshot(FALSE)
  /\ UNCHANGED <<attached, up, tabs, spent>>

(* A dropped snapshot is sent again: what the session has to say by then.  *)
SnapshotRetry(t) ==
  /\ retry[t]
  /\ UNCHANGED table
  /\ snapshotTimer' = FALSE
  /\ EmitSnapshotNow(FALSE, Sinks, Nothing, Armed \ {t})
  /\ UNCHANGED <<attached, up, tabs, spent>>

-----------------------------------------------------------------------------
(* The session: messages from a tab.                                       *)

Take(t, type) ==
  /\ up[t] # <<>> /\ Head(up[t]).type = type
  /\ up' = [up EXCEPT ![t] = Tail(@)]
  /\ UNCHANGED <<tabs, spent>>

(* ClientSession.create: the first conversation resumes the most recent    *)
(* transcript of the workspace, whatever that is, or starts empty.         *)
CreateSession ==
  /\ active' = FirstConv /\ open' = {FirstConv} /\ used' = {FirstConv}
  /\ \E messages \in Transcript : msgs' = [msgs EXCEPT ![FirstConv] = messages]
  /\ UNCHANGED opening

(* hello: attachSink sends the list to every tab, ready goes to this one,  *)
(* and the state to all: as a delta when the session has published before. *)
TakeHello(t) ==
  /\ Take(t, "hello")
  /\ IF used = {} THEN CreateSession ELSE UNCHANGED table
  /\ attached' = [attached EXCEPT ![t] = TRUE]
  /\ snapshotTimer' = FALSE
  /\ EmitSnapshotNow(FALSE, Sinks \cup {t},
       [Conversations EXCEPT ![t] = Append(@, ReadyMsg)], Armed)

TakeGetState(t) ==
  /\ Take(t, "get_state")
  /\ UNCHANGED <<table, attached>>
  /\ FlushSnapshot(TRUE)

ActivateWithoutAdding(c, others) ==
  /\ active' = c
  /\ \E left \in SUBSET {active} : open' = others \ left

(* A conversation left behind is removed or kept, as Conversations says.   *)
Activate(c, others) ==
  /\ active' = c
  /\ \E left \in SUBSET {active} : open' = (others \ (left \ {c})) \cup {c}

(* switchConversation answers nothing when there is nothing to do.         *)
SwitchConversation(c) ==
  IF c \notin open \/ c = active
  THEN UNCHANGED table /\ Silent
  ELSE /\ Activate(c, open)
       /\ UNCHANGED <<used, opening, msgs>>
       /\ FlushAfterList(FALSE)

TakeSwitch(t) ==
  /\ Take(t, "switch_conversation")
  /\ UNCHANGED attached
  /\ SwitchConversation(Head(up[t]).conv)

(* newChat in the active workspace: refused while draining or for a bad    *)
(* directory, reuses a blank chat, refused at the cap, or boots.           *)
TakeNewChat(t) ==
  /\ Take(t, "new_chat")
  /\ UNCHANGED <<active, open, attached>>
  /\ \/ UNCHANGED <<used, opening, msgs>> /\ FlushSnapshot(FALSE)
     \/ /\ msgs[active] # <<>>
        /\ IF Cardinality(open) >= MaxOpen
           THEN UNCHANGED <<used, opening, msgs>> /\ Silent
           ELSE \E c \in Conv \ used :
                  /\ used' = used \cup {c}
                  /\ opening' = [opening EXCEPT ![c] = "new"]
                  /\ msgs' = [msgs EXCEPT ![c] = <<>>]
                  /\ Silent

(* switchSession: the session is open already, cannot be opened (refused   *)
(* when draining, or unreadable), or is previewed while its runtime boots. *)
TakeSwitchSession(t) ==
  /\ Take(t, "switch_session")
  /\ UNCHANGED attached
  /\ \/ \E c \in open : SwitchConversation(c)
     \/ UNCHANGED table /\ \E forceFull \in BOOLEAN : FlushSnapshot(forceFull)
     \/ \E c \in Conv \ used, messages \in Transcript :
          /\ used' = used \cup {c}
          /\ opening' = [opening EXCEPT ![c] = "session"]
          /\ msgs' = [msgs EXCEPT ![c] = messages]
          /\ UNCHANGED <<active, open>>
          /\ EmitSessionPreview(c)

(* prompt: refused while a preview is on screen, otherwise the active      *)
(* conversation gets it; the handler ends in a flush.                      *)
TakePrompt(t) ==
  /\ Take(t, "prompt")
  /\ UNCHANGED <<table, attached>>
  /\ IF BootingSwitches # {} THEN Silent ELSE FlushSnapshot(FALSE)

-----------------------------------------------------------------------------
(* The session: a runtime has booted, or not.                              *)

(* switchSession after its boot: the replacement takes over unless its     *)
(* project is full by now, counting the conversation it displaces.         *)
SessionBooted(c) ==
  /\ opening[c] = "session"
  /\ "booted" \in Outcomes
  /\ Activate(c, open)
  /\ Cardinality(open') <= MaxOpen
  /\ opening' = [opening EXCEPT ![c] = "sessionBind"]
  /\ UNCHANGED <<used, msgs, attached, up, tabs, spent>>
  /\ Silent

SessionBound(c) ==
  /\ opening[c] = "sessionBind"
  /\ opening' = [opening EXCEPT ![c] = "no"]
  /\ UNCHANGED <<active, open, used, msgs>>
  /\ FlushAfterList(TRUE)
  /\ UNCHANGED <<attached, up, tabs, spent>>

SessionFailsUnannounced(c) ==
  /\ opening[c] = "session"
  /\ "failed" \in Outcomes
  /\ opening' = [opening EXCEPT ![c] = "no"]
  /\ UNCHANGED <<active, open, used, msgs, attached, up, tabs, spent>>
  /\ Silent

(* The refusal at the cap returns before the flush of the failure path.    *)
SessionRefused(c) ==
  /\ opening[c] = "session"
  /\ "refused" \in Outcomes
  /\ Cardinality(open) >= MaxOpen
  /\ opening' = [opening EXCEPT ![c] = "no"]
  /\ UNCHANGED <<active, open, used, msgs, attached, up, tabs, spent>>
  /\ Silent

SessionFails(c) ==
  /\ opening[c] = "session"
  /\ "failed" \in Outcomes
  /\ opening' = [opening EXCEPT ![c] = "no"]
  /\ UNCHANGED <<active, open, used, msgs>>
  /\ FlushSnapshot(TRUE)
  /\ UNCHANGED <<attached, up, tabs, spent>>

NewChatBooted(c) ==
  /\ opening[c] = "new"
  /\ "booted" \in Outcomes
  /\ Activate(c, open)
  /\ opening' = [opening EXCEPT ![c] = "newBind"]
  /\ UNCHANGED <<used, msgs, attached, up, tabs, spent>>
  /\ Silent

NewChatBound(c) ==
  /\ opening[c] = "newBind"
  /\ opening' = [opening EXCEPT ![c] = "no"]
  /\ UNCHANGED <<active, open, used, msgs>>
  /\ FlushAfterList(FALSE)
  /\ UNCHANGED <<attached, up, tabs, spent>>

NewChatFails(c) ==
  /\ opening[c] = "new"
  /\ "failed" \in Outcomes
  /\ opening' = [opening EXCEPT ![c] = "no"]
  /\ UNCHANGED <<active, open, used, msgs>>
  /\ FlushSnapshot(FALSE)
  /\ UNCHANGED <<attached, up, tabs, spent>>

-----------------------------------------------------------------------------
(* The tab: messages from the server.                                      *)

Receive(t, type) ==
  /\ down[t] # <<>> /\ Head(down[t]).type = type
  /\ down' = [down EXCEPT ![t] = Tail(@)]
  /\ UNCHANGED <<table, emitter, sockets, connected, log, drops, spent>>

Ask(t, m) == up' = [up EXCEPT ![t] = Append(@, m)]

(* cacheSnapshot: previews are not remembered.                             *)
CacheSnapshot(t, s) ==
  cache' = IF s.booting THEN cache ELSE [cache EXCEPT ![t][s.conv] = s]

ReceiveReady(t) ==
  /\ Receive(t, "ready")
  /\ Ask(t, [type |-> "get_state"])
  /\ UNCHANGED <<view, cache, list, pending, resync>>

(* pruneSnapshots: what left the list leaves the cache.                    *)
ReceiveConversations(t) ==
  /\ Receive(t, "conversations")
  /\ LET convs == Head(down[t]).convs IN
       /\ list' = [list EXCEPT ![t] = convs]
       /\ cache' = [cache EXCEPT ![t] =
                     [c \in Conv |-> IF c \in convs THEN @[c] ELSE NoSnapshot]]
  /\ UNCHANGED <<up, view, pending, resync>>

(* Any snapshot is authoritative, and settles a pending click.             *)
ReceiveSnapshot(t) ==
  /\ Receive(t, "snapshot")
  /\ LET s == Head(down[t]).state IN
       /\ view' = [view EXCEPT ![t] = s]
       /\ CacheSnapshot(t, s)
  /\ pending' = [pending EXCEPT ![t] = NoConv]
  /\ UNCHANGED <<up, list, resync>>

ChainsByChat(s, d) == s.conv = d.conv /\ s.rev < d.rev

Chains(s, d) == s.conv = d.conv /\ s.rev = d.base

Merged(s, d) == Snapshot(s.conv, d.rev, s.msgs \o d.appended, s.booting)

(* A delta applies where it chains: to the state on screen, else to the    *)
(* cached one.  Off screen it asks for a resync, unless a click is pending.*)
ReceiveDelta(t) ==
  /\ Receive(t, "snapshot_delta")
  /\ LET d == Head(down[t])
         cached == cache[t][d.conv]
     IN  \/ /\ Chains(view[t], d)
            /\ view' = [view EXCEPT ![t] = Merged(@, d)]
            /\ CacheSnapshot(t, Merged(view[t], d))
            /\ UNCHANGED resync
         \/ /\ ~Chains(view[t], d)
            /\ IF Chains(cached, d) THEN CacheSnapshot(t, Merged(cached, d))
                                    ELSE UNCHANGED cache
            /\ resync' = [resync EXCEPT ![t] = @ \/ pending[t] = NoConv]
            /\ UNCHANGED view
  /\ UNCHANGED <<up, list, pending>>

-----------------------------------------------------------------------------
(* The tab: its user and its timers.                                       *)

InTab == UNCHANGED <<table, emitter, sockets, down, log, drops>>

(* sendBlocked: what is on screen is a guess of the tab's or a preview.    *)
SendBlocked(t) == pending[t] # NoConv \/ view[t].booting

(* A click on the list; a cached snapshot is painted at once.              *)
ClickSwitch(t, c) ==
  /\ "switch" \in Clicks /\ connected[t] /\ Spend("click")
  /\ c \in list[t]
  /\ Ask(t, [type |-> "switch_conversation", conv |-> c])
  /\ IF view[t].conv = c /\ pending[t] # NewChat
     THEN UNCHANGED <<pending, view>>
     ELSE /\ pending' = [pending EXCEPT ![t] = c]
          /\ view' = [view EXCEPT ![t] = IF cache[t][c] = NoSnapshot THEN @ ELSE cache[t][c]]
  /\ UNCHANGED <<connected, cache, list, resync>>
  /\ InTab

ClickNewChat(t) ==
  /\ "new" \in Clicks /\ connected[t] /\ Spend("click")
  /\ Ask(t, [type |-> "new_chat"])
  /\ pending' = IF view[t] = NoSnapshot THEN pending ELSE [pending EXCEPT ![t] = NewChat]
  /\ UNCHANGED <<connected, view, cache, list, resync>>
  /\ InTab

(* The saved sessions are listed beside the first snapshot.                *)
ClickSession(t) ==
  /\ "open" \in Clicks /\ connected[t] /\ Spend("click")
  /\ view[t] # NoSnapshot
  /\ Ask(t, [type |-> "switch_session"])
  /\ UNCHANGED tabs
  /\ InTab

(* The text is addressed to what is on screen; the message does not say.   *)
SendPrompt(t) ==
  /\ "prompt" \in Clicks /\ connected[t] /\ Spend("click")
  /\ view[t] # NoSnapshot /\ ~SendBlocked(t)
  /\ Ask(t, [type |-> "prompt", shown |-> view[t].conv])
  /\ UNCHANGED tabs
  /\ InTab

(* switch_timeout, optimistic_timeout: 15 s after the click.               *)
ClickTimeout(t) ==
  /\ "wait" \in Clicks /\ pending[t] # NoConv
  /\ pending' = [pending EXCEPT ![t] = NoConv]
  /\ UNCHANGED <<up, connected, view, cache, list, resync, spent>>
  /\ InTab

ScheduledResyncUnsent(t) ==
  /\ resync[t]
  /\ resync' = [resync EXCEPT ![t] = FALSE]
  /\ UNCHANGED <<up, connected, view, cache, list, pending, spent>>
  /\ InTab

ScheduledResync(t) ==
  /\ resync[t]
  /\ resync' = [resync EXCEPT ![t] = FALSE]
  /\ IF connected[t] THEN Ask(t, [type |-> "get_state"]) ELSE UNCHANGED up
  /\ UNCHANGED <<connected, view, cache, list, pending, spent>>
  /\ InTab

-----------------------------------------------------------------------------
(* Sockets and the process.                                                *)

Connect(t) ==
  /\ ~connected[t]
  /\ connected' = [connected EXCEPT ![t] = TRUE]
  /\ up' = [up EXCEPT ![t] = <<[type |-> "hello"]>>]
  /\ UNCHANGED <<view, cache, list, pending, resync, spent>>
  /\ InTab

(* The socket closes with whatever is in flight; the tab keeps its state.  *)
Disconnect(t) ==
  /\ connected[t] /\ Spend("break")
  /\ connected' = [connected EXCEPT ![t] = FALSE]
  /\ up' = [up EXCEPT ![t] = <<>>]
  /\ down' = [down EXCEPT ![t] = <<>>]
  /\ attached' = [attached EXCEPT ![t] = FALSE]
  /\ sentFull' = [sentFull EXCEPT ![t] = FALSE]
  /\ retry' = [retry EXCEPT ![t] = FALSE]
  /\ UNCHANGED <<table, emitter, view, cache, list, pending, resync, log, drops>>

(* A new server process has no session until a tab says hello; its ids and *)
(* revisions start over, and the tabs keep what they show.                 *)
Restart ==
  /\ used # {} /\ Spend("restart")
  /\ active' = NoConv /\ open' = {} /\ used' = {}
  /\ opening' = [c \in Conv |-> "no"]
  /\ msgs' = [c \in Conv |-> <<>>]
  /\ snapRev' = 0
  /\ emitted' = [conv |-> NoConv, msgs |-> <<>>, rev |-> 0]
  /\ snapshotTimer' = FALSE
  /\ attached' = [t \in Tab |-> FALSE]
  /\ sentFull' = [t \in Tab |-> FALSE] /\ retry' = [t \in Tab |-> FALSE]
  /\ up' = Nothing /\ down' = Nothing
  /\ connected' = [t \in Tab |-> FALSE]
  /\ UNCHANGED <<view, cache, list, pending, resync, log, drops>>

-----------------------------------------------------------------------------
(* A server that has just started, and tabs that have not connected yet.   *)
Init ==
  /\ active = NoConv /\ open = {} /\ used = {}
  /\ opening = [c \in Conv |-> "no"]
  /\ msgs = [c \in Conv |-> <<>>]
  /\ snapRev = 0
  /\ emitted = [conv |-> NoConv, msgs |-> <<>>, rev |-> 0]
  /\ snapshotTimer = FALSE
  /\ attached = [t \in Tab |-> FALSE]
  /\ sentFull = [t \in Tab |-> FALSE] /\ retry = [t \in Tab |-> FALSE]
  /\ up = Nothing /\ down = Nothing
  /\ connected = [t \in Tab |-> FALSE]
  /\ view = [t \in Tab |-> NoSnapshot]
  /\ cache = [t \in Tab |-> [c \in Conv |-> NoSnapshot]]
  /\ list = [t \in Tab |-> {}]
  /\ pending = [t \in Tab |-> NoConv]
  /\ resync = [t \in Tab |-> FALSE]
  /\ log = {}
  /\ drops = 0
  /\ spent = [k \in Kind |-> 0]

(* The handlers of the session, and the boots they wait for.               *)
Served(t) ==
  \/ TakeHello(t) \/ TakeGetState(t) \/ TakeSwitch(t)
  \/ TakeNewChat(t) \/ TakeSwitchSession(t) \/ TakePrompt(t)

Opened(c) ==
  \/ SessionBooted(c) \/ SessionBound(c) \/ SessionRefused(c) \/ SessionFails(c)
  \/ NewChatBooted(c) \/ NewChatBound(c) \/ NewChatFails(c)

Received(t) ==
  \/ ReceiveReady(t) \/ ReceiveConversations(t)
  \/ ReceiveSnapshot(t) \/ ReceiveDelta(t)

Clicked(t) ==
  \/ \E c \in Conv : ClickSwitch(t, c)
  \/ ClickNewChat(t) \/ ClickSession(t) \/ SendPrompt(t)

Next ==
  \/ \E c \in Conv : OnEvent(c) \/ Opened(c)
  \/ SnapshotTimer
  \/ \E t \in Tab :
       \/ Served(t) \/ Received(t) \/ Clicked(t)
       \/ SnapshotRetry(t) \/ ClickTimeout(t) \/ ScheduledResync(t)
       \/ Connect(t) \/ Disconnect(t)
  \/ Restart

Spec == Init /\ [][Next]_vars

(* The event loops run what is ready: timers fire, boots end, queued       *)
(* messages are taken in order, and a tab reconnects.                      *)
Fairness ==
  /\ WF_vars(SnapshotTimer)
  /\ \A c \in Conv : WF_vars(Opened(c))
  /\ \A t \in Tab :
       /\ WF_vars(Served(t)) /\ WF_vars(Received(t))
       /\ WF_vars(SnapshotRetry(t)) /\ WF_vars(ScheduledResync(t))
       /\ WF_vars(ClickTimeout(t)) /\ WF_vars(Connect(t))

FairSpec == Spec /\ Fairness

-----------------------------------------------------------------------------
(* Properties                                                              *)

SnapshotType ==
  [conv : Conv, rev : Nat, msgs : Seq(Msg), booting : BOOLEAN]

UpType ==
  [type : {"hello", "get_state", "new_chat", "switch_session"}]
    \cup [type : {"switch_conversation"}, conv : Conv]
    \cup [type : {"prompt"}, shown : Conv]

DownType ==
  [type : {"ready"}]
    \cup [type : {"conversations"}, convs : SUBSET Conv]
    \cup [type : {"snapshot"}, state : SnapshotType]
    \cup [type : {"snapshot_delta"}, conv : Conv, rev : Nat, base : Nat, appended : Seq(Msg)]

(* Every piece of state has its type, and a session has an active          *)
(* conversation, which is open.                                            *)
TypeOK ==
  /\ IF used = {} THEN active = NoConv ELSE active \in open
  /\ open \subseteq used /\ used \subseteq Conv
  /\ opening \in [Conv -> Stages]
  /\ msgs \in [Conv -> Seq(Msg)]
  /\ snapRev \in Nat
  /\ emitted \in [conv : Conv \cup {NoConv}, msgs : Seq(Msg), rev : Nat]
  /\ snapshotTimer \in BOOLEAN
  /\ attached \in [Tab -> BOOLEAN] /\ sentFull \in [Tab -> BOOLEAN]
  /\ retry \in [Tab -> BOOLEAN]
  /\ up \in [Tab -> Seq(UpType)] /\ down \in [Tab -> Seq(DownType)]
  /\ connected \in [Tab -> BOOLEAN]
  /\ view \in [Tab -> SnapshotType \cup {NoSnapshot}]
  /\ cache \in [Tab -> [Conv -> SnapshotType \cup {NoSnapshot}]]
  /\ list \in [Tab -> SUBSET Conv]
  /\ pending \in [Tab -> Conv \cup {NoConv, NewChat}]
  /\ resync \in [Tab -> BOOLEAN]
  /\ log \subseteq SnapshotType
  /\ drops \in Nat
  /\ spent \in [Kind -> Nat]

(* Whatever deltas, drops, reconnects and cached paints a tab has been     *)
(* through, the state it shows and every state it keeps for a later click  *)
(* is one the server published, message for message.                       *)
ShownWasPublished ==
  \A t \in Tab :
    /\ view[t] \in log \cup {NoSnapshot}
    /\ \A c \in Conv : cache[t][c] \in log \cup {NoSnapshot}

(* The tabs implement the board: published states only, and never a        *)
(* conversation older than the tab just showed it.                         *)
Board == INSTANCE SnapshotBoard
           WITH Entry <- SnapshotType, Blank <- NoSnapshot, shown <- view
ImplementsBoard == Board!Spec

(* Nothing under way that could still send tab t a snapshot.               *)
Quiet(t) ==
  /\ attached[t] /\ up[t] = <<>> /\ down[t] = <<>>
  /\ ~snapshotTimer /\ ~retry[t] /\ ~resync[t]
  /\ \A c \in Conv : opening[c] = "no"

(* A click is answered: once nothing is under way, no tab waits for its    *)
(* 15 s timeout with the composer locked.                                  *)
ClicksAnswered ==
  \A t \in Tab : Quiet(t) => pending[t] = NoConv

(* Sends are held while a switch is unanswered: a prompt that follows a    *)
(* switch on the wire, and so reaches the conversation switched to, was    *)
(* written with that conversation on screen.                               *)
SendsHeld ==
  \A t \in Tab : \A i \in 1..(Len(up[t]) - 1) :
    (up[t][i].type = "switch_conversation" /\ up[t][i + 1].type = "prompt")
      => up[t][i + 1].shown = up[t][i].conv

InSync(t) ==
  /\ attached[t]
  /\ view[t].conv = active /\ view[t].msgs = msgs[active] /\ ~view[t].booting
  /\ pending[t] = NoConv

(* When the user, the runs and the network leave it alone, every tab ends  *)
(* up showing the active conversation as it is on the server.              *)
Converges == \A t \in Tab : <>[]InSync(t)
=============================================================================
