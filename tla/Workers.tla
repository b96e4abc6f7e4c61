------------------------------ MODULE Workers ------------------------------
(***************************************************************************)
(* Following a delegated worker: the hub of each conversation (class       *)
(* WorkerHub and the worker handlers of ClientSession), which knows the    *)
(* workers its extension reports and those a client follows, the throttled *)
(* pushes of their transcripts, and the pane of each tab.                  *)
(* A transcript is the number of events that made it.                      *)
(***************************************************************************)
EXTENDS Naturals, Sequences, FiniteSets

CONSTANTS
  Tab, Chat, FirstChat,
  Worker,        \* worker ids; every conversation numbers its own
  MaxEvents,     \* bound: transcript events of one worker
  MaxPending     \* bound: messages in flight to or from one tab

VARIABLES
  active,       \* ClientSession.activeId
  known,        \* [Chat -> the workers in the hub]
  open,         \* [Chat -> WorkerHub.open]
  vanished,     \* [Chat -> workers that were dropped from the hub once]
  live,         \* [Chat -> [Worker -> events in the live transcript]]
  pushTimers,   \* workerPushTimers, <<chat, worker>>
  shown,        \* conversation on each tab's screen
  selected,     \* worker its pane shows, or NoWorker
  pane,         \* what the pane has of it
  requests, replies      \* messages in flight from and to each tab

workerVars == <<active, known, open, vanished, live, pushTimers, shown, selected, pane, requests, replies>>

NoWorker == 0
Request == [type : {"open_worker", "close_worker"}, worker : Worker, chat : Chat]
           \cup [type : {"switch_conversation"}, worker : {NoWorker}, chat : Chat]
Answer == [type : {"worker_transcript"}, chat : Chat, worker : Worker, events : 0..MaxEvents]
          \cup [type : {"snapshot"}, chat : Chat, worker : {NoWorker}, events : {0}]

WorkerTypeOK ==
  /\ active \in Chat /\ shown \in [Tab -> Chat]
  /\ known \in [Chat -> SUBSET Worker] /\ open \in [Chat -> SUBSET Worker]
  /\ vanished \in [Chat -> SUBSET Worker]
  /\ live \in [Chat -> [Worker -> 0..MaxEvents]]
  /\ pushTimers \subseteq Chat \X Worker
  /\ selected \in [Tab -> Worker \cup {NoWorker}] /\ pane \in [Tab -> 0..MaxEvents]
  /\ requests \in [Tab -> Seq(Request)] /\ replies \in [Tab -> Seq(Answer)]

WorkerInit ==
  /\ active = FirstChat
  /\ known = [c \in Chat |-> {}] /\ open = [c \in Chat |-> {}]
  /\ vanished = [c \in Chat |-> {}]
  /\ live = [c \in Chat |-> [w \in Worker |-> 0]]
  /\ pushTimers = {}
  /\ shown = [t \in Tab |-> FirstChat] /\ selected = [t \in Tab |-> NoWorker]
  /\ pane = [t \in Tab |-> 0]
  /\ requests = [t \in Tab |-> <<>>] /\ replies = [t \in Tab |-> <<>>]

Emit(m) == replies' = [t \in Tab |-> Append(replies[t], m)]
Room == \A t \in Tab : Len(replies[t]) < MaxPending

-----------------------------------------------------------------------------
(* The extension's events, onWorkerEvent                                    *)

MutOpenOutlives(c, ws) == open[c]
(* applyList: a worker that is no longer reported is dropped and unfollowed.*)
OpenAfterList(c, ws) == open[c] \cap ws

WorkersEvent(c, ws) ==
  /\ known[c] # ws
  /\ known' = [known EXCEPT ![c] = ws]
  /\ vanished' = [vanished EXCEPT ![c] = @ \cup (known[c] \ ws)]
  /\ live' = [live EXCEPT ![c] = [w \in Worker |-> IF w \in known[c] \cap ws THEN live[c][w] ELSE 0]]
  /\ open' = [open EXCEPT ![c] = OpenAfterList(c, ws)]
  /\ pushTimers' = pushTimers \cup ({c} \X OpenAfterList(c, ws))
  /\ UNCHANGED <<active, shown, selected, pane, requests, replies>>

(* scheduleWorkerPush, for a worker somebody follows; one timer each.       *)
PushesFor(c, w) == IF w \in open[c] THEN {<<c, w>>} ELSE {}

TranscriptEvent(c, w) ==
  /\ w \in known[c] /\ live[c][w] < MaxEvents
  /\ live' = [live EXCEPT ![c][w] = @ + 1]
  /\ pushTimers' = pushTimers \cup PushesFor(c, w)
  /\ UNCHANGED <<active, known, open, vanished, shown, selected, pane, requests, replies>>

Transcript(c, w) ==
  [type |-> "worker_transcript", chat |-> c, worker |-> w, events |-> live[c][w]]

(* The timer, pushWorkerTranscript: nothing for a worker unfollowed since.  *)
Push(c, w) ==
  /\ <<c, w>> \in pushTimers /\ Room
  /\ pushTimers' = pushTimers \ {<<c, w>>}
  /\ IF w \in open[c] THEN Emit(Transcript(c, w)) ELSE UNCHANGED replies
  /\ UNCHANGED <<active, known, open, vanished, live, shown, selected, pane, requests>>

-----------------------------------------------------------------------------
(* The tab's requests, served in the order they were sent.                  *)
(* openWorker replies now; closeWorker and openWorker mean the ACTIVE       *)
(* conversation, whatever the tab shows.                                    *)
Serve(t) ==
  /\ requests[t] # <<>> /\ Room
  /\ requests' = [requests EXCEPT ![t] = Tail(@)]
  /\ LET m == Head(requests[t]) IN
     \/ /\ m.type = "open_worker"
        /\ IF m.worker \in known[active]
           THEN open' = [open EXCEPT ![active] = @ \cup {m.worker}]
                /\ Emit(Transcript(active, m.worker))
           ELSE UNCHANGED <<open, replies>>
        /\ UNCHANGED active
     \/ /\ m.type = "close_worker"
        /\ open' = [open EXCEPT ![active] = @ \ {m.worker}]
        /\ UNCHANGED <<active, replies>>
     \/ /\ m.type = "switch_conversation"
        /\ active' = m.chat
        /\ Emit([type |-> "snapshot", chat |-> m.chat, worker |-> NoWorker, events |-> 0])
        /\ UNCHANGED open
  /\ UNCHANGED <<known, vanished, live, pushTimers, shown, selected, pane>>

Ask(t, w, type) == [type |-> type, worker |-> w, chat |-> shown[t]]

(* The pane opens on a worker, or goes back to the list.                    *)
Select(t, w) ==
  /\ Len(requests[t]) + 1 < MaxPending /\ selected[t] # w
  /\ w # NoWorker => w \in known[shown[t]]
  /\ selected' = [selected EXCEPT ![t] = w]
  /\ pane' = [pane EXCEPT ![t] = 0]
  /\ requests' = [requests EXCEPT ![t] = @
       \o (IF selected[t] = NoWorker THEN <<>> ELSE <<Ask(t, selected[t], "close_worker")>>)
       \o (IF w = NoWorker THEN <<>> ELSE <<Ask(t, w, "open_worker")>>)]
  /\ UNCHANGED <<active, known, open, vanished, live, pushTimers, shown, replies>>

MutNoResubscribe(t, w) == <<>>
(* The effect of WorkersPanel: another conversation is on the screen.       *)
Resubscribe(t, w) ==
  IF w = NoWorker THEN <<>> ELSE <<Ask(t, w, "close_worker"), Ask(t, w, "open_worker")>>

(* A click in the sidebar; the screen follows with the server's snapshot.   *)
SwitchConversation(t, c) ==
  /\ Len(requests[t]) < MaxPending /\ c # shown[t]
  /\ requests' = [requests EXCEPT ![t] = Append(@, [type |-> "switch_conversation",
                                        worker |-> NoWorker, chat |-> c])]
  /\ UNCHANGED <<active, known, open, vanished, live, pushTimers, shown, selected, pane, replies>>

Receive(t) ==
  /\ replies[t] # <<>>
  /\ replies' = [replies EXCEPT ![t] = Tail(@)]
  /\ LET m == Head(replies[t]) IN
     IF m.type = "snapshot" /\ m.chat # shown[t]
     THEN /\ Len(requests[t]) + 1 < MaxPending
          /\ shown' = [shown EXCEPT ![t] = m.chat]
          /\ pane' = [pane EXCEPT ![t] = 0]
          /\ selected' = [selected EXCEPT ![t] =
               IF @ \in known[m.chat] THEN @ ELSE NoWorker]
          /\ requests' = [requests EXCEPT ![t] = @ \o Resubscribe(t, selected'[t])]
     ELSE /\ pane' = IF m.type = "worker_transcript" /\ m.chat = shown[t]
                        /\ m.worker = selected[t]
                     THEN [pane EXCEPT ![t] = m.events] ELSE pane
          /\ UNCHANGED <<shown, selected, requests>>
  /\ UNCHANGED <<active, known, open, vanished, live, pushTimers>>

(* A selected worker that is gone from the list: back to the list.          *)
Vanish(t) ==
  /\ known[shown[t]] # {} /\ selected[t] \notin known[shown[t]] \cup {NoWorker}
  /\ Len(requests[t]) < MaxPending
  /\ requests' = [requests EXCEPT ![t] = Append(@, Ask(t, selected[t], "close_worker"))]
  /\ selected' = [selected EXCEPT ![t] = NoWorker]
  /\ UNCHANGED <<active, known, open, vanished, live, pushTimers, shown, pane, replies>>

WorkerNext ==
  \/ \E c \in Chat :
       \/ \E ws \in SUBSET Worker : WorkersEvent(c, ws)
       \/ \E w \in Worker : TranscriptEvent(c, w) \/ Push(c, w)
  \/ \E t \in Tab :
       \/ Serve(t) \/ Receive(t) \/ Vanish(t)
       \/ \E w \in Worker \cup {NoWorker} : Select(t, w)
       \/ \E c \in Chat : SwitchConversation(t, c)

WorkerSpec == WorkerInit /\ [][WorkerNext]_workerVars

-----------------------------------------------------------------------------
Still(t) == /\ requests[t] = <<>> /\ replies[t] = <<>> /\ pushTimers = {}
            /\ shown[t] = active

(* With one tab, a pane that shows a worker shows all of its transcript     *)
(* once nothing is under way: it follows the worker of the conversation on  *)
(* the screen, also across switches.  (A worker that vanished and was       *)
(* reported again is no longer followed by a pane that still shows it.)     *)
FollowerUpToDate ==
  \A t \in Tab : (Still(t) /\ selected[t] \in known[active] \ vanished[active]) =>
    pane[t] = live[active][selected[t]]

(* Only workers the hub knows are followed, so that a worker id the         *)
(* extension uses again is not pushed to a pane that never asked for it.    *)
FollowedAreKnown == \A c \in Chat : open[c] \subseteq known[c]
=============================================================================
