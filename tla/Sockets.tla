------------------------------ MODULE Sockets ------------------------------
(***************************************************************************)
(* The connections of the browser tabs (index.ts) and the sessions of      *)
(* their clients (AgentService): a tab says hello and is attached to the   *)
(* session of its client, which the first one creates; messages that come  *)
(* earlier are held.  The service drains on quiesce, records the runs it   *)
(* cuts short when it stops, and tells the client of them when it is back. *)
(***************************************************************************)
EXTENDS Naturals, Sequences, FiniteSets, SequencesExt

CONSTANTS
  Socket,        \* tabs, each with one connection at a time
  Client,        \* client ids
  ClientOf,      \* Socket -> Client: tabs of one browser share the id
  Systemd,       \* the supervisor is systemd: /quit exits without a shutdown
  MaxBreaks,     \* bound: connections that break
  MaxFailures,   \* bound: sessions that cannot be created
  MaxStops,      \* bound: times the process stops
  MaxToggles,    \* bound: quiesce and unquiesce
  MaxMessages    \* bound: messages of one connection

VARIABLES
  process,       \* "up", "disposing" (disposeAll awaits), "down"
  sock,          \* Socket -> state of its connection
  queue,         \* Client -> sockets in attach awaiting the session, in order
  session,       \* Client -> "none", "creating" (pending) or "ready" (clients)
  sinks,         \* Client -> sockets the session broadcasts to
  created,       \* Client -> sessions there are, being created or in use
  sent, held, handled,   \* Socket -> messages sent, of which held, dispatched
  quiesced,
  admitted,      \* clients with a prompt past quiesceBlocked, not yet running
  streaming,     \* clients with a run
  interrupted,   \* clients with a record of cut runs in client-state.json
  cut,           \* clients with a run cut short that no tab was told of
  unrecorded,    \* those of them the code cannot tell of, see NoticeKept
  breaks, failures, stops, toggles

sockVars == <<process, sock, queue, session, sinks, created, sent, held, handled,
              quiesced, admitted, streaming, interrupted, cut, unrecorded, breaks,
              failures, stops, toggles>>

SockState == {"closed", "open", "attaching", "attached", "failed", "refused"}
Connected == {s \in Socket : sock[s] # "closed"}

SockTypeOK ==
  /\ process \in {"up", "disposing", "down"} /\ quiesced \in BOOLEAN
  /\ sock \in [Socket -> SockState]
  /\ session \in [Client -> {"none", "creating", "ready"}]
  /\ \A c \in Client : /\ ToSet(queue[c]) \subseteq {s \in Socket : ClientOf[s] = c}
                       /\ queue[c] # <<>> => session[c] = "creating"
                       /\ sinks[c] # {} => session[c] = "ready"
                       /\ created[c] \in 0 .. 3
  /\ \A s \in Socket : Len(held[s]) + Len(handled[s]) <= sent[s]
  /\ admitted \cup streaming \cup interrupted \cup cut \cup unrecorded \subseteq Client
  /\ streaming \subseteq {c \in Client : session[c] = "ready"}

SockInit ==
  /\ process = "up" /\ quiesced = FALSE
  /\ sock = [s \in Socket |-> "closed"]
  /\ queue = [c \in Client |-> <<>>] /\ session = [c \in Client |-> "none"]
  /\ sinks = [c \in Client |-> {}] /\ created = [c \in Client |-> 0]
  /\ sent = [s \in Socket |-> 0]
  /\ held = [s \in Socket |-> <<>>] /\ handled = [s \in Socket |-> <<>>]
  /\ admitted = {} /\ streaming = {} /\ interrupted = {} /\ cut = {}
  /\ unrecorded = {} /\ breaks = 0 /\ failures = 0 /\ stops = 0 /\ toggles = 0

Messages == <<sent, held, handled>>
Bounds == <<breaks, failures, stops, toggles>>
Runs == <<admitted, streaming, cut, unrecorded, interrupted>>

-----------------------------------------------------------------------------
(* The tab connects; a new connection has sent nothing.                     *)
Open(s) ==
  /\ sock[s] = "closed" /\ process # "down"
  /\ sock' = [sock EXCEPT ![s] = "open"]
  /\ sent' = [sent EXCEPT ![s] = 0]
  /\ held' = [held EXCEPT ![s] = <<>>] /\ handled' = [handled EXCEPT ![s] = <<>>]
  /\ UNCHANGED <<process, queue, session, sinks, created, quiesced, Runs, Bounds>>

(* The record of cut runs is taken and sent to this socket with the other   *)
(* startup notices: a socket that has closed meanwhile sends nothing.       *)
TakeInterrupted(c, s) ==
  /\ interrupted' = interrupted \ {c}
  /\ IF c \in interrupted
     THEN IF sock[s] = "closed"
          THEN unrecorded' = unrecorded \cup {c} /\ cut' = cut
          ELSE cut' = cut \ {c} /\ unrecorded' = unrecorded \ {c}
     ELSE UNCHANGED <<cut, unrecorded>>

MutNoInflight(s) ==
  LET c == ClientOf[s] IN
  /\ sock[s] = "open"
  /\ IF session[c] = "ready"
     THEN /\ sinks' = [sinks EXCEPT ![c] = @ \cup {s}]
          /\ sock' = [sock EXCEPT ![s] = "attached"]
          /\ TakeInterrupted(c, s)
          /\ UNCHANGED <<queue, session, created>>
     ELSE /\ ~quiesced
          /\ session' = [session EXCEPT ![c] = "creating"]
          /\ created' = [created EXCEPT ![c] = @ + 1]
          /\ queue' = [queue EXCEPT ![c] = Append(@, s)]
          /\ sock' = [sock EXCEPT ![s] = "attaching"]
          /\ UNCHANGED <<sinks, cut, unrecorded, interrupted>>
  /\ UNCHANGED <<process, Messages, quiesced, admitted, streaming, Bounds>>

MutHalfAlive(s) ==
  LET c == ClientOf[s] IN
  /\ sock[s] = "open"
  /\ CASE session[c] = "ready" ->
            /\ sinks' = [sinks EXCEPT ![c] = @ \cup {s}]
            /\ sock' = [sock EXCEPT ![s] = "attached"]
            /\ TakeInterrupted(c, s)
            /\ UNCHANGED <<queue, session, created>>
       [] session[c] = "none" /\ quiesced ->
            /\ sock' = [sock EXCEPT ![s] = "attaching"]
            /\ UNCHANGED <<sinks, queue, session, created, cut, unrecorded, interrupted>>
       [] OTHER ->
            /\ session' = [session EXCEPT ![c] = "creating"]
            /\ created' = [created EXCEPT ![c] = IF session[c] = "none" THEN @ + 1 ELSE @]
            /\ queue' = [queue EXCEPT ![c] = Append(@, s)]
            /\ sock' = [sock EXCEPT ![s] = "attaching"]
            /\ UNCHANGED <<sinks, cut, unrecorded, interrupted>>
  /\ UNCHANGED <<process, Messages, quiesced, admitted, streaming, Bounds>>

(* hello, and attach up to its first await: a session in use takes the      *)
(* socket at once, one being created is waited for, and a new one is not    *)
(* created while the service drains.                                        *)
Hello(s) ==
  LET c == ClientOf[s] IN
  /\ sock[s] = "open"
  /\ CASE session[c] = "ready" ->
            /\ sinks' = [sinks EXCEPT ![c] = @ \cup {s}]
            /\ sock' = [sock EXCEPT ![s] = "attached"]
            /\ TakeInterrupted(c, s)
            /\ UNCHANGED <<queue, session, created>>
       [] session[c] = "none" /\ quiesced ->
            /\ sock' = [sock EXCEPT ![s] = "refused"]
            /\ UNCHANGED <<sinks, queue, session, created, cut, unrecorded, interrupted>>
       [] OTHER ->
            /\ session' = [session EXCEPT ![c] = "creating"]
            /\ created' = [created EXCEPT ![c] = IF session[c] = "none" THEN @ + 1 ELSE @]
            /\ queue' = [queue EXCEPT ![c] = Append(@, s)]
            /\ sock' = [sock EXCEPT ![s] = "attaching"]
            /\ UNCHANGED <<sinks, cut, unrecorded, interrupted>>
  /\ UNCHANGED <<process, Messages, quiesced, admitted, streaming, Bounds>>

MutForgetsHeld(c) == UNCHANGED <<held, handled>>
MutHandlesTwice(c) ==
  /\ handled' = [s \in Socket |-> IF sock[s] = "attaching" THEN handled[s] \o held[s]
                                                           ELSE handled[s]]
  /\ UNCHANGED held

(* The messages held for a session that is ready now, in order.             *)
Replay(c) ==
  LET ready == {s \in ToSet(queue[c]) : sock[s] = "attaching"} IN
  /\ handled' = [s \in Socket |-> IF s \in ready THEN handled[s] \o held[s] ELSE handled[s]]
  /\ held' = [s \in Socket |-> IF s \in ready THEN <<>> ELSE held[s]]

(* The session is there: every attach that waits for it goes on, those of   *)
(* sockets that have closed included.                                       *)
SessionCreated(c) ==
  /\ session[c] = "creating"
  /\ session' = [session EXCEPT ![c] = "ready"]
  /\ sinks' = [sinks EXCEPT ![c] = ToSet(queue[c])]
  /\ sock' = [s \in Socket |-> IF s \in ToSet(queue[c]) /\ sock[s] = "attaching"
                               THEN "attached" ELSE sock[s]]
  /\ TakeInterrupted(c, Head(queue[c]))
  /\ Replay(c)
  /\ queue' = [queue EXCEPT ![c] = <<>>]
  /\ UNCHANGED <<process, created, sent, quiesced, admitted, streaming, Bounds>>

(* create rejects: each socket is told and stays open, without a session.   *)
SessionFails(c) ==
  /\ session[c] = "creating" /\ failures < MaxFailures
  /\ failures' = failures + 1
  /\ session' = [session EXCEPT ![c] = "none"]
  /\ created' = [created EXCEPT ![c] = @ - 1]
  /\ sock' = [s \in Socket |-> IF s \in ToSet(queue[c]) /\ sock[s] = "attaching"
                               THEN "failed" ELSE sock[s]]
  /\ queue' = [queue EXCEPT ![c] = <<>>]
  /\ UNCHANGED <<process, sinks, Messages, quiesced, Runs, breaks, stops, toggles>>

(* dispatch: held until there is a session for the client id.               *)
Message(s) ==
  /\ sock[s] \in {"attaching", "attached", "failed"}
  /\ sent[s] < MaxMessages
  /\ sent' = [sent EXCEPT ![s] = @ + 1]
  /\ IF session[ClientOf[s]] = "ready"
     THEN handled' = [handled EXCEPT ![s] = Append(@, sent[s] + 1)] /\ held' = held
     ELSE held' = [held EXCEPT ![s] = Append(@, sent[s] + 1)] /\ handled' = handled
  /\ UNCHANGED <<process, sock, queue, session, sinks, created, quiesced, Runs, Bounds>>

MutDetachesAll(s) == sinks' = [sinks EXCEPT ![ClientOf[s]] = {}]

(* detach: of the session there is; an attach that still awaits one adds    *)
(* its sink later.                                                          *)
Detach(s) == sinks' = [sinks EXCEPT ![ClientOf[s]] = @ \ {s}]

(* The close event, of a connection that broke or was refused.              *)
Closed(s) ==
  /\ sock[s] # "closed"
  /\ sock[s] = "refused" \/ (breaks < MaxBreaks /\ process # "down")
  /\ breaks' = IF sock[s] = "refused" THEN breaks ELSE breaks + 1
  /\ sock' = [sock EXCEPT ![s] = "closed"]
  /\ held' = [held EXCEPT ![s] = <<>>]
  /\ Detach(s)
  /\ UNCHANGED <<process, queue, session, created, sent, handled, quiesced, Runs,
                 failures, stops, toggles>>

-----------------------------------------------------------------------------
(* A prompt passes quiesceBlocked; its attachments are read before it runs. *)
PromptAdmitted(c) ==
  /\ session[c] = "ready" /\ ~quiesced /\ c \notin admitted \cup streaming
  /\ sinks[c] # {}
  /\ admitted' = admitted \cup {c}
  /\ UNCHANGED <<process, sock, queue, session, sinks, created, Messages, quiesced,
                 streaming, cut, unrecorded, interrupted, Bounds>>

RunStarts(c) ==
  /\ c \in admitted /\ session[c] = "ready"
  /\ admitted' = admitted \ {c} /\ streaming' = streaming \cup {c}
  /\ UNCHANGED <<process, sock, queue, session, sinks, created, Messages, quiesced,
                 cut, unrecorded, interrupted, Bounds>>

RunEnds(c) ==
  /\ c \in streaming
  /\ streaming' = streaming \ {c}
  /\ UNCHANGED <<process, sock, queue, session, sinks, created, Messages, quiesced,
                 admitted, cut, unrecorded, interrupted, Bounds>>

(* quiesce and unquiesce of the control socket.                             *)
Toggle ==
  /\ process = "up" /\ toggles < MaxToggles
  /\ toggles' = toggles + 1 /\ quiesced' = ~quiesced
  /\ UNCHANGED <<process, sock, queue, session, sinks, created, Messages, Runs,
                 breaks, failures, stops>>

-----------------------------------------------------------------------------
MutClearsFirst == interrupted' = interrupted

(* disposeAll first records what still streams.                             *)
SaveInterrupted == interrupted' = interrupted \cup streaming

(* SIGTERM or /quit: shutdown, up to the await of the sessions' disposal.   *)
(* The port still listens, and a session still being created appears later. *)
Shutdown ==
  /\ process = "up" /\ stops < MaxStops
  /\ process' = "disposing" /\ stops' = stops + 1
  /\ SaveInterrupted
  /\ cut' = cut \cup streaming
  /\ streaming' = {} /\ admitted' = admitted \ {c \in Client : session[c] = "ready"}
  /\ session' = [c \in Client |-> IF session[c] = "ready" THEN "none" ELSE session[c]]
  /\ created' = [c \in Client |-> IF session[c] = "ready" THEN created[c] - 1 ELSE created[c]]
  /\ sinks' = [c \in Client |-> {}]
  /\ UNCHANGED <<sock, queue, Messages, quiesced, unrecorded, breaks, failures, toggles>>

(* The process goes, and with it every connection and every run.            *)
Gone ==
  /\ process' = "down"
  /\ sock' = [s \in Socket |-> "closed"]
  /\ queue' = [c \in Client |-> <<>>] /\ session' = [c \in Client |-> "none"]
  /\ sinks' = [c \in Client |-> {}] /\ created' = [c \in Client |-> 0]
  /\ held' = [s \in Socket |-> <<>>]
  /\ quiesced' = FALSE /\ admitted' = {} /\ streaming' = {}
  /\ cut' = cut \cup streaming
  /\ unrecorded' = unrecorded \cup streaming
  /\ UNCHANGED <<sent, handled, interrupted, breaks, failures, toggles>>

(* The sessions are disposed of.                                            *)
Exit == process = "disposing" /\ Gone /\ stops' = stops

(* A crash, or /quit under systemd, which exits at once.                    *)
Dies ==
  /\ process = "up" /\ stops < MaxStops /\ Systemd
  /\ Gone /\ stops' = stops + 1

Start ==
  /\ process = "down" /\ process' = "up"
  /\ UNCHANGED <<sock, queue, session, sinks, created, Messages, quiesced, Runs, Bounds>>

SockNext ==
  \/ \E s \in Socket : Open(s) \/ Hello(s) \/ Message(s) \/ Closed(s)
  \/ \E c \in Client : \/ SessionCreated(c) \/ SessionFails(c)
                       \/ PromptAdmitted(c) \/ RunStarts(c) \/ RunEnds(c)
  \/ Toggle \/ Shutdown \/ Exit \/ Dies \/ Start

-----------------------------------------------------------------------------
(* An attached tab is a sink of its client's session until the service      *)
(* stops, whatever tabs of the client came and went while the session was   *)
(* created (attach, detach).                                                *)
AttachedTabsHear ==
  process = "up" => \A s \in Socket : sock[s] = "attached" =>
    session[ClientOf[s]] = "ready" /\ s \in sinks[ClientOf[s]]

(* A client has one session, however many of its tabs say hello at once, or *)
(* while one is created or fails (the pending map of attach).               *)
OneSession == \A c \in Client : created[c] <= 1

(* The session handles what an attached tab sent in order and without a     *)
(* gap, early messages included (pending of the connection).                *)
HandledInOrder ==
  process = "up" => \A s \in Socket : sock[s] = "attached" =>
    handled[s] = [i \in 1 .. sent[s] |-> i]

(* A run cut short by a stop of the service is on record until a tab of its *)
(* client is told, except for three ways the code has to lose it: the exit  *)
(* came without shutdown, the run began while that was disposing, or the    *)
(* tab whose hello created the session had closed again (notifyInterrupted).*)
NoticeKept == cut \subseteq interrupted \cup unrecorded

(* ... without the exceptions: the next attach tells the user.              *)
InterruptedTold == cut \subseteq interrupted

(* A closed socket is no sink (the comment of AgentService.detach).         *)
NoGhostSinks == \A c \in Client : \A s \in sinks[c] : sock[s] # "closed"

(* Once drained, a quiesced service stays so (quiesceBlocked: a hard gate). *)
DrainedStaysDrained ==
  [][quiesced /\ quiesced' /\ process = "up" /\ streaming = {} => streaming' = {}]_sockVars

(* A tab ends up attached, or told that its session cannot be created, once *)
(* the service no longer drains: refusals, breaks and restarts are retried. *)
EveryTabAttached ==
  <>[]~quiesced => \A s \in Socket : <>[](sock[s] \in {"attached", "failed"})
=============================================================================
