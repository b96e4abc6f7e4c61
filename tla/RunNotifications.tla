-------------------------- MODULE RunNotifications --------------------------
(***************************************************************************)
(* The run of one conversation as the server sees it through the SDK's     *)
(* events (ClientSession.onEvent), and the notification it makes of it     *)
(* (class NotificationLifecycle).  The SDK is external: it starts a run,   *)
(* retries a failed request after a pause, continues with queued texts,    *)
(* and says agent_settled when nothing is left.  A run may settle while    *)
(* delegated workers of the conversation still work.                       *)
(***************************************************************************)
EXTENDS Naturals

CONSTANTS MaxTurns,  \* bound: prompts sent to the idle conversation
          MaxQueue   \* bound: texts waiting in the SDK's queues

VARIABLES
  sdk,         \* what the session does, see SdkPhase
  queued,      \* texts in the SDK's queues, mirrored in conv.queue*
  workers,     \* a worker of the hub is starting or running
  retryState,  \* conv.retryState is set
  run,         \* NotificationLifecycle.run
  lastStop,    \* stopReason of the last assistant message in the transcript
  turn,        \* prompts so far: the number of the top-level run
  stopped,     \* top-level runs the user stopped before they settled
  carried,     \* the run began with the record of an earlier one
  announced    \* notification_event messages sent, [turn, kind]

noteVars == <<sdk, queued, workers, retryState, run, lastStop, turn, stopped,
              carried, announced>>

(* "ended": agent_end has come, agent_settled has not; "backoff": the SDK   *)
(* sleeps before it retries.                                                *)
SdkPhase == {"idle", "streaming", "ended", "backoff"}
StopReason == {"none", "stop", "error", "aborted"}
NoRun == [final |-> "none", abort |-> FALSE, open |-> FALSE]

NoteTypeOK ==
  /\ sdk \in SdkPhase
  /\ queued \in 0..MaxQueue
  /\ workers \in BOOLEAN /\ retryState \in BOOLEAN /\ carried \in BOOLEAN
  /\ run \in [final : StopReason, abort : BOOLEAN, open : BOOLEAN]
  /\ ~run.open => run = NoRun
  /\ lastStop \in StopReason
  /\ turn \in 0..MaxTurns
  /\ stopped \subseteq 1..MaxTurns
  /\ announced \subseteq [turn : 1..MaxTurns, kind : {"run-completed", "run-failed"}]

NoteInit ==
  /\ sdk = "idle" /\ queued = 0 /\ workers = FALSE /\ retryState = FALSE
  /\ run = NoRun /\ lastStop = "none" /\ turn = 0
  /\ stopped = {} /\ carried = FALSE /\ announced = {}

-----------------------------------------------------------------------------
(* NotificationLifecycle                                                    *)

MutForgetsAbort(r) == [NoRun EXCEPT !.open = TRUE]
(* agentStart: continuations and retries share the record.                  *)
AgentStart(r) == IF r.open THEN r ELSE [NoRun EXCEPT !.open = TRUE]

MutKeepsFirst(r, stop) ==
  IF r.open /\ r.final = "none" THEN [r EXCEPT !.final = stop] ELSE r
(* agentEnd: the last assistant message decides.                            *)
AgentEnd(r, stop) == IF r.open THEN [r EXCEPT !.final = stop] ELSE r

AbortMark(r) == IF r.open THEN [r EXCEPT !.abort = TRUE] ELSE r

(* settled: the conditions under which the run is closed.                   *)
Closes(r) == /\ r.open /\ r.final # "none"
             /\ queued = 0
             /\ ~retryState
             /\ ~workers

(* The message a run that closes is announced with, if any.                 *)
MutOnlySuccess(r) ==
  IF r.abort \/ r.final # "stop" THEN {} ELSE {[turn |-> turn, kind |-> "run-completed"]}
Announcement(r) ==
  IF r.abort \/ r.final = "aborted" THEN {}
  ELSE {[turn |-> turn,
         kind |-> IF r.final = "error" THEN "run-failed" ELSE "run-completed"]}

-----------------------------------------------------------------------------
(* The session's events                                                     *)

(* A prompt to the idle conversation: agent_start.                          *)
Prompt ==
  /\ sdk = "idle" /\ turn < MaxTurns
  /\ sdk' = "streaming" /\ turn' = turn + 1
  /\ carried' = run.open
  /\ run' = AgentStart(run)
  /\ UNCHANGED <<queued, workers, retryState, lastStop, stopped, announced>>

(* retryLast: only after a failed turn, and not while one is generating or  *)
(* being retried.  The custom message triggers a turn: agent_start.         *)
RetryLast ==
  /\ sdk = "idle" /\ ~retryState /\ lastStop = "error"
  /\ turn < MaxTurns
  /\ sdk' = "streaming" /\ turn' = turn + 1
  /\ carried' = run.open
  /\ run' = AgentStart(run)
  /\ UNCHANGED <<queued, workers, retryState, lastStop, stopped, announced>>

(* prompt with steer or followUp while the run streams: queue_update.       *)
Queue ==
  /\ sdk = "streaming" /\ queued < MaxQueue
  /\ queued' = queued + 1
  /\ UNCHANGED <<sdk, workers, retryState, run, lastStop, turn, stopped, carried, announced>>

(* The SDK takes a queued text into the running turn, or continues with it  *)
(* after the turn has ended: queue_update, then agent_start.                *)
Deliver ==
  /\ sdk \in {"streaming", "ended"} /\ queued > 0
  /\ queued' = queued - 1
  /\ sdk' = "streaming"
  /\ run' = IF sdk = "ended" THEN AgentStart(run) ELSE run
  /\ UNCHANGED <<workers, retryState, lastStop, turn, stopped, carried, announced>>

(* agent_end: a retry to come puts the placeholder up, an end without one   *)
(* clears whatever was left.                                                *)
RetryStateAfter(stop, willRetry) == willRetry

End(stop, willRetry) ==
  /\ sdk = "streaming"
  /\ sdk' = IF willRetry THEN "backoff" ELSE "ended"
  /\ lastStop' = IF willRetry THEN "none" ELSE stop
  /\ run' = AgentEnd(run, stop)
  /\ retryState' = RetryStateAfter(stop, willRetry)
  /\ UNCHANGED <<queued, workers, turn, stopped, carried, announced>>

(* auto_retry_start, the pause, then the request again: agent_start.        *)
Retry ==
  /\ sdk = "backoff"
  /\ sdk' = "streaming"
  /\ retryState' = TRUE
  /\ run' = AgentStart(run)
  /\ UNCHANGED <<queued, workers, lastStop, turn, stopped, carried, announced>>

(* message_end without an error, or auto_retry_end: the banner goes.        *)
RetryOver ==
  /\ sdk = "streaming" /\ retryState
  /\ retryState' = FALSE
  /\ UNCHANGED <<sdk, queued, workers, run, lastStop, turn, stopped, carried, announced>>

(* The delegate tool starts a worker; it may outlive the turn.              *)
WorkersReport ==
  /\ \/ ~workers /\ sdk = "streaming"
     \/ workers
  /\ workers' = ~workers
  /\ UNCHANGED <<sdk, queued, retryState, run, lastStop, turn, stopped, carried, announced>>

(* agent_settled, also the premature one while a retry is pending.          *)
Settled ==
  /\ sdk \in {"ended", "backoff"}
  /\ sdk' = IF sdk = "ended" /\ queued = 0 THEN "idle" ELSE sdk
  /\ IF Closes(run)
     THEN run' = NoRun /\ announced' = announced \cup Announcement(run)
     ELSE UNCHANGED <<run, announced>>
  /\ UNCHANGED <<queued, workers, retryState, lastStop, turn, stopped, carried>>

(* The Stop button: interruptRun marks the record, and the abort ends the   *)
(* run, at once or after the turn's own end has come first.                 *)
Stop ==
  /\ sdk # "idle"
  /\ run' = AgentEnd(AbortMark(run),
                     IF sdk = "ended" THEN run.final ELSE "aborted")
  /\ stopped' = stopped \cup {turn}
  /\ sdk' = "ended"
  /\ lastStop' = IF sdk = "ended" THEN lastStop ELSE "aborted"
  /\ retryState' = (sdk = "ended" /\ retryState)
  /\ UNCHANGED <<queued, workers, turn, carried, announced>>

(* The abort ignored: forceResetConversation replaces the session and its   *)
(* queues.  The hub and its workers stay with the conversation.             *)
ForceReset ==
  /\ sdk # "idle"
  /\ run' = NoRun /\ sdk' = "idle" /\ queued' = 0 /\ retryState' = FALSE
  /\ lastStop' = "none"
  /\ stopped' = stopped \cup {turn}
  /\ UNCHANGED <<workers, turn, carried, announced>>

NoteNext ==
  \/ Prompt \/ RetryLast \/ Queue \/ Deliver \/ Retry \/ RetryOver
  \/ WorkersReport \/ Settled \/ Stop \/ ForceReset
  \/ \E stop \in {"stop", "error"} : End(stop, FALSE)
  \/ End("error", TRUE)

NoteSpec == NoteInit /\ [][NoteNext]_noteVars

-----------------------------------------------------------------------------
(* A run the user stopped is never announced, whichever of its end, the     *)
(* delivery of a queued text, a retry and the settle comes first.           *)
StoppedIsSilent == \A a \in announced : a.turn \notin stopped

(* A run is announced at most once, with the outcome the transcript ends    *)
(* with: failed only when the last message of the whole run, not of one of  *)
(* its attempts, is an error.                                               *)
OneOutcome ==
  /\ \A a, b \in announced : a.turn = b.turn => a = b
  /\ sdk = "idle" => \A a \in announced :
       a.turn = turn => (a.kind = "run-failed" <=> lastStop = "error")

(* A run that began with a record of its own, was not stopped and has       *)
(* settled with no worker left is announced: a settle that comes too early  *)
(* does not use the run up.                                                 *)
NothingMissed ==
  (sdk = "idle" /\ turn > 0 /\ ~run.open /\ ~carried /\ turn \notin stopped)
    => \E a \in announced : a.turn = turn

(* notification-lifecycle.ts: "Start tracking a fresh top-level run.        *)
(* Continuations/retries share it."  A top-level run that ends well and     *)
(* that nobody stopped is announced when it closes.                         *)
FreshRunIsTracked ==
  (sdk = "idle" /\ turn > 0 /\ ~run.open /\ turn \notin stopped)
    => \E a \in announced : a.turn = turn
=============================================================================
