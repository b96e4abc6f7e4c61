------------------------------- MODULE Todos -------------------------------
(***************************************************************************)
(* The task list of one chat (server/todo-state.ts) and what the strip     *)
(* above the composer shows of it (web/src/components/TodoList.tsx).  The  *)
(* extension's tool answers every call with the whole list; the server     *)
(* keeps the last one and the ids the current run has touched, and when a  *)
(* session is opened it replays the answers its branch has kept.  An       *)
(* answer is applied when the tool ends and written a moment later.        *)
(***************************************************************************)
EXTENDS Naturals, Sequences
LOCAL INSTANCE SequencesExt

CONSTANTS Task,         \* ids of tasks
          MaxTodoSteps  \* bound: prompts, tool calls and rebinds

VARIABLES branch,  \* what the session's branch keeps: prompts and answers
          unsaved, \* an answer that is applied and not written yet
          live,    \* ConversationTodos: tasks, runIds, running
          before,  \* the tasks when the run began, for the properties
          blurred, \* the branch no longer tells where this run began
          strip,   \* the last todos message of the page
          worked   \* steps taken, a bound only

todoVars == <<branch, unsaved, live, before, blurred, strip, worked>>

Status == {"none", "pending", "done", "deleted"}
NoTasks == [i \in Task |-> "none"]
Prompt == [type |-> "user"]
Answer == [type : {"answer"}, act : {"list", "update", "clear", "create"},
           target : Task, tasks : [Task -> Status]]

Visible(tasks) == {i \in Task : tasks[i] \notin {"none", "deleted"}}

(* apply: a read touches nothing, an update touches its task even when the *)
(* task stays as it was, and what is no longer visible leaves the run      *)
MutOnlyNamed(t, a) == IF a.act = "update" THEN {a.target} ELSE {}
Touched(t, a) ==
  IF a.act = "list" THEN {}
  ELSE {i \in Task : /\ a.tasks[i] # "none"
                     /\ \/ a.tasks[i] # t.tasks[i]
                        \/ a.act = "update" /\ a.target = i}

MutKeepsTombstones(t, a) ==
  LET kept == IF a.act = "clear" THEN {} ELSE t.runIds
  IN [t EXCEPT !.tasks = a.tasks, !.runIds = kept \cup Touched(t, a)]
Applied(t, a) ==
  LET kept == IF a.act = "clear" THEN {} ELSE t.runIds
  IN [t EXCEPT !.tasks = a.tasks,
               !.runIds = (kept \cup Touched(t, a)) \cap Visible(a.tasks)]

(* replay: the answers of the branch in order; a prompt is taken for the   *)
(* beginning of a run                                                      *)
MutNoBoundary(entries) ==
  LET Restore(t, e) == IF e = Prompt THEN t ELSE Applied(t, e)
  IN FoldLeft(Restore, [tasks |-> NoTasks, runIds |-> {}], entries)
Restored(entries) ==
  LET Restore(t, e) == IF e = Prompt THEN [t EXCEPT !.runIds = {}]
                                     ELSE Applied(t, e)
  IN FoldLeft(Restore, [tasks |-> NoTasks, runIds |-> {}], entries)

Replay(t, entries) ==
  LET r == Restored(entries)
  IN [t EXCEPT !.tasks  = r.tasks,
               !.runIds = IF t.running THEN t.runIds \cap Visible(r.tasks)
                                       ELSE r.runIds]

TodoInit ==
  /\ branch = << >>
  /\ unsaved = << >>
  /\ live = [tasks |-> NoTasks, runIds |-> {}, running |-> FALSE]
  /\ before = NoTasks
  /\ blurred = FALSE
  /\ strip = live
  /\ worked = 0

Step == worked < MaxTodoSteps /\ worked' = worked + 1
Push == strip' = live'

(* A prompt is written and its run begins: agent_start, startRun           *)
AgentStart ==
  /\ ~live.running /\ Step
  /\ branch' = Append(branch, Prompt)
  /\ live' = [live EXCEPT !.running = TRUE, !.runIds = {}]
  /\ before' = live.tasks
  /\ blurred' = FALSE
  /\ Push
  /\ UNCHANGED unsaved

(* A message steered into the run, or a retry of it: a prompt without a    *)
(* start, or a start without a prompt                                      *)
Steer == /\ live.running /\ unsaved = << >> /\ Step
         /\ branch' = Append(branch, Prompt)
         /\ blurred' = TRUE
         /\ UNCHANGED <<unsaved, live, before, strip>>

RetryStart == /\ live.running /\ unsaved = << >> /\ Step
              /\ live' = [live EXCEPT !.runIds = {}]
              /\ before' = live.tasks
              /\ blurred' = TRUE
              /\ Push
              /\ UNCHANGED <<branch, unsaved>>

(* The tool of the extension: it lists, creates, changes, deletes, clears  *)
Answers ==
  {[type |-> "answer", act |-> "list", target |-> i, tasks |-> live.tasks]
     : i \in Task}
  \cup {[type |-> "answer", act |-> "clear", target |-> i, tasks |-> NoTasks]
          : i \in Task}
  \cup {[type |-> "answer", act |-> IF live.tasks[i] = "none" THEN "create"
                                                              ELSE "update",
         target |-> i, tasks |-> [live.tasks EXCEPT ![i] = s]]
          : i \in Task, s \in Status \ {"none"}}

ToolEnds ==
  /\ live.running /\ unsaved = << >> /\ Step
  /\ \E a \in Answers : live' = Applied(live, a) /\ unsaved' = <<a>>
  /\ Push
  /\ UNCHANGED <<branch, before, blurred>>

Written == /\ unsaved # << >>
           /\ branch' = branch \o unsaved
           /\ unsaved' = << >>
           /\ UNCHANGED <<live, before, blurred, strip, worked>>

AgentEnd == /\ live.running /\ unsaved = << >>
            /\ live' = [live EXCEPT !.running = FALSE]
            /\ Push
            /\ UNCHANGED <<branch, unsaved, before, blurred, worked>>

(* A fork cuts the branch at a prompt; opening the session of the branch   *)
(* again keeps all of it.  bindSession replays what is left.               *)
Rebind ==
  /\ ~live.running /\ Step
  /\ \E n \in {Len(branch)} \cup {k - 1 : k \in {j \in 1..Len(branch) :
                                                   branch[j] = Prompt}} :
        branch' = SubSeq(branch, 1, n)
  /\ live' = Replay(live, branch')
  /\ before' = live'.tasks
  /\ blurred' = FALSE
  /\ Push
  /\ UNCHANGED unsaved

(* forceResetConversation: the list is read again while the run is live,   *)
(* then the run is over; the bind that follows replays nothing, and an     *)
(* answer that was not written is gone                                     *)
MutEndsFirst(t, entries) == Replay([t EXCEPT !.running = FALSE], entries)
HandedOff(t, entries) == [Replay(t, entries) EXCEPT !.running = FALSE]

ForceReset ==
  /\ live.running /\ Step
  /\ live' = HandedOff(live, branch)
  /\ unsaved' = << >>
  /\ before' = live'.tasks
  /\ blurred' = TRUE
  /\ Push
  /\ UNCHANGED branch

TodoNext == \/ AgentStart \/ Steer \/ RetryStart \/ ToolEnds \/ Written
            \/ AgentEnd \/ Rebind \/ ForceReset

-----------------------------------------------------------------------------
TodoTypeOK ==
  /\ \A k \in DOMAIN branch : branch[k] = Prompt \/ branch[k] \in Answer
  /\ Len(unsaved) <= 1
  /\ live \in [tasks : [Task -> Status], runIds : SUBSET Task,
               running : BOOLEAN]
  /\ before \in [Task -> Status]
  /\ blurred \in BOOLEAN

(* The strip draws the tasks of the run by their ids: an id without a      *)
(* task to draw never stays in it, by whichever road the list came.        *)
StripHasItsTasks == strip.runIds \subseteq Visible(strip.tasks)

(* Every task the run has changed and not deleted is in its strip, until   *)
(* the run is over.                                                        *)
RunIsInStrip == live.running =>
  {i \in Visible(live.tasks) : live.tasks[i] # before[i]} \subseteq live.runIds

(* Opening the session again shows the list and the last run's strip as    *)
(* they were seen live, unless the run was steered or retried (the         *)
(* approximation the comment on replay admits) or was reset by force.      *)
HistoryAgrees ==
  ~live.running /\ ~blurred =>
    /\ Restored(branch).tasks = live.tasks
    /\ Restored(branch).runIds = live.runIds

(* A forced reset keeps in the strip all that the run had touched and the  *)
(* branch still knows, and nothing of earlier runs comes back.             *)
ResetKeepsStrip ==
  [][ForceReset => LET seen == Visible(strip'.tasks)
                   IN strip'.runIds = live.runIds \cap seen]_todoVars
=============================================================================
