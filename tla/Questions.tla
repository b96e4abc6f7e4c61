----------------------------- MODULE Questions -----------------------------
(***************************************************************************)
(* The questions a model asks its user (the ask_user_question tool): the   *)
(* map of pending questions in the server, the message that shows one at   *)
(* once, the snapshots that bring it back, and the panel of each tab       *)
(* (pending-question.ts).  Connections break with messages in flight, tabs *)
(* reconnect without reloading, and the server may restart, which begins   *)
(* its question numbers again at q-1.                                      *)
(***************************************************************************)
EXTENDS Naturals, Sequences, FiniteSets, SequencesExt

CONSTANTS
  Tab,
  Chat, FirstChat,   \* the open conversations and the active one
  MaxQuestions,      \* bound: questions asked in one behaviour
  MaxBreaks,         \* bound: connections that break
  MaxRestarts,       \* bound: restarts of the server
  MaxMessages        \* bound: messages in flight to one tab

VARIABLES
  questionSeq,  \* ClientSession.questionSeq
  pending,      \* ClientSession.pendingQuestions, in insertion order
  asked,        \* questions asked so far: the number tells them apart
  activeChat,
  unsent,       \* something has changed since the last snapshot
  online,       \* tabs with a socket
  down, up,     \* messages in flight to and from each tab
  panel,        \* state.question of each tab
  source,       \* questionSourceRef
  answered,     \* answeredQuestionsRef: ids
  given,        \* the questions each tab has answered or dismissed
  outcome,      \* what each question's tool call has got: the question the
                \* answer was given for, or 0
  breaks, restarts

askVars == <<questionSeq, pending, asked, activeChat, unsent, online, down, up, panel,
             source, answered, given, outcome, breaks, restarts>>

Number == 1..MaxQuestions
NoQuestion == [id |-> 0, no |-> 0]
Question == [id : Number, no : Number]
Message == [type : {"question_pending", "snapshot"}, question : Question \cup {NoQuestion}]

AskTypeOK ==
  /\ questionSeq \in 0..MaxQuestions /\ asked \in 0..MaxQuestions
  /\ pending \in Seq([id : Number, no : Number, chat : Chat])
  /\ activeChat \in Chat /\ unsent \in BOOLEAN /\ online \subseteq Tab
  /\ down \in [Tab -> Seq(Message)] /\ up \in [Tab -> Seq(Question)]
  /\ panel \in [Tab -> Question \cup {NoQuestion}]
  /\ source \in [Tab -> {"live", "snapshot"}]
  /\ answered \in [Tab -> SUBSET Number] /\ given \in [Tab -> SUBSET Number]
  /\ outcome \in [Number -> 0..MaxQuestions]
  /\ breaks \in 0..MaxBreaks /\ restarts \in 0..MaxRestarts

AskInit ==
  /\ questionSeq = 0 /\ pending = <<>> /\ asked = 0
  /\ activeChat = FirstChat /\ unsent = FALSE
  /\ online = Tab
  /\ down = [t \in Tab |-> <<>>] /\ up = [t \in Tab |-> <<>>]
  /\ panel = [t \in Tab |-> NoQuestion] /\ source = [t \in Tab |-> "live"]
  /\ answered = [t \in Tab |-> {}] /\ given = [t \in Tab |-> {}]
  /\ outcome = [n \in Number |-> 0]
  /\ breaks = 0 /\ restarts = 0

-----------------------------------------------------------------------------
(* The server                                                               *)

Send(tabs, type, q) ==
  down' = [t \in Tab |-> IF t \in tabs
                         THEN Append(down[t], [type |-> type, question |-> q])
                         ELSE down[t]]

(* askUser, called by the tool of a run of chat.                            *)
Ask(chat) ==
  /\ asked < MaxQuestions
  /\ \A t \in Tab : Len(down[t]) < MaxMessages
  /\ asked' = asked + 1 /\ questionSeq' = questionSeq + 1
  /\ pending' = Append(pending, [id |-> questionSeq', no |-> asked', chat |-> chat])
  /\ Send(online, "question_pending", [id |-> questionSeq', no |-> asked'])
  /\ UNCHANGED <<activeChat, unsent, online, up, panel, source, answered, given,
                 outcome, breaks, restarts>>

MutFirstOnly == IF pending = <<>> \/ Head(pending).chat # activeChat THEN NoQuestion
                ELSE [id |-> Head(pending).id, no |-> Head(pending).no]
(* pendingQuestionForSnapshot: the oldest one of the active conversation.   *)
PendingQuestionForSnapshot ==
  LET i == SelectInSeq(pending, LAMBDA p : p.chat = activeChat)
  IN IF i = 0 THEN NoQuestion ELSE [id |-> pending[i].id, no |-> pending[i].no]

Publish ==
  /\ unsent
  /\ \A t \in Tab : Len(down[t]) < MaxMessages
  /\ unsent' = FALSE
  /\ Send(online, "snapshot", PendingQuestionForSnapshot)
  /\ UNCHANGED <<questionSeq, pending, asked, activeChat, online, up, panel, source,
                 answered, given, outcome, breaks, restarts>>

SwitchChat(chat) ==
  /\ chat # activeChat
  /\ activeChat' = chat /\ unsent' = TRUE
  /\ UNCHANGED <<questionSeq, pending, asked, online, down, up, panel, source,
                 answered, given, outcome, breaks, restarts>>

MutResolvesOldest(id) == pending # <<>>
Matches(id) == \E i \in 1..Len(pending) : pending[i].id = id

(* resolveQuestion: an id that is not pending is ignored; the tool call     *)
(* returns and its end flushes a snapshot.                                  *)
ResolveQuestion(t) ==
  /\ up[t] # <<>>
  /\ up' = [up EXCEPT ![t] = Tail(@)]
  /\ LET id == Head(up[t]).id
         i == Max({1} \cup {j \in 1..Len(pending) : pending[j].id = id})
     IN IF Matches(id)
        THEN /\ outcome' = [outcome EXCEPT ![pending[i].no] = Head(up[t]).no]
             /\ pending' = RemoveAt(pending, i)
             /\ unsent' = TRUE
        ELSE UNCHANGED <<outcome, pending, unsent>>
  /\ UNCHANGED <<questionSeq, asked, activeChat, online, down, panel, source,
                 answered, given, breaks, restarts>>

(* cancelPendingQuestions, and a process that starts again from nothing.    *)
Restart ==
  /\ restarts < MaxRestarts
  /\ restarts' = restarts + 1
  /\ questionSeq' = 0 /\ pending' = <<>> /\ unsent' = FALSE
  /\ online' = {}
  /\ down' = [t \in Tab |-> <<>>] /\ up' = [t \in Tab |-> <<>>]
  /\ UNCHANGED <<asked, activeChat, panel, source, answered, given, outcome, breaks>>

-----------------------------------------------------------------------------
(* A tab                                                                    *)

MutSnapshotNeverCloses(t, q) ==
  IF q.id # 0 /\ q.id \notin answered[t] /\ panel[t].id # q.id
  THEN <<q, "snapshot">> ELSE <<panel[t], source[t]>>
(* resolvePendingQuestion                                                   *)
ResolvePendingQuestion(t, q) ==
  IF q.id # 0 /\ q.id \notin answered[t]
  THEN IF panel[t].id = q.id THEN <<panel[t], source[t]>> ELSE <<q, "snapshot">>
  ELSE IF q.id = 0 /\ panel[t].id # 0 /\ source[t] = "snapshot"
       THEN <<NoQuestion, "live">>
       ELSE <<panel[t], source[t]>>

Receive(t) ==
  /\ down[t] # <<>>
  /\ down' = [down EXCEPT ![t] = Tail(@)]
  /\ LET m == Head(down[t])
         d == IF m.type = "question_pending" THEN <<m.question, "live">>
              ELSE ResolvePendingQuestion(t, m.question)
     IN panel' = [panel EXCEPT ![t] = d[1]] /\ source' = [source EXCEPT ![t] = d[2]]
  /\ UNCHANGED <<questionSeq, pending, asked, activeChat, unsent, online, up, answered,
                 given, outcome, breaks, restarts>>

(* The user submits or cancels: the panel closes and its id is remembered,  *)
(* only when the socket is open.                                            *)
Answer(t) ==
  /\ t \in online /\ panel[t].id # 0
  /\ up' = [up EXCEPT ![t] = Append(@, panel[t])]
  /\ answered' = [answered EXCEPT ![t] = @ \cup {panel[t].id}]
  /\ given' = [given EXCEPT ![t] = @ \cup {panel[t].no}]
  /\ panel' = [panel EXCEPT ![t] = NoQuestion]
  /\ source' = [source EXCEPT ![t] = "live"]
  /\ UNCHANGED <<questionSeq, pending, asked, activeChat, unsent, online, down, outcome,
                 breaks, restarts>>

(* The connection is lost with what is in flight both ways.                 *)
Break(t) ==
  /\ t \in online /\ breaks < MaxBreaks
  /\ breaks' = breaks + 1 /\ online' = online \ {t}
  /\ down' = [down EXCEPT ![t] = <<>>] /\ up' = [up EXCEPT ![t] = <<>>]
  /\ UNCHANGED <<questionSeq, pending, asked, activeChat, unsent, panel, source,
                 answered, given, outcome, restarts>>

(* hello and get_state: the tab gets a snapshot of its own.                 *)
Reconnect(t) ==
  /\ t \notin online
  /\ online' = online \cup {t}
  /\ Send({t}, "snapshot", PendingQuestionForSnapshot)
  /\ UNCHANGED <<questionSeq, pending, asked, activeChat, unsent, up, panel, source,
                 answered, given, outcome, breaks, restarts>>

(* The page is loaded again: a client that remembers nothing.               *)
ReloadPage(t) ==
  /\ t \notin online
  /\ panel[t] # NoQuestion \/ answered[t] # {}
  /\ panel' = [panel EXCEPT ![t] = NoQuestion]
  /\ source' = [source EXCEPT ![t] = "live"]
  /\ answered' = [answered EXCEPT ![t] = {}]
  /\ given' = [given EXCEPT ![t] = {}]
  /\ UNCHANGED <<questionSeq, pending, asked, activeChat, unsent, online, down, up,
                 outcome, breaks, restarts>>

AskNext ==
  \/ Publish \/ Restart
  \/ \E chat \in Chat : Ask(chat) \/ SwitchChat(chat)
  \/ \E t \in Tab : ResolveQuestion(t) \/ Receive(t) \/ Answer(t) \/ Break(t)
                    \/ Reconnect(t) \/ ReloadPage(t)

AskSpec == AskInit /\ [][AskNext]_askVars

-----------------------------------------------------------------------------
(* Nothing is on its way between the server and the tab.                    *)
Calm(t) == t \in online /\ down[t] = <<>> /\ up[t] = <<>> /\ ~unsent

(* A question the model of the active conversation waits on is on the       *)
(* screen of every connected tab that has not answered a pending one: a     *)
(* tab that was away, or was reloaded, gets it back from the snapshot.      *)
(* (After a restart the numbers repeat, and a tab takes a new question for  *)
(* one it has answered.)                                                    *)
NoHiddenQuestion ==
  restarts = 0 => \A t \in Tab :
    (/\ Calm(t)
     /\ \E i \in 1..Len(pending) : pending[i].chat = activeChat
     /\ \A i \in 1..Len(pending) : pending[i].no \notin given[t])
      => panel[t].id # 0

(* A panel a snapshot brought back does not outlive its question, again     *)
(* unless an answer of this tab was lost: the snapshot then names a         *)
(* question the tab ignores, and that is not taken for "no question".       *)
RestoredPanelsClose ==
  restarts = 0 => \A t \in Tab :
    (/\ Calm(t) /\ source[t] = "snapshot" /\ panel[t].id # 0
     /\ \A i \in 1..Len(pending) : pending[i].no \notin given[t])
      => \E i \in 1..Len(pending) : pending[i].no = panel[t].no

(* use-chat.ts: the ids are "globally monotonic" (its comment is in         *)
(* Chinese), so that an answer can only mean one question.                  *)
AnswersMatch == \A n \in Number : outcome[n] \in {0, n}

(* Within one server process a tool call resumes with the answer to its own *)
(* question: a late answer, the second answer of another tab and an old     *)
(* panel resolve no other one.                                              *)
OwnAnswers == restarts = 0 => AnswersMatch
=============================================================================
