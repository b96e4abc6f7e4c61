------------------------------ MODULE Searches ------------------------------
(***************************************************************************)
(* The global search panel: one query asks the server for files of the     *)
(* workspace and for transcripts of the project, under one request number. *)
(* The server answers each kind when its search ends, in any order; the    *)
(* page keeps the last answer of each kind and shows it if its number is   *)
(* that of the last request.  A project that is clicked is switched to and *)
(* the search repeated.                                                    *)
(***************************************************************************)
EXTENDS Integers, Sequences, FiniteSets

CONSTANTS
  Query,           \* what the user types, the empty query apart
  Project,         \* the projects of the panel
  HomeProject,     \* the one the server starts in
  MaxSearchSteps   \* bound: what the user does

VARIABLES
  open, query,  \* the panel is shown; what is typed in it
  timer,        \* the debounce timer runs
  lastReq,      \* lastReqRef, the number of the last request
  pending,      \* searchPending
  store,        \* chat.fileSearch, chat.sessionSearch: the last answer of each kind
  shown,        \* fileHits, sessionHits: whose hits the memos hold, None when none
  uplink,       \* messages to the server, in order
  searching,    \* searches of the server: [kind, req, query, root]
  switching,    \* projects the server is switching to
  cwd,          \* the workspace of the server
  answers,      \* messages to the page, in order
  overtaken,    \* history: an older answer of a kind came after a newer one
  acted         \* what the user did

searchVars == <<open, query, timer, lastReq, pending, store, shown, uplink, searching, switching,
                cwd, answers, overtaken, acted>>

None == [req |-> 0, query |-> "", root |-> HomeProject]
Kind == {"files", "sessions"}
Answer == [kind : Kind, req : Nat, query : Query, root : Project]
SearchTypeOK ==
  /\ {open, timer, pending, overtaken} \subseteq BOOLEAN /\ query \in Query \cup {""}
  /\ lastReq \in Nat /\ acted \in 0 .. MaxSearchSteps
  /\ \A k \in Kind : store[k].req \in Nat /\ store[k].req <= lastReq
                     /\ shown[k] \in {None, store[k]}
  /\ searching \subseteq [kind : Kind, req : Nat, query : Query, root : Project \cup {"unread"}]
  /\ \A i \in DOMAIN answers : answers[i] \in Answer
  /\ switching \subseteq Project /\ cwd \in Project

SearchInit ==
  /\ open = FALSE /\ query = "" /\ timer = FALSE /\ lastReq = 0 /\ pending = FALSE
  /\ store = [k \in Kind |-> None] /\ shown = [k \in Kind |-> None]
  /\ uplink = <<>> /\ searching = {} /\ switching = {} /\ cwd = HomeProject /\ answers = <<>>
  /\ overtaken = FALSE /\ acted = 0

SearchStep == acted < MaxSearchSteps /\ acted' = acted + 1
server == <<searching, switching, cwd, answers, overtaken>>

(* A memo of the panel is computed again when its answer or the query       *)
(* changes: an answer counts only under the number of the last request.     *)
MutHits(q, number, answer) == IF q = "" THEN None ELSE answer
Hits(q, number, answer) == IF q = "" \/ answer.req # number THEN None ELSE answer

(* Both searches of a query, after the messages sent with them.             *)
Asks(q, first) ==
  /\ lastReq' = lastReq + 1 /\ pending' = TRUE
  /\ uplink' = uplink \o first \o
       <<[kind |-> "files", req |-> lastReq + 1, query |-> q],
         [kind |-> "sessions", req |-> lastReq + 1, query |-> q]>>

-----------------------------------------------------------------------------
(* The query changes: a search waits for the typing to pause.               *)
Type(q) ==
  /\ SearchStep /\ open /\ q # query /\ query' = q
  /\ shown' = [k \in Kind |-> Hits(q, lastReq, store[k])]
  /\ timer' = (q # "") /\ pending' = (pending /\ q # "")
  /\ UNCHANGED <<open, lastReq, store, uplink, server>>

TimerFires ==
  /\ timer /\ timer' = FALSE /\ Asks(query, <<>>)
  /\ UNCHANGED <<open, query, store, shown, server, acted>>

(* The panel is opened again with the query it had, which is asked again.   *)
Open ==
  /\ SearchStep /\ ~open /\ open' = TRUE
  /\ IF query # "" THEN Asks(query, <<>>) ELSE UNCHANGED <<lastReq, pending, uplink>>
  /\ UNCHANGED <<query, timer, store, shown, server>>

(* Escape, or a session that is clicked.                                    *)
Close ==
  /\ SearchStep /\ open /\ open' = FALSE
  /\ UNCHANGED <<query, timer, lastReq, pending, store, shown, uplink, server>>

(* A project is clicked: set_cwd, and the search is asked again at once.    *)
ClickProject(p) ==
  /\ SearchStep /\ open /\ query # "" /\ Asks(query, <<[kind |-> "set_cwd", project |-> p]>>)
  /\ UNCHANGED <<open, query, timer, store, shown, server>>

-----------------------------------------------------------------------------
(* The dispatcher starts each handler without waiting for the one before.   *)
Receive ==
  /\ uplink # <<>> /\ uplink' = Tail(uplink)
  /\ LET m == Head(uplink) IN
       CASE m.kind = "set_cwd" ->
              /\ switching' = (IF m.project = cwd THEN switching ELSE switching \cup {m.project})
              /\ UNCHANGED searching
         [] m.kind = "files" ->
              /\ searching' = searching \cup {[kind |-> "files", req |-> m.req, query |-> m.query,
                                                root |-> "unread"]}
              /\ UNCHANGED switching
         [] m.kind = "sessions" ->
              /\ searching' = searching \cup {[kind |-> "sessions", req |-> m.req,
                                                query |-> m.query, root |-> cwd]}
              /\ UNCHANGED switching
  /\ UNCHANGED <<open, query, timer, lastReq, pending, store, shown, cwd, answers, overtaken, acted>>

SwitchEnds(p) ==
  /\ p \in switching /\ switching' = switching \ {p} /\ cwd' = p
  /\ UNCHANGED <<open, query, timer, lastReq, pending, store, shown, uplink, searching, answers,
                 overtaken, acted>>

(* searchSessions reads the cached transcripts of the workspace, in its own  *)
(* time; searchFiles imports its modules before it   *)
(* reads the workspace.                                                    *)
WalkStarts(s) ==
  /\ s \in searching /\ s.root = "unread"
  /\ searching' = (searching \ {s}) \cup {[s EXCEPT !.root = cwd]}
  /\ UNCHANGED <<open, query, timer, lastReq, pending, store, shown, uplink, switching, cwd, answers,
                 overtaken, acted>>

Ends(s) == /\ s \in searching /\ s.root # "unread" /\ searching' = searching \ {s}
           /\ answers' = Append(answers, s)
WalkEnds(s) ==
  /\ s.kind = "files" /\ Ends(s)
  /\ UNCHANGED <<open, query, timer, lastReq, pending, store, shown, uplink, switching, cwd,
                 overtaken, acted>>
MatchEnds(s) ==
  /\ s.kind = "sessions" /\ Ends(s)
  /\ UNCHANGED <<open, query, timer, lastReq, pending, store, shown, uplink, switching, cwd,
                 overtaken, acted>>

(* The answer replaces the last one of its kind; the hint goes when both    *)
(* kinds are those of the last request.                                     *)
MutHintAfter(kept) == pending /\ \E k \in Kind : kept[k].req # lastReq + 1
HintAfter(kept) == pending /\ \E k \in Kind : kept[k].req # lastReq
Arrive ==
  /\ answers # <<>> /\ answers' = Tail(answers)
  /\ LET a == Head(answers)
         new == [req |-> a.req, query |-> a.query, root |-> a.root]
     IN  /\ store' = [store EXCEPT ![a.kind] = new]
         /\ shown' = [shown EXCEPT ![a.kind] = Hits(query, lastReq, new)]
         /\ pending' = HintAfter([store EXCEPT ![a.kind] = new])
         /\ overtaken' = (overtaken \/ a.req < store[a.kind].req)
  /\ UNCHANGED <<open, query, timer, lastReq, uplink, searching, switching, cwd, acted>>

SearchNext ==
  \/ \E q \in Query \cup {""} : Type(q)
  \/ TimerFires \/ Open \/ Close \/ Receive \/ Arrive
  \/ \E p \in Project : ClickProject(p) \/ SwitchEnds(p)
  \/ \E s \in searching : WalkStarts(s) \/ WalkEnds(s) \/ MatchEnds(s)

-----------------------------------------------------------------------------
Settled == /\ ~timer /\ uplink = <<>> /\ searching = {} /\ answers = <<>> /\ switching = {}
           /\ query # "" /\ lastReq # 0

(* When nothing is under way no hit of another query is on the panel,       *)
(* whatever the order of the answers.                                       *)
NoOtherQuery == Settled => \A k \in Kind : shown[k] # None => shown[k].query = query

(* While the answers of a kind come in the order they were asked for, the   *)
(* panel ends with the hits of its query and without the searching hint.    *)
QueryIsAnswered == Settled /\ ~overtaken => ~pending /\ \A k \in Kind : shown[k].req = lastReq

(* A panel that has nothing under way does not say it searches: whatever    *)
(* the hint waits for can still come.                                       *)
HintGoesOut == Settled => ~pending

(* "stale responses from earlier keystrokes drop": a late answer of an      *)
(* older request takes nothing away (GlobalSearchModal.tsx:69-70).             *)
StaleAnswersDrop == Settled => \A k \in Kind : shown[k].req = lastReq

(* The panel that followed a click on a project shows files of the project  *)
(* the server is in.                                                        *)
ResultsFollowProject == Settled /\ shown["files"] # None => shown["files"].root = cwd

-----------------------------------------------------------------------------
(***************************************************************************)
(* The search in a chat (Ctrl+F).  The hits of messages that are rendered  *)
(* are counted in the page, those of messages folded to a line in their    *)
(* data, which may disagree; a folded hit is unfolded when the reader      *)
(* comes to it.  One frame after any change the hits are collected again,  *)
(* the active hit is found by its message and number, and the page scrolls *)
(* to it if it is another than before.                                     *)
(***************************************************************************)
CONSTANTS
  MaxMessages,  \* bound: messages of the chat
  Count,        \* hits of a message: [page, data]
  MaxFindSteps  \* bound: what the reader and the agent do

VARIABLES
  findQuery,      \* "" when the bar is closed or empty, "q", or "r", which nothing matches
  text,       \* the messages: hits of "q" in the page and in the data of each
  folded,     \* collapsedIds
  activeKey,  \* [msg, k], NoKey when none
  hits,       \* hitsRef: the keys of the lastHit frame with their kinds
  lastHit,       \* lastActiveRef: [key, kind]
  lastQuery,  \* lastQueryRef
  frame,      \* a frame is requested
  byReader,   \* history: the reader did something since the lastHit frame
  expanded,   \* the messages that were unfolded and stay so
  scrolledTo, \* history: the hit of the lastHit scroll
  finds

findVars == <<findQuery, text, folded, activeKey, hits, lastHit, lastQuery, frame, byReader, expanded,
              scrolledTo, finds>>

NoKey == [msg |-> 0, k |-> 0]
NoLast == [key |-> NoKey, kind |-> "none"]
Keys == [msg : 0 .. MaxMessages, k : 0 .. MaxMessages]
FindTypeOK ==
  /\ findQuery \in {"", "q", "r"} /\ lastQuery \in {"", "q", "r"}
  /\ text \in UNION {[1 .. n -> Count] : n \in 0 .. MaxMessages} /\ folded \subseteq DOMAIN text
  /\ {activeKey, lastHit.key, scrolledTo} \subseteq Keys /\ lastHit.kind \in {"none", "dom", "folded"}
  /\ \A i \in DOMAIN hits : hits[i].key \in Keys
  /\ {frame, byReader} \subseteq BOOLEAN /\ expanded \subseteq DOMAIN text
  /\ finds \in 0 .. MaxFindSteps

FindInit ==
  /\ findQuery = "" /\ text \in UNION {[1 .. n -> Count] : n \in 1 .. MaxMessages}
  /\ folded \in SUBSET DOMAIN text /\ activeKey = NoKey /\ hits = <<>> /\ lastHit = NoLast
  /\ lastQuery = "" /\ frame = FALSE /\ byReader = FALSE /\ expanded = {} /\ scrolledTo = NoKey
  /\ finds = 0

FindStep == finds < MaxFindSteps /\ finds' = finds + 1

-----------------------------------------------------------------------------
(* collectRanges, collectFoldedHits: the hits of a message in the page and  *)
(* in its data.  collectAllHits: the hits of the messages in order.         *)
PageHits(m) == IF findQuery = "q" THEN text[m].page ELSE 0
DataHits(m) == IF findQuery = "q" THEN text[m].data ELSE 0
HitsOf(m) ==
  LET kind == IF m \in folded THEN "folded" ELSE "dom"
      n == IF m \in folded THEN DataHits(m) ELSE PageHits(m)
  IN  [i \in 1 .. n |-> [key |-> [msg |-> m, k |-> i - 1], kind |-> kind]]
AllHits ==
  LET upTo[m \in 0 .. Len(text)] == IF m = 0 THEN <<>> ELSE upTo[m - 1] \o HitsOf(m)
  IN  upTo[Len(text)]
IndexOf(list, key) ==
  IF \E i \in DOMAIN list : list[i].key = key
  THEN CHOOSE i \in DOMAIN list : list[i].key = key ELSE 0

(* The active hit among the new hits: its own, one of the same message that *)
(* is not past its number, or the first.                                    *)
MutFound(list) == IF IndexOf(list, activeKey) # 0 THEN IndexOf(list, activeKey) ELSE 1
Found(list) ==
  LET same == {i \in DOMAIN list : list[i].key.msg = activeKey.msg}
      first == CHOOSE i \in same : \A j \in same : i <= j
  IN  IF IndexOf(list, activeKey) # 0 THEN IndexOf(list, activeKey)
      ELSE IF same = {} THEN 1
      ELSE IF activeKey.k < Cardinality(same) THEN first + activeKey.k
      ELSE first + Cardinality(same) - 1

(* userMoved.                                                               *)
MutByPlace(hit, i) == IndexOf(hits, lastHit.key) # i \/ findQuery # lastQuery
MutKeyOnly(hit, i) == hit.key # lastHit.key \/ findQuery # lastQuery
Moved(hit, i) ==
  hit.key # lastHit.key \/ (lastHit.kind = "folded" /\ hit.kind = "dom") \/ findQuery # lastQuery

-----------------------------------------------------------------------------
(* The effect runs again after every change it depends on: the frame it had *)
(* asked for is dropped for a new one.                                      *)
Cleared == /\ activeKey' = NoKey /\ hits' = <<>> /\ lastHit' = NoLast /\ lastQuery' = ""
           /\ frame' = FALSE
TypeInBar(q) ==
  /\ FindStep /\ q # findQuery /\ findQuery' = q /\ byReader' = TRUE
  /\ IF q = "" THEN Cleared
     ELSE frame' = TRUE /\ UNCHANGED <<activeKey, hits, lastHit, lastQuery>>
  /\ UNCHANGED <<text, folded, expanded, scrolledTo>>

Step(dir) ==
  /\ FindStep /\ hits # <<>> /\ byReader' = TRUE
  /\ LET n == Len(hits)
         cur == IF activeKey = NoKey THEN 0 ELSE IndexOf(hits, activeKey) - 1
         next == hits[((cur + dir + n) % n) + 1].key
     IN  activeKey' = next /\ frame' = (frame \/ next # activeKey)
  /\ UNCHANGED <<findQuery, text, folded, hits, lastHit, lastQuery, expanded, scrolledTo>>

(* The agent writes on, the chat is cut, a message is folded or unfolded.   *)
Changed == frame' = (findQuery # "")
           /\ UNCHANGED <<findQuery, activeKey, hits, lastHit, lastQuery, scrolledTo>>
Streams(c) ==
  /\ FindStep /\ Changed /\ text # <<>> /\ text' = [text EXCEPT ![Len(text)] = c]
  /\ UNCHANGED <<folded, expanded, byReader>>
Arrives(c) ==
  /\ FindStep /\ Changed /\ Len(text) < MaxMessages /\ text' = Append(text, c)
  /\ UNCHANGED <<folded, expanded, byReader>>
Cut ==
  /\ FindStep /\ Changed /\ Len(text) > 1 /\ text' = SubSeq(text, 1, Len(text) - 1)
  /\ folded' = folded \ {Len(text)} /\ expanded' = expanded \ {Len(text)} /\ UNCHANGED byReader
FoldsOld(m) ==
  /\ FindStep /\ Changed /\ m \in DOMAIN text \ (folded \cup expanded) /\ folded' = folded \cup {m}
  /\ UNCHANGED <<text, expanded, byReader>>
Refold(m) ==
  /\ FindStep /\ m \in folded \cup expanded /\ byReader' = TRUE /\ frame' = (findQuery # "")
  /\ folded' = (IF m \in folded THEN folded \ {m} ELSE folded \cup {m})
  /\ expanded' = (IF m \in folded THEN expanded \cup {m} ELSE expanded \ {m})
  /\ UNCHANGED <<findQuery, text, activeKey, hits, lastHit, lastQuery, scrolledTo>>

-----------------------------------------------------------------------------
MutUnfolds(hit, i) == {}
Unfolds(hit, i) == IF hit.kind = "folded" /\ Moved(hit, i) THEN {hit.key.msg} ELSE {}

NoHit ==
  /\ frame /\ AllHits = <<>> /\ frame' = (activeKey # NoKey) /\ activeKey' = NoKey
  /\ hits' = <<>> /\ lastHit' = NoLast /\ lastQuery' = findQuery /\ byReader' = FALSE
  /\ UNCHANGED <<findQuery, text, folded, expanded, scrolledTo, finds>>

Frame ==
  /\ frame /\ AllHits # <<>> /\ hits' = AllHits /\ lastQuery' = findQuery /\ byReader' = FALSE
  /\ LET i == Found(AllHits)
         hit == AllHits[i]
     IN  /\ activeKey' = hit.key /\ lastHit' = [key |-> hit.key, kind |-> hit.kind]
         /\ folded' = folded \ Unfolds(hit, i)
         /\ frame' = (activeKey # hit.key \/ Unfolds(hit, i) # {})
         /\ scrolledTo' = IF hit.kind = "dom" /\ Moved(hit, i) THEN hit.key ELSE scrolledTo
         /\ expanded' = expanded \cup Unfolds(hit, i)
  /\ UNCHANGED <<findQuery, text, finds>>

FindNext ==
  \/ \E q \in {"", "q", "r"} : TypeInBar(q)
  \/ \E dir \in {1, -1} : Step(dir)
  \/ \E c \in Count : Streams(c) \/ Arrives(c)
  \/ Cut \/ NoHit \/ Frame
  \/ \E m \in 1 .. MaxMessages : FoldsOld(m) \/ Refold(m)

-----------------------------------------------------------------------------
(* What the bar calls the current hit is in the page and was scrolled to,   *)
(* unless its message was folded after the reader came to it: an unfolded   *)
(* message that has fewer hits than its data still leads somewhere.         *)
ActiveIsShown ==
  findQuery # "" /\ ~frame /\ hits # <<>> /\ activeKey.msg \notin folded =>
    IndexOf(hits, activeKey) # 0 /\ scrolledTo = activeKey

(* A folded message the reader stepped to is unfolded, and stays the one    *)
(* the bar is at if it has any hit in the page.                             *)
UnfoldsTheHit ==
  [][Frame /\ byReader /\ activeKey # NoKey /\ activeKey.msg # lastHit.key.msg
     /\ (\E i \in DOMAIN AllHits : AllHits[i].key.msg = activeKey.msg) =>
       activeKey'.msg = activeKey.msg /\ activeKey'.msg \notin folded']_findVars

(* An answer that is being written does not take the view away: the page is *)
(* scrolled after something the reader did, or because the hit it was at is *)
(* gone or there was none.                                                  *)
ViewStays ==
  [][scrolledTo' # scrolledTo =>
       byReader \/ lastHit.kind # "dom" \/ IndexOf(AllHits, lastHit.key) = 0]_findVars

(* SearchBar.tsx:270: passive updates never scroll.                         *)
NeverScrolledByUpdates ==
  [][scrolledTo' # scrolledTo => byReader \/ lastHit.kind = "folded"]_findVars
=============================================================================
