--------------------------- MODULE FollowersProofs ---------------------------
(***************************************************************************)
(* What a page shows of what it follows, proved by TLAPS for every number  *)
(* of workers, chats and dialogs: the pane of a worker, and what extensions *)
(* put on the page.  Both are told by messages that are read in their      *)
(* order, so the argument is about the last message of a kind on its way:  *)
(* it is right, or there is none and the page already is.                  *)
(***************************************************************************)
EXTENDS MCRuns, SequencesExt, SequenceTheorems, FiniteSetTheorems,
        FunctionTheorems, WellFoundedInduction, TLAPS

-----------------------------------------------------------------------------
(* Lists and messages on their way                                          *)

(* The head and the rest of a list are its entries.                         *)
LEMMA HeadTailRange ==
  ASSUME NEW S, NEW s \in Seq(S), s # <<>>
  PROVE  /\ Len(s) \in Nat \ {0} /\ Head(s) = s[1] /\ Head(s) \in S
         /\ Tail(s) \in Seq(S) /\ Len(Tail(s)) = Len(s) - 1
         /\ \A i \in 1..(Len(s) - 1) : Tail(s)[i] = s[i + 1]
         /\ Range(s) = Range(Tail(s)) \cup {Head(s)}
<1>1. Len(s) \in Nat \ {0}
  BY EmptySeq
<1>2. /\ Head(s) \in S /\ Tail(s) \in Seq(S) /\ Len(Tail(s)) = Len(s) - 1
      /\ \A i \in 1..Len(Tail(s)) : Tail(s)[i] = s[i + 1]
  BY HeadTailProperties
<1>3. Head(s) = s[1]
  BY <1>1
<1> DEFINE r == Tail(s)
<1>4. Range(r) = {r[i] : i \in 1..(Len(s) - 1)}
  BY <1>2, RangeEquality
<1>5. Range(s) = {s[i] : i \in 1..Len(s)}
  BY RangeEquality
<1>6. \A i \in 1..(Len(s) - 1) : r[i] = s[i + 1] /\ i + 1 \in 1..Len(s)
  BY <1>1, <1>2
<1>7. \A i \in 1..Len(s) : i = 1 \/ (i - 1 \in 1..(Len(s) - 1) /\ r[i - 1] = s[i])
  <2> TAKE i \in 1..Len(s)
  <2>1. CASE i # 1
    <3>1. i - 1 \in 1..(Len(s) - 1) /\ (i - 1) + 1 = i
      BY <2>1, <1>1
    <3> QED BY <3>1, <1>6
  <2> QED BY <2>1
<1> HIDE DEF r
<1>8. Range(s) = Range(r) \cup {s[1]}
  <2>1. 1 \in 1..Len(s)
    BY <1>1
  <2> QED BY <1>4, <1>5, <1>6, <1>7, <2>1
<1> QED BY <1>1, <1>2, <1>3, <1>8 DEF r

(* Messages on their way, the oldest first: of those in S the last one is   *)
(* in G, or there is none.                                                  *)
LastIn(q, S, G) ==
  \E i \in 1..Len(q) : q[i] \in G /\ \A j \in (i + 1)..Len(q) : q[j] \notin S

NoneIn(q, S) == \A j \in 1..Len(q) : q[j] \notin S

(* A message that is sent is the last one of its kind.                      *)
LEMMA LastAppended ==
  ASSUME NEW M, NEW q \in Seq(M), NEW m \in M, NEW S, NEW G
  PROVE  /\ m \in G => LastIn(Append(q, m), S, G)
         /\ m \notin S /\ LastIn(q, S, G) => LastIn(Append(q, m), S, G)
         /\ NoneIn(Append(q, m), S) <=> (NoneIn(q, S) /\ m \notin S)
<1> DEFINE r == Append(q, m)
<1>1. /\ Len(q) \in Nat /\ Len(r) = Len(q) + 1 /\ r[Len(q) + 1] = m
      /\ \A i \in 1..Len(q) : r[i] = q[i]
  BY AppendProperties, LenProperties
<1> HIDE DEF r
<1>2. ASSUME m \in G PROVE LastIn(r, S, G)
  <2>1. Len(q) + 1 \in 1..Len(r) /\ r[Len(q) + 1] \in G
    BY <1>1, <1>2
  <2>2. \A j \in (Len(q) + 2)..Len(r) : r[j] \notin S
    BY <1>1
  <2> QED BY <1>1, <2>1, <2>2 DEF LastIn
<1>3. ASSUME m \notin S, LastIn(q, S, G) PROVE LastIn(r, S, G)
  <2>1. PICK i \in 1..Len(q) : q[i] \in G /\ \A j \in (i + 1)..Len(q) : q[j] \notin S
    BY <1>3 DEF LastIn
  <2>2. i \in 1..Len(r) /\ r[i] \in G
    BY <1>1, <2>1
  <2>3. \A j \in (i + 1)..Len(r) : r[j] \notin S
    <3> TAKE j \in (i + 1)..Len(r)
    <3>1. CASE j \in (i + 1)..Len(q)
      BY <1>1, <2>1, <3>1
    <3>2. CASE j = Len(q) + 1
      BY <1>1, <1>3, <3>2
    <3> QED BY <1>1, <3>1, <3>2
  <2> QED BY <2>2, <2>3 DEF LastIn
<1>4. NoneIn(r, S) <=> (NoneIn(q, S) /\ m \notin S)
  <2>1. 1..Len(r) = 1..Len(q) \cup {Len(q) + 1}
    BY <1>1
  <2> QED BY <1>1, <2>1 DEF NoneIn
<1> QED BY <1>2, <1>3, <1>4 DEF r

(* A message that is read was the last one of its kind, or another is.      *)
LEMMA LastRead ==
  ASSUME NEW M, NEW q \in Seq(M), q # <<>>, NEW S, NEW G
  PROVE  /\ LastIn(q, S, G) =>
              LastIn(Tail(q), S, G) \/ (Head(q) \in G /\ NoneIn(Tail(q), S))
         /\ NoneIn(q, S) <=> (NoneIn(Tail(q), S) /\ Head(q) \notin S)
<1> DEFINE r == Tail(q)
           h == Head(q)
<1>1. /\ Len(q) \in Nat \ {0} /\ h = q[1] /\ Len(r) = Len(q) - 1
      /\ \A i \in 1..(Len(q) - 1) : r[i] = q[i + 1]
  BY HeadTailRange
<1> HIDE DEF r, h
<1>2. \A j \in 2..Len(q) : j - 1 \in 1..Len(r) /\ r[j - 1] = q[j]
  <2> TAKE j \in 2..Len(q)
  <2>1. j - 1 \in 1..(Len(q) - 1) /\ (j - 1) + 1 = j
    BY <1>1
  <2> QED BY <1>1, <2>1
<1>3. ASSUME LastIn(q, S, G) PROVE LastIn(r, S, G) \/ (h \in G /\ NoneIn(r, S))
  <2>1. PICK i \in 1..Len(q) : q[i] \in G /\ \A j \in (i + 1)..Len(q) : q[j] \notin S
    BY <1>3 DEF LastIn
  <2>2. \A j \in i..Len(r) : r[j] \notin S
    <3> TAKE j \in i..Len(r)
    <3>1. j \in 1..(Len(q) - 1) /\ j + 1 \in (i + 1)..Len(q)
      BY <1>1
    <3> QED BY <1>1, <2>1, <3>1
  <2>3. CASE i = 1
    BY <1>1, <2>1, <2>2, <2>3 DEF NoneIn
  <2>4. CASE i # 1
    <3>1. i - 1 \in 1..Len(r) /\ r[i - 1] \in G
      BY <1>2, <2>1, <2>4
    <3>2. (i - 1) + 1 = i
      OBVIOUS
    <3> QED BY <2>2, <3>1, <3>2 DEF LastIn
  <2> QED BY <2>3, <2>4
<1>4. NoneIn(q, S) <=> (NoneIn(r, S) /\ h \notin S)
  <2>1. ASSUME NoneIn(q, S) PROVE NoneIn(r, S) /\ h \notin S
    <3>1. \A j \in 1..Len(r) : j + 1 \in 1..Len(q) /\ r[j] = q[j + 1]
      BY <1>1
    <3> QED BY <1>1, <2>1, <3>1 DEF NoneIn
  <2>2. ASSUME NoneIn(r, S), h \notin S PROVE NoneIn(q, S)
    <3>1. \A j \in 1..Len(q) : j = 1 \/ j \in 2..Len(q)
      BY <1>1
    <3> QED BY <1>1, <1>2, <2>2, <3>1 DEF NoneIn
  <2> QED BY <2>1, <2>2
<1> QED BY <1>3, <1>4 DEF r, h

(* A list without messages of a kind, before and after one is sent or read. *)
LEMMA NoneAppended ==
  ASSUME NEW M, NEW q \in Seq(M), NEW m \in M, NEW S
  PROVE  NoneIn(Append(q, m), S) <=> (NoneIn(q, S) /\ m \notin S)
<1>1. \A G : NoneIn(Append(q, m), S) <=> (NoneIn(q, S) /\ m \notin S)
  BY LastAppended
<1> QED BY <1>1

LEMMA NoneRead ==
  ASSUME NEW M, NEW q \in Seq(M), q # <<>>, NEW S
  PROVE  NoneIn(q, S) <=> (NoneIn(Tail(q), S) /\ Head(q) \notin S)
<1>1. \A G : NoneIn(q, S) <=> (NoneIn(Tail(q), S) /\ Head(q) \notin S)
  BY LastRead
<1> QED BY <1>1

LEMMA NoneOnTheWay == \A S, G : NoneIn(<<>>, S) /\ ~LastIn(<<>>, S, G)
  BY DEF NoneIn, LastIn

(* Two messages are sent one after the other.                               *)
LEMMA ConcatAppends ==
  ASSUME NEW M, NEW q \in Seq(M), NEW a \in M, NEW b \in M
  PROVE  /\ q \o <<>> = q
         /\ q \o <<a>> = Append(q, a)
         /\ q \o <<a, b>> = Append(Append(q, a), b)
         /\ Append(q, a) \in Seq(M) /\ Append(Append(q, a), b) \in Seq(M)
  OBVIOUS

(* Once q has been read, a reader that shows x shows v: the last message of *)
(* a kind is m, which tells it v, or there is none and it shows v already.  *)
Shows(q, S, m, x, v) == LastIn(q, S, {m}) \/ (NoneIn(q, S) /\ x = v)

LEMMA ShowsSent ==
  ASSUME NEW M, NEW q \in Seq(M), NEW n \in M, NEW S, NEW m, NEW x, NEW v
  PROVE  /\ n = m => Shows(Append(q, n), S, m, x, v)
         /\ n \notin S /\ Shows(q, S, m, x, v) => Shows(Append(q, n), S, m, x, v)
  BY LastAppended DEF Shows

LEMMA ShowsRead ==
  ASSUME NEW M, NEW q \in Seq(M), q # <<>>, NEW S, NEW m, NEW x, NEW v, NEW y,
         Shows(q, S, m, x, v), Head(q) = m => y = v, Head(q) \notin S => y = x
  PROVE  Shows(Tail(q), S, m, y, v)
  BY LastRead DEF Shows

-----------------------------------------------------------------------------
(* Workers                                                                  *)

(* The messages the argument tells apart: what follows a worker and what    *)
(* unfollows it, switches away from a chat, snapshots, transcripts.         *)
Opens(w) == {m \in Follow!Request : m.type = "open_worker" /\ m.worker = w}
Closes(w) == {m \in Follow!Request : m.type = "close_worker" /\ m.worker = w}
Moves(c) == {m \in Follow!Request : m.type = "switch_conversation" /\ m.chat # c}
Snaps == {m \in Follow!Answer : m.type = "snapshot"}
Leaves(c) == {m \in Follow!Answer : m.type = "snapshot" /\ m.chat # c}
Scripts(c, w) ==
  {m \in Follow!Answer : m.type = "worker_transcript" /\ m.chat = c /\ m.worker = w}

SnapOf(c) == [type |-> "snapshot", chat |-> c, worker |-> 0, events |-> 0]
ScriptOf(c, w, n) ==
  [type |-> "worker_transcript", chat |-> c, worker |-> w, events |-> n]

(* The last snapshot on its way, or the screen, shows the active chat.      *)
ScreenFollows(t) == Shows(replies[t], Snaps, SnapOf(active), shown[t], active)

(* A pane shows a worker that its chat has, or had once.                    *)
PaneIsReported(t) ==
  selected[t] # 0 => selected[t] \in known[shown[t]] \cup vanished[shown[t]]

(* Nothing on its way leads to another chat than the one on the screen.     *)
Aligned(t) == NoneIn(requests[t], Moves(shown[t])) /\ NoneIn(replies[t], Leaves(shown[t]))

(* Once the requests are served, the hub follows what the pane shows.       *)
PaneFollows(t) ==
  \/ LastIn(requests[t], Closes(selected[t]), Opens(selected[t]))
  \/ /\ NoneIn(requests[t], Closes(selected[t]))
     /\ selected[t] \in open[shown[t]]

(* The transcript is about to be pushed or asked for, or the last one on    *)
(* its way, or the pane, has all of it.                                     *)
PaneIsFresh(t) ==
  \/ <<shown[t], selected[t]>> \in pushTimers
  \/ ~NoneIn(requests[t], Opens(selected[t]))
  \/ Shows(replies[t], Scripts(shown[t], selected[t]),
           ScriptOf(shown[t], selected[t], live[shown[t]][selected[t]]),
           pane[t], live[shown[t]][selected[t]])

PaneServed(t) ==
  (Aligned(t) /\ selected[t] \in known[shown[t]] \ vanished[shown[t]])
    => PaneFollows(t) /\ PaneIsFresh(t)

FollowIInv ==
  /\ Follow!WorkerTypeOK /\ Follow!FollowedAreKnown
  /\ \A t \in OneTab : ScreenFollows(t) /\ PaneIsReported(t) /\ PaneServed(t)

LEMMA FollowInitially == Follow!WorkerInit => FollowIInv
<1> SUFFICES ASSUME Follow!WorkerInit PROVE FollowIInv
  OBVIOUS
<1> USE RunsBounds, OneFollower DEF Follow!WorkerInit, Follow!NoWorker
<1>1. Follow!WorkerTypeOK
  BY DEF Follow!WorkerTypeOK
<1>2. Follow!FollowedAreKnown
  BY DEF Follow!FollowedAreKnown
<1>3. ASSUME NEW t \in OneTab PROVE ScreenFollows(t) /\ PaneIsReported(t) /\ PaneServed(t)
  BY <1>3, NoneOnTheWay DEF ScreenFollows, PaneIsReported, PaneServed, Shows
<1> QED BY <1>1, <1>2, <1>3 DEF FollowIInv

(* Messages of different kinds.                                             *)
LEMMA FollowKinds ==
  /\ \A m, w, x : m \in Opens(w) => m \in Follow!Request /\ m \notin Closes(x)
  /\ \A m, w, c : m \in Opens(w) \cup Closes(w) => m \notin Moves(c)
  /\ \A m, w, x : m \in Opens(w) /\ m \in Opens(x) => w = x
  /\ \A m, w, x : m \in Closes(w) /\ m \in Closes(x) => w = x
  /\ \A m \in Snaps : \A c, w : m \notin Scripts(c, w)
  /\ \A m, c, w : m \in Scripts(c, w) => m \notin Snaps
                                         /\ \A d : m \notin Leaves(d)
  /\ \A m, c, w, d, x : m \in Scripts(c, w) /\ m \in Scripts(d, x) => c = d /\ w = x
  /\ \A c : Leaves(c) \subseteq Snaps
  /\ \A c \in Chat : /\ SnapOf(c) \in Snaps /\ SnapOf(c) \in Follow!Answer
                     /\ SnapOf(c) \notin Leaves(c)
                     /\ \A d : d # c => SnapOf(c) \in Leaves(d)
  /\ \A c \in Chat, w \in Worker, n \in 0..MaxEvents :
        ScriptOf(c, w, n) \in Scripts(c, w) /\ ScriptOf(c, w, n) \in Follow!Answer
<1> USE DEF Follow!NoWorker
<1>1. \A c \in Chat : SnapOf(c) \in Follow!Answer
  BY DEF SnapOf, Follow!Answer
<1>2. \A c \in Chat, w \in Worker, n \in 0..MaxEvents :
        ScriptOf(c, w, n) \in Follow!Answer
  BY DEF ScriptOf, Follow!Answer
<1>3. \A m, w : m \in Opens(w) =>
        m \in Follow!Request /\ m.type = "open_worker" /\ m.worker = w
  BY DEF Opens
<1>4. \A m, w : m \in Closes(w) => m.type = "close_worker" /\ m.worker = w
  BY DEF Closes
<1>5. \A m, c : m \in Moves(c) => m.type = "switch_conversation"
  BY DEF Moves
<1>6. \A m \in Snaps : m.type = "snapshot"
  BY DEF Snaps
<1>7. \A m, c, w : m \in Scripts(c, w) =>
        m.type = "worker_transcript" /\ m.chat = c /\ m.worker = w
  BY DEF Scripts
<1>8. \A c : Leaves(c) \subseteq Snaps
  BY DEF Snaps, Leaves
<1>9. \A c \in Chat : /\ SnapOf(c) \in Snaps /\ SnapOf(c) \notin Leaves(c)
                      /\ \A d : d # c => SnapOf(c) \in Leaves(d)
  BY <1>1 DEF SnapOf, Snaps, Leaves
<1>10. \A c \in Chat, w \in Worker, n \in 0..MaxEvents :
         ScriptOf(c, w, n) \in Scripts(c, w)
  BY <1>2 DEF ScriptOf, Scripts
<1>11. \A m, w, x : m \in Opens(w) => m \in Follow!Request /\ m \notin Closes(x)
  BY <1>3, <1>4
<1>12. \A m, w, c : m \in Opens(w) \cup Closes(w) => m \notin Moves(c)
  BY <1>3, <1>4, <1>5
<1>13. \A m, c, w : m \in Scripts(c, w) => m \notin Snaps /\ \A d : m \notin Leaves(d)
  BY <1>6, <1>7, <1>8
<1> QED BY <1>1, <1>2, <1>3, <1>4, <1>6, <1>7, <1>8, <1>9, <1>10, <1>11, <1>12, <1>13

(* What is sent to the tabs.                                                *)
LEMMA EmitProperties ==
  ASSUME Follow!WorkerTypeOK, NEW m \in Follow!Answer, Follow!Emit(m)
  PROVE  /\ replies' \in [OneTab -> Seq(Follow!Answer)]
         /\ \A t \in OneTab : replies'[t] = Append(replies[t], m)
  BY DEF Follow!WorkerTypeOK, Follow!Emit

(* What the pane asks for when another worker is chosen; the last request   *)
(* is the one that follows it.                                              *)
LEMMA SelectProperties ==
  ASSUME Follow!WorkerTypeOK, NEW t \in OneTab, NEW w \in Worker \cup {0},
         Follow!Select(t, w)
  PROVE  /\ requests' \in [OneTab -> Seq(Follow!Request)]
         /\ selected' \in [OneTab -> Worker \cup {0}] /\ pane' \in [OneTab -> 0..MaxEvents]
         /\ selected'[t] = w
         /\ w # 0 => /\ w \in known[shown[t]]
                     /\ \E q \in Seq(Follow!Request) : \E m \in Opens(w) :
                          requests'[t] = Append(q, m)
<1> USE OneFollower, RunsBounds DEF Follow!NoWorker
<1> DEFINE R == Follow!Request
           a == Follow!Ask(t, selected[t], "close_worker")
           b == Follow!Ask(t, w, "open_worker")
           u == IF selected[t] = 0 THEN <<>> ELSE <<a>>
           v == IF w = 0 THEN <<>> ELSE <<b>>
<1>1. /\ requests[t] \in Seq(R) /\ requests \in [OneTab -> Seq(R)]
      /\ shown[t] \in Chat /\ selected[t] \in Worker \cup {0}
      /\ requests' = [requests EXCEPT ![t] = (requests[t] \o u) \o v]
      /\ selected' = [selected EXCEPT ![t] = w] /\ pane' = [pane EXCEPT ![t] = 0]
      /\ w # 0 => w \in known[shown[t]]
  BY DEF Follow!WorkerTypeOK, Follow!Select
<1>2. selected[t] # 0 => a \in R
  BY <1>1 DEF Follow!Ask, Follow!Request
<1>3. w # 0 => b \in R /\ b \in Opens(w)
  BY <1>1 DEF Follow!Ask, Follow!Request, Opens
<1>4. u \in Seq(R) /\ v \in Seq(R)
  BY <1>2, <1>3
<1>5. requests[t] \o u \in Seq(R) /\ (requests[t] \o u) \o v \in Seq(R)
  BY <1>1, <1>4, ConcatProperties
<1>6. requests'[t] = (requests[t] \o u) \o v /\ requests' \in [OneTab -> Seq(R)]
  BY <1>1, <1>5
<1>7. selected'[t] = w /\ selected' \in [OneTab -> Worker \cup {0}]
      /\ pane' \in [OneTab -> 0..MaxEvents]
  BY <1>1 DEF Follow!WorkerTypeOK
<1>8. ASSUME w # 0
      PROVE  \E q \in Seq(R) : \E m \in Opens(w) : requests'[t] = Append(q, m)
  <2>1. v = <<b>> /\ b \in R /\ b \in Opens(w)
    BY <1>3, <1>8
  <2> HIDE DEF u, v, b
  <2>2. (requests[t] \o u) \o <<b>> = Append(requests[t] \o u, b)
    BY <1>5, <2>1, ConcatAppends
  <2> QED BY <1>5, <1>6, <2>1, <2>2
<1> QED BY <1>1, <1>6, <1>7, <1>8

(* A snapshot of another chat changes the screen, and the pane asks again;  *)
(* a transcript of the worker on the screen is shown.                       *)
LEMMA FollowReceiveProperties ==
  ASSUME Follow!WorkerTypeOK, NEW t \in OneTab, Follow!Receive(t)
  PROVE  /\ replies[t] \in Seq(Follow!Answer) /\ replies[t] # <<>>
         /\ Head(replies[t]) \in Follow!Answer
         /\ replies'[t] = Tail(replies[t])
         /\ replies' \in [OneTab -> Seq(Follow!Answer)]
         /\ UNCHANGED <<active, known, open, vanished, live, pushTimers>>
         /\ requests' \in [OneTab -> Seq(Follow!Request)] /\ shown' \in [OneTab -> Chat]
         /\ selected' \in [OneTab -> Worker \cup {0}] /\ pane' \in [OneTab -> 0..MaxEvents]
         /\ \/ /\ Head(replies[t]) \in Leaves(shown[t])
               /\ shown'[t] = Head(replies[t]).chat
               /\ selected'[t] # 0 =>
                    /\ selected'[t] \in known[shown'[t]]
                    /\ \E q \in Seq(Follow!Request) : \E m \in Opens(selected'[t]) :
                         requests'[t] = Append(q, m)
            \/ /\ Head(replies[t]) \notin Leaves(shown[t])
               /\ UNCHANGED <<shown, selected, requests>>
               /\ pane'[t] = IF Head(replies[t]) \in Scripts(shown[t], selected[t])
                             THEN Head(replies[t]).events ELSE pane[t]
<1> USE OneFollower, RunsBounds DEF Follow!NoWorker
<1> DEFINE R == Follow!Request
           h == Head(replies[t])
<1>1. /\ replies[t] \in Seq(Follow!Answer) /\ replies \in [OneTab -> Seq(Follow!Answer)]
      /\ requests[t] \in Seq(R) /\ requests \in [OneTab -> Seq(R)]
      /\ shown \in [OneTab -> Chat] /\ selected \in [OneTab -> Worker \cup {0}]
      /\ pane \in [OneTab -> 0..MaxEvents]
  BY DEF Follow!WorkerTypeOK
<1>2. /\ replies[t] # <<>> /\ replies' = [replies EXCEPT ![t] = Tail(replies[t])]
      /\ UNCHANGED <<active, known, open, vanished, live, pushTimers>>
  BY DEF Follow!Receive
<1>3. h \in Follow!Answer /\ Tail(replies[t]) \in Seq(Follow!Answer)
  BY <1>1, <1>2, HeadTailRange
<1>4. replies'[t] = Tail(replies[t]) /\ replies' \in [OneTab -> Seq(Follow!Answer)]
  BY <1>1, <1>2, <1>3
<1>5. CASE h.type = "snapshot" /\ h.chat # shown[t]
  <2>1. h \in Leaves(shown[t]) /\ h.chat \in Chat
    BY <1>3, <1>5 DEF Leaves, Follow!Answer
  <2>2. /\ shown' = [shown EXCEPT ![t] = h.chat] /\ pane' = [pane EXCEPT ![t] = 0]
        /\ selected' = [selected EXCEPT ![t] =
                          IF @ \in known[h.chat] THEN @ ELSE 0]
        /\ requests' = [requests EXCEPT ![t] = @ \o Follow!Resubscribe(t, selected'[t])]
    BY <1>5 DEF Follow!Receive
  <2>3. /\ shown'[t] = h.chat /\ shown' \in [OneTab -> Chat]
        /\ pane' \in [OneTab -> 0..MaxEvents]
        /\ selected' \in [OneTab -> Worker \cup {0}]
        /\ selected'[t] # 0 => selected'[t] \in known[shown'[t]]
    BY <1>1, <2>1, <2>2
  <2>4. PICK w \in Worker \cup {0} : w = selected'[t]
    BY <2>3
  <2>5. PICK a : a = Follow!Ask(t, w, "close_worker")
    OBVIOUS
  <2>6. PICK b : b = Follow!Ask(t, w, "open_worker")
    OBVIOUS
  <2>7. Follow!Resubscribe(t, w) = IF w = 0 THEN <<>> ELSE <<a, b>>
    BY <2>5, <2>6 DEF Follow!Resubscribe
  <2>8. shown[t] \in Chat
    BY <1>1
  <2>9. w # 0 => a \in R /\ b \in R /\ b \in Opens(w)
    BY <2>4, <2>5, <2>6, <2>8 DEF Follow!Ask, Follow!Request, Opens
  <2>10. requests' = [requests EXCEPT ![t] = requests[t] \o Follow!Resubscribe(t, w)]
    BY <2>2, <2>4
  <2>11. CASE w = 0
    <3>1. requests' = [requests EXCEPT ![t] = requests[t]]
      BY <1>1, <2>7, <2>10, <2>11, ConcatAppends, ConcatEmptySeq
    <3>2. requests' \in [OneTab -> Seq(R)]
      BY <1>1, <3>1
    <3> QED BY <1>1, <1>2, <1>3, <1>4, <2>1, <2>3, <2>4, <2>11, <3>2
  <2>12. CASE w # 0
    <3>1. requests[t] \o <<a, b>> = Append(Append(requests[t], a), b)
          /\ Append(requests[t], a) \in Seq(R) /\ Append(Append(requests[t], a), b) \in Seq(R)
      BY <1>1, <2>9, <2>12, ConcatAppends
    <3>2. requests'[t] = Append(Append(requests[t], a), b)
          /\ requests' \in [OneTab -> Seq(R)]
      BY <1>1, <2>7, <2>10, <2>12, <3>1
    <3>3. \E q \in Seq(R) : \E m \in Opens(w) : requests'[t] = Append(q, m)
      BY <2>9, <2>12, <3>1, <3>2
    <3> QED BY <1>1, <1>2, <1>3, <1>4, <2>1, <2>3, <2>4, <3>2, <3>3
  <2> QED BY <2>11, <2>12
<1>6. CASE ~(h.type = "snapshot" /\ h.chat # shown[t])
  <2>1. h \notin Leaves(shown[t])
    BY <1>6 DEF Leaves
  <2>2. UNCHANGED <<shown, selected, requests>>
    BY <1>6 DEF Follow!Receive
  <2>3. h \in Scripts(shown[t], selected[t])
          <=> h.type = "worker_transcript" /\ h.chat = shown[t] /\ h.worker = selected[t]
    BY <1>3 DEF Scripts
  <2>4. pane' = IF h.type = "worker_transcript" /\ h.chat = shown[t]
                   /\ h.worker = selected[t]
                THEN [pane EXCEPT ![t] = h.events] ELSE pane
    BY <1>6 DEF Follow!Receive
  <2>5. h.events \in 0..MaxEvents
    BY <1>3 DEF Follow!Answer
  <2>6. /\ pane'[t] = IF h \in Scripts(shown[t], selected[t]) THEN h.events ELSE pane[t]
        /\ pane' \in [OneTab -> 0..MaxEvents]
    BY <1>1, <2>3, <2>4, <2>5
  <2> QED BY <1>1, <1>2, <1>3, <1>4, <2>1, <2>2, <2>6
<1> QED BY <1>5, <1>6

(* What the server makes of the first request.                              *)
LEMMA ServeProperties ==
  ASSUME Follow!WorkerTypeOK, Follow!FollowedAreKnown, NEW t \in OneTab, Follow!Serve(t)
  PROVE  /\ requests[t] \in Seq(Follow!Request) /\ requests[t] # <<>>
         /\ requests'[t] = Tail(requests[t])
         /\ requests' \in [OneTab -> Seq(Follow!Request)]
         /\ UNCHANGED <<known, vanished, live, pushTimers, shown, selected, pane>>
         /\ \/ \E w \in Worker :
                 /\ Head(requests[t]) \in Opens(w) /\ active' = active
                 /\ \/ /\ w \in known[active]
                       /\ open' = [open EXCEPT ![active] = @ \cup {w}]
                       /\ Follow!Emit(ScriptOf(active, w, live[active][w]))
                    \/ /\ w \notin known[active] /\ UNCHANGED <<open, replies>>
            \/ \E w \in Worker :
                 /\ Head(requests[t]) \in Closes(w)
                 /\ open' = [open EXCEPT ![active] = @ \ {w}]
                 /\ UNCHANGED <<active, replies>>
            \/ \E c \in Chat :
                 /\ Head(requests[t]) \in Follow!Request
                 /\ Head(requests[t]).type = "switch_conversation"
                 /\ Head(requests[t]).chat = c
                 /\ active' = c /\ Follow!Emit(SnapOf(c)) /\ open' = open
<1> USE DEF Follow!NoWorker
<1> DEFINE h == Head(requests[t])
<1>1. /\ requests[t] \in Seq(Follow!Request) /\ requests[t] # <<>>
      /\ requests \in [OneTab -> Seq(Follow!Request)]
      /\ requests' = [requests EXCEPT ![t] = Tail(requests[t])]
      /\ UNCHANGED <<known, vanished, live, pushTimers, shown, selected, pane>>
  BY DEF Follow!WorkerTypeOK, Follow!Serve
<1>2. h \in Follow!Request /\ Tail(requests[t]) \in Seq(Follow!Request)
  BY <1>1, HeadTailRange
<1>3. requests'[t] = Tail(requests[t]) /\ requests' \in [OneTab -> Seq(Follow!Request)]
  BY <1>1, <1>2
<1>4. CASE h.type = "open_worker"
  <2>1. h.worker \in Worker /\ h \in Opens(h.worker)
    BY <1>2, <1>4 DEF Follow!Request, Opens
  <2>2. Follow!Transcript(active, h.worker)
          = ScriptOf(active, h.worker, live[active][h.worker])
    BY DEF Follow!Transcript, ScriptOf
  <2>3. active' = active
        /\ \/ /\ h.worker \in known[active]
              /\ open' = [open EXCEPT ![active] = @ \cup {h.worker}]
              /\ Follow!Emit(ScriptOf(active, h.worker, live[active][h.worker]))
           \/ h.worker \notin known[active] /\ UNCHANGED <<open, replies>>
    BY <1>4, <2>2 DEF Follow!Serve
  <2> QED BY <1>1, <1>3, <2>1, <2>3
<1>5. CASE h.type = "close_worker"
  <2>1. h.worker \in Worker /\ h \in Closes(h.worker)
    BY <1>2, <1>5 DEF Follow!Request, Closes
  <2>2. /\ open' = [open EXCEPT ![active] = @ \ {h.worker}]
        /\ UNCHANGED <<active, replies>>
    BY <1>5 DEF Follow!Serve
  <2> QED BY <1>1, <1>3, <2>1, <2>2
<1>6. CASE h.type = "switch_conversation"
  <2>1. h.chat \in Chat
    BY <1>2 DEF Follow!Request
  <2>2. active' = h.chat /\ Follow!Emit(SnapOf(h.chat)) /\ open' = open
    BY <1>6 DEF Follow!Serve, SnapOf
  <2> QED BY <1>1, <1>2, <1>3, <1>6, <2>1, <2>2
<1>7. h.type \in {"open_worker", "close_worker", "switch_conversation"}
  BY <1>2 DEF Follow!Request
<1> QED BY <1>4, <1>5, <1>6, <1>7

(* The type invariant.                                                      *)
LEMMA FollowTypes ==
  ASSUME Follow!WorkerTypeOK, Follow!FollowedAreKnown, [Follow!WorkerNext]_workerVars
  PROVE  Follow!WorkerTypeOK' /\ Follow!FollowedAreKnown'
<1> USE OneFollower, RunsBounds DEF Follow!NoWorker
<1> SUFFICES Follow!WorkerTypeOK' /\ Follow!FollowedAreKnown'
  OBVIOUS
<1> DEFINE R == Follow!Request
<1>1. /\ active \in Chat /\ known \in [Chat -> SUBSET Worker]
      /\ open \in [Chat -> SUBSET Worker] /\ vanished \in [Chat -> SUBSET Worker]
      /\ live \in [Chat -> [Worker -> 0..MaxEvents]]
      /\ pushTimers \subseteq Chat \X Worker
      /\ requests \in [OneTab -> Seq(R)]
      /\ selected \in [OneTab -> Worker \cup {0}] /\ shown \in [OneTab -> Chat]
      /\ \A c \in Chat : open[c] \subseteq known[c]
  BY DEF Follow!WorkerTypeOK, Follow!FollowedAreKnown
<1>2. ASSUME NEW c \in Chat, NEW ws \in SUBSET Worker, Follow!WorkersEvent(c, ws)
      PROVE  Follow!WorkerTypeOK' /\ Follow!FollowedAreKnown'
  <2>1. /\ known' = [known EXCEPT ![c] = ws]
        /\ vanished' = [vanished EXCEPT ![c] = vanished[c] \cup (known[c] \ ws)]
        /\ open' = [open EXCEPT ![c] = open[c] \cap ws]
        /\ pushTimers' = pushTimers \cup ({c} \X (open[c] \cap ws))
        /\ UNCHANGED <<active, shown, selected, pane, requests, replies>>
    BY <1>2 DEF Follow!WorkersEvent, Follow!OpenAfterList
  <2>2. live' \in [Chat -> [Worker -> 0..MaxEvents]]
    <3> DEFINE f == [w \in Worker |-> IF w \in known[c] \cap ws THEN live[c][w] ELSE 0]
    <3>1. live' = [live EXCEPT ![c] = f]
      BY <1>2 DEF Follow!WorkersEvent
    <3>2. f \in [Worker -> 0..MaxEvents]
      BY <1>1
    <3> HIDE DEF f
    <3> QED BY <1>1, <3>1, <3>2
  <2>3. /\ known' \in [Chat -> SUBSET Worker] /\ open' \in [Chat -> SUBSET Worker]
        /\ vanished' \in [Chat -> SUBSET Worker] /\ pushTimers' \subseteq Chat \X Worker
    BY <1>1, <2>1
  <2>4. \A d \in Chat : open'[d] \subseteq known'[d]
    BY <1>1, <2>1
  <2> QED BY <2>1, <2>2, <2>3, <2>4 DEF Follow!WorkerTypeOK, Follow!FollowedAreKnown
<1>3. ASSUME NEW c \in Chat, NEW w \in Worker, Follow!TranscriptEvent(c, w)
      PROVE  Follow!WorkerTypeOK' /\ Follow!FollowedAreKnown'
  <2>1. /\ live[c][w] < MaxEvents
        /\ pushTimers' = pushTimers \cup Follow!PushesFor(c, w)
        /\ UNCHANGED <<active, known, open, vanished, shown, selected, pane, requests,
                       replies>>
    BY <1>3 DEF Follow!TranscriptEvent
  <2>2. pushTimers' \subseteq Chat \X Worker
    BY <1>1, <2>1 DEF Follow!PushesFor
  <2>3. live' \in [Chat -> [Worker -> 0..MaxEvents]]
    <3>1. PICK f \in [Worker -> 0..MaxEvents] : f = live[c]
      BY <1>1
    <3>2. [f EXCEPT ![w] = @ + 1] \in [Worker -> 0..MaxEvents]
      <4>1. f[w] \in 0..MaxEvents /\ f[w] < MaxEvents
        BY <2>1, <3>1
      <4> QED BY <4>1
    <3>3. live' = [live EXCEPT ![c] = [f EXCEPT ![w] = @ + 1]]
      BY <1>3, <3>1 DEF Follow!TranscriptEvent
    <3> QED BY <1>1, <3>2, <3>3
  <2> QED BY <2>1, <2>2, <2>3 DEF Follow!WorkerTypeOK, Follow!FollowedAreKnown
<1>4. ASSUME NEW c \in Chat, NEW w \in Worker, Follow!Push(c, w)
      PROVE  Follow!WorkerTypeOK' /\ Follow!FollowedAreKnown'
  <2>1. /\ pushTimers' = pushTimers \ {<<c, w>>}
        /\ \/ Follow!Emit(ScriptOf(c, w, live[c][w])) \/ replies' = replies
        /\ UNCHANGED <<active, known, open, vanished, live, shown, selected, pane, requests>>
    BY <1>4 DEF Follow!Push, Follow!Transcript, ScriptOf
  <2>2. ScriptOf(c, w, live[c][w]) \in Follow!Answer
    BY <1>1, FollowKinds
  <2>3. replies' \in [OneTab -> Seq(Follow!Answer)]
    BY <2>1, <2>2, EmitProperties DEF Follow!WorkerTypeOK
  <2> QED BY <2>1, <2>3 DEF Follow!WorkerTypeOK, Follow!FollowedAreKnown
<1>5. ASSUME NEW t \in OneTab, Follow!Serve(t)
      PROVE  Follow!WorkerTypeOK' /\ Follow!FollowedAreKnown'
  <2>1. /\ requests' \in [OneTab -> Seq(R)]
        /\ UNCHANGED <<known, vanished, live, pushTimers, shown, selected, pane>>
    BY <1>5, ServeProperties
  <2>2. ASSUME NEW w \in Worker, active' = active,
               \/ /\ w \in known[active]
                  /\ open' = [open EXCEPT ![active] = @ \cup {w}]
                  /\ Follow!Emit(ScriptOf(active, w, live[active][w]))
               \/ UNCHANGED <<open, replies>>
        PROVE  Follow!WorkerTypeOK' /\ Follow!FollowedAreKnown'
    <3>1. ScriptOf(active, w, live[active][w]) \in Follow!Answer
      BY <1>1, FollowKinds
    <3>2. replies' \in [OneTab -> Seq(Follow!Answer)]
      BY <2>2, <3>1, EmitProperties DEF Follow!WorkerTypeOK
    <3>3. open' \in [Chat -> SUBSET Worker] /\ \A d \in Chat : open'[d] \subseteq known[d]
      <4>1. CASE open' = open
        BY <1>1, <4>1
      <4>2. CASE w \in known[active] /\ open' = [open EXCEPT ![active] = @ \cup {w}]
        BY <1>1, <4>2
      <4> QED BY <2>2, <4>1, <4>2
    <3> QED BY <2>1, <2>2, <3>2, <3>3 DEF Follow!WorkerTypeOK, Follow!FollowedAreKnown
  <2>3. ASSUME NEW w \in Worker, open' = [open EXCEPT ![active] = @ \ {w}],
               UNCHANGED <<active, replies>>
        PROVE  Follow!WorkerTypeOK' /\ Follow!FollowedAreKnown'
    <3>1. open' \in [Chat -> SUBSET Worker] /\ \A d \in Chat : open'[d] \subseteq known[d]
      BY <1>1, <2>3
    <3> QED BY <2>1, <2>3, <3>1 DEF Follow!WorkerTypeOK, Follow!FollowedAreKnown
  <2>4. ASSUME NEW c \in Chat, active' = c, Follow!Emit(SnapOf(c)), open' = open
        PROVE  Follow!WorkerTypeOK' /\ Follow!FollowedAreKnown'
    <3>1. replies' \in [OneTab -> Seq(Follow!Answer)]
      BY <2>4, FollowKinds, EmitProperties
    <3> QED BY <2>1, <2>4, <3>1 DEF Follow!WorkerTypeOK, Follow!FollowedAreKnown
  <2> QED BY <1>5, <2>2, <2>3, <2>4, ServeProperties
<1>6. ASSUME NEW t \in OneTab, Follow!Receive(t)
      PROVE  Follow!WorkerTypeOK' /\ Follow!FollowedAreKnown'
  <2>1. /\ replies' \in [OneTab -> Seq(Follow!Answer)]
        /\ UNCHANGED <<active, known, open, vanished, live, pushTimers>>
        /\ requests' \in [OneTab -> Seq(R)] /\ shown' \in [OneTab -> Chat]
        /\ selected' \in [OneTab -> Worker \cup {0}] /\ pane' \in [OneTab -> 0..MaxEvents]
    BY <1>6, FollowReceiveProperties
  <2> QED BY <2>1 DEF Follow!WorkerTypeOK, Follow!FollowedAreKnown
<1>7. ASSUME NEW t \in OneTab, Follow!Vanish(t)
      PROVE  Follow!WorkerTypeOK' /\ Follow!FollowedAreKnown'
  <2>1. /\ selected[t] # 0
        /\ requests' = [requests EXCEPT ![t] =
                          Append(@, Follow!Ask(t, selected[t], "close_worker"))]
        /\ selected' = [selected EXCEPT ![t] = 0]
        /\ UNCHANGED <<active, known, open, vanished, live, pushTimers, shown, pane, replies>>
    BY <1>7 DEF Follow!Vanish
  <2>2. Follow!Ask(t, selected[t], "close_worker") \in R
    BY <1>1, <2>1 DEF Follow!Ask, Follow!Request
  <2>3. requests' \in [OneTab -> Seq(R)] /\ selected' \in [OneTab -> Worker \cup {0}]
    BY <1>1, <2>1, <2>2
  <2> QED BY <2>1, <2>3 DEF Follow!WorkerTypeOK, Follow!FollowedAreKnown
<1>8. ASSUME NEW t \in OneTab, NEW w \in Worker \cup {0}, Follow!Select(t, w)
      PROVE  Follow!WorkerTypeOK' /\ Follow!FollowedAreKnown'
  <2>1. /\ requests' \in [OneTab -> Seq(R)]
        /\ selected' \in [OneTab -> Worker \cup {0}] /\ pane' \in [OneTab -> 0..MaxEvents]
    BY <1>8, SelectProperties
  <2>2. UNCHANGED <<active, known, open, vanished, live, pushTimers, shown, replies>>
    BY <1>8 DEF Follow!Select
  <2> QED BY <2>1, <2>2 DEF Follow!WorkerTypeOK, Follow!FollowedAreKnown
<1>9. ASSUME NEW t \in OneTab, NEW c \in Chat, Follow!SwitchConversation(t, c)
      PROVE  Follow!WorkerTypeOK' /\ Follow!FollowedAreKnown'
  <2>1. PICK m : m = [type |-> "switch_conversation", worker |-> 0, chat |-> c]
    OBVIOUS
  <2>2. m \in R
    BY <2>1 DEF Follow!Request
  <2>3. /\ requests' = [requests EXCEPT ![t] = Append(@, m)]
        /\ UNCHANGED <<active, known, open, vanished, live, pushTimers, shown, selected,
                       pane, replies>>
    BY <1>9, <2>1 DEF Follow!SwitchConversation
  <2>4. requests' \in [OneTab -> Seq(R)]
    BY <1>1, <2>2, <2>3
  <2> QED BY <2>3, <2>4 DEF Follow!WorkerTypeOK, Follow!FollowedAreKnown
<1>10. CASE UNCHANGED workerVars
  BY <1>10 DEF workerVars, Follow!WorkerTypeOK, Follow!FollowedAreKnown
<1> QED BY <1>2, <1>3, <1>4, <1>5, <1>6, <1>7, <1>8, <1>9, <1>10 DEF Follow!WorkerNext

(* What holds of the tab, and that it is the only one.                      *)
PaneOK(t) == ScreenFollows(t) /\ PaneIsReported(t) /\ PaneServed(t)

LEMMA TabFacts ==
  ASSUME FollowIInv, NEW t \in OneTab
  PROVE  /\ PaneOK(t) /\ \A u \in OneTab : u = t
         /\ requests[t] \in Seq(Follow!Request) /\ replies[t] \in Seq(Follow!Answer)
         /\ active \in Chat /\ shown[t] \in Chat /\ selected[t] \in Worker \cup {0}
         /\ known \in [Chat -> SUBSET Worker] /\ open \in [Chat -> SUBSET Worker]
         /\ vanished \in [Chat -> SUBSET Worker]
         /\ live \in [Chat -> [Worker -> 0..MaxEvents]]
         /\ \A c \in Chat : open[c] \subseteq known[c]
         /\ selected[t] \in known[shown[t]] =>
              selected[t] \in Worker /\ live[shown[t]][selected[t]] \in 0..MaxEvents
<1>1. /\ requests[t] \in Seq(Follow!Request) /\ replies[t] \in Seq(Follow!Answer)
      /\ active \in Chat /\ shown[t] \in Chat /\ selected[t] \in Worker \cup {0}
      /\ known \in [Chat -> SUBSET Worker] /\ open \in [Chat -> SUBSET Worker]
      /\ vanished \in [Chat -> SUBSET Worker]
      /\ live \in [Chat -> [Worker -> 0..MaxEvents]]
  BY DEF FollowIInv, Follow!WorkerTypeOK, Follow!NoWorker
<1>2. \A c \in Chat : open[c] \subseteq known[c]
  BY DEF FollowIInv, Follow!FollowedAreKnown
<1>3. PaneOK(t)
  BY DEF FollowIInv, PaneOK
<1>4. \A u \in OneTab : u = t
  BY OneFollower
<1>5. selected[t] \in known[shown[t]] =>
        selected[t] \in Worker /\ live[shown[t]][selected[t]] \in 0..MaxEvents
  BY <1>1
<1> QED BY <1>1, <1>2, <1>3, <1>4, <1>5

(* A request that follows a worker is on its way.                           *)
LEMMA LastIsThere == \A q, S, G : LastIn(q, S, G) => ~NoneIn(q, G)
  BY DEF LastIn, NoneIn

(* When nothing leads elsewhere, the screen shows the active chat.          *)
LEMMA AlignedIsActive ==
  ASSUME FollowIInv, NEW t \in OneTab, Aligned(t)
  PROVE  active = shown[t]
<1>1. active \in Chat /\ ScreenFollows(t) /\ NoneIn(replies[t], Leaves(shown[t]))
  BY TabFacts DEF PaneOK, Aligned
<1>2. CASE LastIn(replies[t], Snaps, {SnapOf(active)})
  <2>1. SUFFICES ASSUME active # shown[t] PROVE FALSE
    OBVIOUS
  <2>2. SnapOf(active) \in Leaves(shown[t])
    BY <1>1, <2>1, FollowKinds
  <2> QED BY <1>1, <1>2, <2>2 DEF LastIn, NoneIn
<1> QED BY <1>1, <1>2 DEF ScreenFollows, Shows

LEMMA ReportKeeps ==
  ASSUME FollowIInv, NEW t \in OneTab, NEW c \in Chat, NEW ws \in SUBSET Worker,
         Follow!WorkersEvent(c, ws)
  PROVE  PaneOK(t)'
<1> USE OneFollower
<1> DEFINE s == selected[t]
           d == shown[t]
<1>1. /\ known' = [known EXCEPT ![c] = ws]
      /\ vanished' = [vanished EXCEPT ![c] = vanished[c] \cup (known[c] \ ws)]
      /\ open' = [open EXCEPT ![c] = open[c] \cap ws]
      /\ pushTimers \subseteq pushTimers'
      /\ live' = [live EXCEPT ![c] = [w \in Worker |-> IF w \in known[c] \cap ws
                                                       THEN live[c][w] ELSE 0]]
      /\ UNCHANGED <<active, shown, selected, pane, requests, replies>>
  BY DEF Follow!WorkersEvent, Follow!OpenAfterList
<1>2. ScreenFollows(t)' /\ (Aligned(t)' <=> Aligned(t))
  BY <1>1, TabFacts DEF PaneOK, ScreenFollows, Aligned
<1>3. PaneIsReported(t)'
  BY <1>1, TabFacts DEF PaneOK, PaneIsReported
<1>4. ASSUME Aligned(t), s \in known'[d] \ vanished'[d]
      PROVE  PaneFollows(t)' /\ PaneIsFresh(t)'
  <2>1. s \in Worker /\ s # 0 /\ s \in known[d] \ vanished[d] /\ (c = d => s \in ws)
    BY <1>1, <1>4, TabFacts DEF PaneOK, PaneIsReported
  <2>2. PaneFollows(t) /\ PaneIsFresh(t)
    BY <1>4, <2>1, TabFacts DEF PaneOK, PaneServed
  <2>3. live'[d][s] = live[d][s]
    <3>1. CASE c # d
      BY <1>1, <3>1, TabFacts
    <3>2. CASE c = d
      <4> DEFINE f == [w \in Worker |-> IF w \in known[c] \cap ws THEN live[c][w] ELSE 0]
      <4>1. f[s] = live[d][s]
        BY <2>1, <3>2
      <4> HIDE DEF f
      <4>2. live' = [live EXCEPT ![c] = f]
        BY <1>1 DEF f
      <4> QED BY <3>2, <4>1, <4>2, TabFacts
    <3> QED BY <3>1, <3>2
  <2>4. s \in open[d] => s \in open'[d]
    BY <1>1, <2>1, TabFacts
  <2>5. PaneFollows(t)'
    BY <1>1, <2>2, <2>4 DEF PaneFollows
  <2>6. PaneIsFresh(t)'
    BY <1>1, <2>2, <2>3 DEF PaneIsFresh
  <2> QED BY <2>5, <2>6
<1> QED BY <1>1, <1>2, <1>3, <1>4 DEF PaneOK, PaneServed

LEMMA TranscriptKeeps ==
  ASSUME FollowIInv, NEW t \in OneTab, NEW c \in Chat, NEW w \in Worker,
         Follow!TranscriptEvent(c, w)
  PROVE  PaneOK(t)'
<1> DEFINE s == selected[t]
           d == shown[t]
<1>1. /\ live' = [live EXCEPT ![c][w] = @ + 1]
      /\ pushTimers' = pushTimers \cup Follow!PushesFor(c, w)
      /\ UNCHANGED <<active, known, open, vanished, shown, selected, pane, requests,
                     replies>>
  BY DEF Follow!TranscriptEvent
<1>2. /\ ScreenFollows(t)' /\ (Aligned(t)' <=> Aligned(t)) /\ PaneIsReported(t)'
      /\ PaneFollows(t)' <=> PaneFollows(t)
  BY <1>1, TabFacts DEF PaneOK, ScreenFollows, Aligned, PaneIsReported, PaneFollows
<1>3. ASSUME Aligned(t), s \in known[d] \ vanished[d]
      PROVE  PaneFollows(t) /\ PaneIsFresh(t)'
  <2>1. PaneFollows(t) /\ PaneIsFresh(t)
    BY <1>3, TabFacts DEF PaneOK, PaneServed
  <2>2. CASE c = d /\ w = s
    <3>1. CASE s \in open[d]
      BY <1>1, <2>1, <2>2, <3>1 DEF PaneIsFresh, Follow!PushesFor
    <3>2. CASE s \notin open[d]
      BY <1>1, <2>1, <3>2, LastIsThere DEF PaneIsFresh, PaneFollows
    <3> QED BY <3>1, <3>2
  <2>3. CASE c # d \/ w # s
    <3>1. live'[d][s] = live[d][s]
      BY <1>1, <1>3, <2>3, TabFacts
    <3> QED BY <1>1, <2>1, <3>1 DEF PaneIsFresh
  <2> QED BY <2>1, <2>2, <2>3
<1> QED BY <1>1, <1>2, <1>3 DEF PaneOK, PaneServed

LEMMA PushKeeps ==
  ASSUME FollowIInv, NEW t \in OneTab, NEW c \in Chat, NEW w \in Worker,
         Follow!Push(c, w)
  PROVE  PaneOK(t)'
<1> DEFINE s == selected[t]
           d == shown[t]
<1>1. /\ pushTimers' = pushTimers \ {<<c, w>>}
      /\ IF w \in open[c] THEN Follow!Emit(ScriptOf(c, w, live[c][w]))
                          ELSE replies' = replies
      /\ UNCHANGED <<active, known, open, vanished, live, shown, selected, pane, requests>>
  BY DEF Follow!Push, Follow!Transcript, ScriptOf
<1>2. PICK m : m = ScriptOf(c, w, live[c][w])
  OBVIOUS
<1>3. m \in Scripts(c, w) /\ m \in Follow!Answer
  BY <1>2, FollowKinds, TabFacts
<1>4. IF w \in open[c] THEN replies'[t] = Append(replies[t], m) ELSE replies' = replies
  BY <1>1, <1>2, <1>3, EmitProperties DEF FollowIInv
<1>5. replies[t] \in Seq(Follow!Answer) /\ m \notin Snaps /\ m \notin Leaves(d)
  BY <1>3, FollowKinds, TabFacts
<1>6. ScreenFollows(t)'
  <2>1. Shows(replies[t], Snaps, SnapOf(active), shown[t], active)
    BY TabFacts DEF PaneOK, ScreenFollows
  <2>2. Shows(replies'[t], Snaps, SnapOf(active), shown[t], active)
    BY <1>3, <1>4, <1>5, <2>1, ShowsSent
  <2> QED BY <1>1, <2>2 DEF ScreenFollows
<1>7. Aligned(t)' <=> Aligned(t)
  <2>1. NoneIn(replies'[t], Leaves(d)) <=> NoneIn(replies[t], Leaves(d))
    <3>1. NoneIn(Append(replies[t], m), Leaves(d)) <=> NoneIn(replies[t], Leaves(d))
      BY <1>3, <1>5, NoneAppended
    <3>2. replies'[t] = Append(replies[t], m) \/ replies'[t] = replies[t]
      BY <1>4
    <3> QED BY <3>1, <3>2
  <2> QED BY <1>1, <2>1 DEF Aligned
<1>8. PaneIsReported(t)' /\ (PaneFollows(t)' <=> PaneFollows(t))
  BY <1>1, TabFacts DEF PaneOK, PaneIsReported, PaneFollows
<1>9. ASSUME Aligned(t), s \in known[d] \ vanished[d]
      PROVE  PaneFollows(t) /\ PaneIsFresh(t)'
  <2>1. PaneFollows(t) /\ PaneIsFresh(t)
    BY <1>9, TabFacts DEF PaneOK, PaneServed
  <2>2. CASE c = d /\ w = s
    <3>1. CASE s \in open[d]
      <4>1. replies'[t] = Append(replies[t], ScriptOf(d, s, live[d][s]))
            /\ ScriptOf(d, s, live[d][s]) \in Follow!Answer
        BY <1>2, <1>3, <1>4, <2>2, <3>1
      <4>2. Shows(replies'[t], Scripts(d, s), ScriptOf(d, s, live[d][s]), pane[t],
                  live[d][s])
        BY <1>5, <4>1, ShowsSent
      <4> QED BY <1>1, <2>1, <4>2 DEF PaneIsFresh
    <3>2. CASE s \notin open[d]
      BY <1>1, <2>1, <3>2, LastIsThere DEF PaneIsFresh, PaneFollows
    <3> QED BY <3>1, <3>2
  <2>3. CASE c # d \/ w # s
    <3>1. m \notin Scripts(d, s)
      BY <1>3, <2>3, FollowKinds
    <3>2. <<d, s>> \in pushTimers => <<d, s>> \in pushTimers'
      BY <1>1, <2>3
    <3>3. ASSUME Shows(replies[t], Scripts(d, s), ScriptOf(d, s, live[d][s]), pane[t],
                       live[d][s])
          PROVE  Shows(replies'[t], Scripts(d, s), ScriptOf(d, s, live[d][s]), pane[t],
                       live[d][s])
      BY <1>3, <1>4, <1>5, <3>1, <3>3, ShowsSent
    <3> QED BY <1>1, <2>1, <3>2, <3>3 DEF PaneIsFresh
  <2> QED BY <2>1, <2>2, <2>3
<1> QED BY <1>1, <1>6, <1>7, <1>8, <1>9 DEF PaneOK, PaneServed

(* A request to follow, sent last, is the last word.                        *)
LEMMA OpensLast ==
  ASSUME NEW q \in Seq(Follow!Request), NEW w, NEW m \in Opens(w)
  PROVE  LastIn(Append(q, m), Closes(w), Opens(w)) /\ ~NoneIn(Append(q, m), Opens(w))
<1>1. m \in Follow!Request
  BY FollowKinds
<1>2. LastIn(Append(q, m), Closes(w), Opens(w))
  BY <1>1, LastAppended
<1> QED BY <1>2, LastIsThere

LEMMA SelectKeeps ==
  ASSUME FollowIInv, NEW t \in OneTab, NEW w \in Worker \cup {0}, Follow!Select(t, w)
  PROVE  PaneOK(t)'
<1>1. /\ selected'[t] = w
      /\ w # 0 => /\ w \in known[shown[t]]
                  /\ \E q \in Seq(Follow!Request) : \E m \in Opens(w) :
                       requests'[t] = Append(q, m)
  BY SelectProperties DEF FollowIInv
<1>2. UNCHANGED <<active, known, open, vanished, live, pushTimers, shown, replies>>
  BY DEF Follow!Select
<1>3. ScreenFollows(t)' /\ PaneIsReported(t)'
  BY <1>1, <1>2, TabFacts DEF PaneOK, ScreenFollows, PaneIsReported
<1>4. ASSUME w \in known[shown[t]] PROVE PaneFollows(t)' /\ PaneIsFresh(t)'
  <2>1. w # 0
    BY <1>4, OneFollower, TabFacts
  <2>2. LastIn(requests'[t], Closes(w), Opens(w)) /\ ~NoneIn(requests'[t], Opens(w))
    BY <1>1, <2>1, OpensLast
  <2> QED BY <1>1, <2>2 DEF PaneFollows, PaneIsFresh
<1> QED BY <1>1, <1>2, <1>3, <1>4 DEF PaneOK, PaneServed

LEMMA MoveKeeps ==
  ASSUME FollowIInv, NEW t \in OneTab, NEW c \in Chat, Follow!SwitchConversation(t, c)
  PROVE  PaneOK(t)'
<1>1. PICK m : m = [type |-> "switch_conversation", worker |-> 0, chat |-> c]
  OBVIOUS
<1>2. /\ requests' = [requests EXCEPT ![t] = Append(@, m)] /\ c # shown[t]
      /\ UNCHANGED <<active, known, open, vanished, live, pushTimers, shown, selected,
                     pane, replies>>
  BY <1>1 DEF Follow!SwitchConversation, Follow!NoWorker
<1>3. m \in Follow!Request /\ m \in Moves(shown[t])
  BY <1>1, <1>2 DEF Follow!Request, Moves, Follow!NoWorker
<1>4. requests[t] \in Seq(Follow!Request) /\ requests'[t] = Append(requests[t], m)
  BY <1>2 DEF FollowIInv, Follow!WorkerTypeOK
<1>5. ~NoneIn(requests'[t], Moves(shown[t]))
  BY <1>3, <1>4, NoneAppended
<1>6. ScreenFollows(t)' /\ PaneIsReported(t)'
  BY <1>2, TabFacts DEF PaneOK, ScreenFollows, PaneIsReported
<1> QED BY <1>2, <1>5, <1>6 DEF PaneOK, PaneServed, Aligned

LEMMA VanishKeeps ==
  ASSUME FollowIInv, NEW t \in OneTab, Follow!Vanish(t)
  PROVE  PaneOK(t)'
<1>1. /\ selected' = [selected EXCEPT ![t] = 0]
      /\ UNCHANGED <<active, known, vanished, shown, replies>>
  BY DEF Follow!Vanish, Follow!NoWorker
<1>2. selected'[t] = 0
  BY <1>1 DEF FollowIInv, Follow!WorkerTypeOK
<1>3. ScreenFollows(t)' /\ PaneIsReported(t)'
  BY <1>1, <1>2, TabFacts DEF PaneOK, ScreenFollows, PaneIsReported
<1>4. selected'[t] \notin known'[shown'[t]]
  BY <1>1, <1>2, OneFollower, TabFacts
<1> QED BY <1>3, <1>4 DEF PaneOK, PaneServed

LEMMA ReceiveKeeps ==
  ASSUME FollowIInv, NEW t \in OneTab, Follow!Receive(t)
  PROVE  PaneOK(t)'
<1> DEFINE h == Head(replies[t])
           s == selected[t]
           d == shown[t]
<1>1. /\ replies[t] \in Seq(Follow!Answer) /\ replies[t] # <<>>
      /\ h \in Follow!Answer /\ replies'[t] = Tail(replies[t])
      /\ UNCHANGED <<active, known, open, vanished, live, pushTimers>>
      /\ shown'[t] \in Chat /\ selected'[t] \in Worker \cup {0}
  BY FollowReceiveProperties DEF FollowIInv
<1>2. Shows(replies[t], Snaps, SnapOf(active), d, active) /\ active \in Chat /\ d \in Chat
  BY TabFacts DEF PaneOK, ScreenFollows
<1>3. CASE /\ h \in Leaves(d) /\ shown'[t] = h.chat
           /\ selected'[t] # 0 =>
                /\ selected'[t] \in known[shown'[t]]
                /\ \E q \in Seq(Follow!Request) : \E m \in Opens(selected'[t]) :
                     requests'[t] = Append(q, m)
  <2>1. h \in Snaps /\ (h = SnapOf(active) => shown'[t] = active)
    BY <1>3, FollowKinds DEF SnapOf
  <2>2. Shows(Tail(replies[t]), Snaps, SnapOf(active), shown'[t], active)
    BY <1>1, <1>2, <2>1, ShowsRead
  <2>3. ScreenFollows(t)' /\ PaneIsReported(t)'
    BY <1>1, <1>3, <2>2 DEF ScreenFollows, PaneIsReported
  <2>4. ASSUME selected'[t] \in known[shown'[t]] PROVE PaneFollows(t)' /\ PaneIsFresh(t)'
    <3>1. selected'[t] # 0
      BY <1>1, <2>4, OneFollower, TabFacts
    <3>2. /\ LastIn(requests'[t], Closes(selected'[t]), Opens(selected'[t]))
          /\ ~NoneIn(requests'[t], Opens(selected'[t]))
      BY <1>3, <3>1, OpensLast
    <3> QED BY <3>2 DEF PaneFollows, PaneIsFresh
  <2> QED BY <1>1, <2>3, <2>4 DEF PaneOK, PaneServed
<1>4. CASE /\ h \notin Leaves(d) /\ UNCHANGED <<shown, selected, requests>>
           /\ pane'[t] = IF h \in Scripts(d, s) THEN h.events ELSE pane[t]
  <2>1. h = SnapOf(active) => d = active
    BY <1>2, <1>4, FollowKinds
  <2>2. Shows(Tail(replies[t]), Snaps, SnapOf(active), d, active)
    BY <1>1, <1>2, <2>1, ShowsRead
  <2>3. ScreenFollows(t)' /\ PaneIsReported(t)'
    BY <1>1, <1>4, <2>2, TabFacts DEF ScreenFollows, PaneIsReported, PaneOK
  <2>4. NoneIn(replies'[t], Leaves(d)) <=> NoneIn(replies[t], Leaves(d))
    BY <1>1, <1>4, NoneRead
  <2>5. Aligned(t)' <=> Aligned(t)
    BY <1>4, <2>4 DEF Aligned
  <2>6. ASSUME Aligned(t), s \in known[d] \ vanished[d]
        PROVE  PaneFollows(t)' /\ PaneIsFresh(t)'
    <3>1. PaneFollows(t) /\ PaneIsFresh(t)
      BY <2>6, TabFacts DEF PaneOK, PaneServed
    <3>2. PaneFollows(t)'
      BY <1>1, <1>4, <3>1 DEF PaneFollows
    <3>3. PICK x : x = live[d][s]
      OBVIOUS
    <3>4. x \in 0..MaxEvents /\ s \in Worker
      BY <2>6, <3>3, TabFacts
    <3>5. ScriptOf(d, s, x) \in Scripts(d, s) /\ ScriptOf(d, s, x).events = x
      BY <1>2, <3>4, FollowKinds DEF ScriptOf
    <3>6. ASSUME Shows(replies[t], Scripts(d, s), ScriptOf(d, s, x), pane[t], x)
          PROVE  Shows(Tail(replies[t]), Scripts(d, s), ScriptOf(d, s, x), pane'[t], x)
      <4>1. h = ScriptOf(d, s, x) => pane'[t] = x
        BY <1>4, <3>5
      <4>2. h \notin Scripts(d, s) => pane'[t] = pane[t]
        BY <1>4
      <4> QED BY <1>1, <3>6, <4>1, <4>2, ShowsRead
    <3>7. PaneIsFresh(t)'
      BY <1>1, <1>4, <3>1, <3>3, <3>6 DEF PaneIsFresh
    <3> QED BY <3>2, <3>7
  <2> QED BY <1>1, <1>4, <2>3, <2>5, <2>6 DEF PaneOK, PaneServed
<1> QED BY <1>3, <1>4, FollowReceiveProperties DEF FollowIInv

(* Serving a request that leads elsewhere leaves a snapshot that does; any  *)
(* other means the chat on the screen, for that one is active.              *)
LEMMA ServeKeeps ==
  ASSUME FollowIInv, NEW t \in OneTab, Follow!Serve(t)
  PROVE  PaneOK(t)'
<1> DEFINE h == Head(requests[t])
           s == selected[t]
           d == shown[t]
           q == requests[t]
           r == replies[t]
<1>1. /\ q \in Seq(Follow!Request) /\ q # <<>> /\ requests'[t] = Tail(q)
      /\ UNCHANGED <<known, vanished, live, pushTimers, shown, selected, pane>>
  BY ServeProperties DEF FollowIInv
<1>2. /\ Shows(r, Snaps, SnapOf(active), d, active) /\ r \in Seq(Follow!Answer)
      /\ d \in Chat /\ active \in Chat
  BY TabFacts DEF PaneOK, ScreenFollows
<1>3. PaneIsReported(t)'
  BY <1>1, TabFacts DEF PaneOK, PaneIsReported
<1>4. ASSUME Aligned(t), s \in known[d] \ vanished[d]
      PROVE  PaneFollows(t) /\ PaneIsFresh(t) /\ active = d /\ s \in Worker
             /\ live[d][s] \in 0..MaxEvents
  BY <1>4, TabFacts, AlignedIsActive DEF PaneOK, PaneServed
<1>5. ASSUME h \notin Moves(d), NoneIn(replies'[t], Leaves(d)) => NoneIn(r, Leaves(d)),
             Aligned(t)'
      PROVE  Aligned(t)
  <2>1. NoneIn(q, Moves(d)) <=> NoneIn(Tail(q), Moves(d))
    BY <1>1, <1>5, NoneRead
  <2> QED BY <1>1, <1>5, <2>1 DEF Aligned
<1>6. ASSUME NEW w \in Worker, h \in Opens(w), active' = active,
             \/ /\ w \in known[active]
                /\ open' = [open EXCEPT ![active] = @ \cup {w}]
                /\ Follow!Emit(ScriptOf(active, w, live[active][w]))
             \/ /\ w \notin known[active] /\ UNCHANGED <<open, replies>>
      PROVE  PaneOK(t)'
  <2>1. PICK n : n = ScriptOf(active, w, live[active][w])
    OBVIOUS
  <2>2. n \in Scripts(active, w) /\ n \in Follow!Answer
    BY <1>2, <2>1, FollowKinds, TabFacts
  <2>3. n \notin Snaps /\ n \notin Leaves(d) /\ h \notin Moves(d)
    BY <1>6, <2>2, FollowKinds
  <2>4. w \in known[active] => replies'[t] = Append(r, n)
    BY <1>6, <2>1, <2>2, EmitProperties DEF FollowIInv
  <2>5. replies'[t] = Append(r, n) \/ replies'[t] = r
    BY <1>6, <2>4
  <2>6. Shows(replies'[t], Snaps, SnapOf(active), d, active)
    <3>1. Shows(Append(r, n), Snaps, SnapOf(active), d, active)
      BY <1>2, <2>2, <2>3, ShowsSent
    <3> QED BY <1>2, <2>5, <3>1
  <2>7. ScreenFollows(t)'
    BY <1>1, <1>6, <2>6 DEF ScreenFollows
  <2>8. NoneIn(replies'[t], Leaves(d)) => NoneIn(r, Leaves(d))
    <3>1. NoneIn(Append(r, n), Leaves(d)) => NoneIn(r, Leaves(d))
      BY <1>2, <2>2, NoneAppended
    <3> QED BY <2>5, <3>1
  <2>9. Aligned(t)' => Aligned(t)
    BY <1>5, <2>3, <2>8
  <2>10. ASSUME Aligned(t), s \in known[d] \ vanished[d]
         PROVE  PaneFollows(t)' /\ PaneIsFresh(t)'
    <3>1. PaneFollows(t) /\ PaneIsFresh(t) /\ active = d /\ s \in Worker
          /\ live[d][s] \in 0..MaxEvents
      BY <1>4, <2>10
    <3>2. open[d] \subseteq open'[d] /\ (w = s => s \in open'[d])
      BY <1>2, <1>6, <2>10, <3>1, TabFacts
    <3>3. h \notin Closes(s) /\ (h \in Opens(s) => w = s)
      BY <1>6, FollowKinds
    <3>4. LastIn(q, Closes(s), Opens(s)) =>
            LastIn(Tail(q), Closes(s), Opens(s)) \/ (w = s /\ NoneIn(Tail(q), Closes(s)))
      BY <1>1, <3>3, LastRead
    <3>5. NoneIn(q, Closes(s)) => NoneIn(Tail(q), Closes(s))
      BY <1>1, NoneRead
    <3>6. PaneFollows(t)'
      BY <1>1, <3>1, <3>2, <3>4, <3>5 DEF PaneFollows
    <3>7. CASE w = s
      <4>1. replies'[t] = Append(r, ScriptOf(d, s, live[d][s]))
            /\ ScriptOf(d, s, live[d][s]) \in Follow!Answer
        BY <2>1, <2>2, <2>4, <2>10, <3>1, <3>7
      <4>2. Shows(replies'[t], Scripts(d, s), ScriptOf(d, s, live[d][s]), pane[t],
                  live[d][s])
        BY <1>2, <4>1, ShowsSent
      <4>3. PaneIsFresh(t)'
        BY <1>1, <4>2 DEF PaneIsFresh
      <4> QED BY <3>6, <4>3
    <3>8. CASE w # s
      <4>1. n \notin Scripts(d, s)
        BY <2>2, <3>8, FollowKinds
      <4>2. NoneIn(Tail(q), Opens(s)) => NoneIn(q, Opens(s))
        BY <1>1, <3>3, <3>8, NoneRead
      <4>3. ASSUME Shows(r, Scripts(d, s), ScriptOf(d, s, live[d][s]), pane[t], live[d][s])
            PROVE  Shows(replies'[t], Scripts(d, s), ScriptOf(d, s, live[d][s]), pane[t],
                         live[d][s])
        BY <1>2, <2>2, <2>5, <4>1, <4>3, ShowsSent
      <4>4. PaneIsFresh(t)'
        BY <1>1, <3>1, <4>2, <4>3 DEF PaneIsFresh
      <4> QED BY <3>6, <4>4
    <3> QED BY <3>7, <3>8
  <2> QED BY <1>1, <1>3, <2>7, <2>9, <2>10 DEF PaneOK, PaneServed
<1>7. ASSUME NEW w \in Worker, h \in Closes(w),
             open' = [open EXCEPT ![active] = @ \ {w}], UNCHANGED <<active, replies>>
      PROVE  PaneOK(t)'
  <2>1. ScreenFollows(t)'
    BY <1>1, <1>2, <1>7 DEF ScreenFollows
  <2>2. h \notin Moves(d) /\ h \notin Opens(s) /\ (h \in Closes(s) <=> w = s)
    BY <1>7, FollowKinds
  <2>3. Aligned(t)' => Aligned(t)
    BY <1>5, <1>7, <2>2
  <2>4. ASSUME Aligned(t), s \in known[d] \ vanished[d]
        PROVE  PaneFollows(t)' /\ PaneIsFresh(t)'
    <3>1. PaneFollows(t) /\ PaneIsFresh(t) /\ active = d
      BY <1>4, <2>4
    <3>2. LastIn(q, Closes(s), Opens(s)) => LastIn(Tail(q), Closes(s), Opens(s))
      BY <1>1, <2>2, LastRead
    <3>3. NoneIn(q, Closes(s)) => NoneIn(Tail(q), Closes(s)) /\ w # s
      BY <1>1, <2>2, NoneRead
    <3>4. w # s /\ s \in open[d] => s \in open'[d]
      BY <1>2, <1>7, TabFacts
    <3>5. PaneFollows(t)'
      BY <1>1, <3>1, <3>2, <3>3, <3>4 DEF PaneFollows
    <3>6. NoneIn(Tail(q), Opens(s)) => NoneIn(q, Opens(s))
      BY <1>1, <2>2, NoneRead
    <3>7. PaneIsFresh(t)'
      BY <1>1, <1>7, <3>1, <3>6 DEF PaneIsFresh
    <3> QED BY <3>5, <3>7
  <2> QED BY <1>1, <1>3, <2>1, <2>3, <2>4 DEF PaneOK, PaneServed
<1>8. ASSUME NEW c \in Chat, h \in Follow!Request, h.type = "switch_conversation",
             h.chat = c, active' = c, Follow!Emit(SnapOf(c)), open' = open
      PROVE  PaneOK(t)'
  <2>1. SnapOf(c) \in Follow!Answer /\ SnapOf(c) \in Snaps
    BY FollowKinds
  <2>2. replies'[t] = Append(r, SnapOf(c))
    BY <1>8, <2>1, EmitProperties DEF FollowIInv
  <2>3. ScreenFollows(t)'
    <3>1. Shows(Append(r, SnapOf(c)), Snaps, SnapOf(c), d, c)
      BY <1>2, <2>1, ShowsSent
    <3> QED BY <1>1, <1>8, <2>2, <3>1 DEF ScreenFollows
  <2>4. NoneIn(replies'[t], Leaves(d)) => NoneIn(r, Leaves(d)) /\ SnapOf(c) \notin Leaves(d)
    BY <1>2, <2>1, <2>2, NoneAppended
  <2>5. SnapOf(c) \notin Leaves(d) => c = d
    BY FollowKinds
  <2>6. c = d => h \notin Moves(d)
    BY <1>8 DEF Moves
  <2>7. Aligned(t)' => NoneIn(replies'[t], Leaves(d))
    BY <1>1 DEF Aligned
  <2>8. Aligned(t)' => Aligned(t)
    BY <1>5, <2>4, <2>5, <2>6, <2>7
  <2>9. ASSUME Aligned(t), s \in known[d] \ vanished[d]
        PROVE  PaneFollows(t)' /\ PaneIsFresh(t)'
    <3>1. PaneFollows(t) /\ PaneIsFresh(t)
      BY <1>4, <2>9
    <3>2. h \notin Opens(s) /\ h \notin Closes(s)
      BY <1>8 DEF Opens, Closes
    <3>3. LastIn(q, Closes(s), Opens(s)) => LastIn(Tail(q), Closes(s), Opens(s))
      BY <1>1, <3>2, LastRead
    <3>4. /\ NoneIn(q, Closes(s)) => NoneIn(Tail(q), Closes(s))
          /\ NoneIn(Tail(q), Opens(s)) => NoneIn(q, Opens(s))
      BY <1>1, <3>2, NoneRead
    <3>5. PaneFollows(t)'
      BY <1>1, <1>8, <3>1, <3>3, <3>4 DEF PaneFollows
    <3>6. SnapOf(c) \notin Scripts(d, s)
      BY <2>1, FollowKinds
    <3>7. ASSUME Shows(r, Scripts(d, s), ScriptOf(d, s, live[d][s]), pane[t], live[d][s])
          PROVE  Shows(replies'[t], Scripts(d, s), ScriptOf(d, s, live[d][s]), pane[t],
                       live[d][s])
      BY <1>2, <2>1, <2>2, <3>6, <3>7, ShowsSent
    <3>8. PaneIsFresh(t)'
      BY <1>1, <3>1, <3>4, <3>7 DEF PaneIsFresh
    <3> QED BY <3>5, <3>8
  <2> QED BY <1>1, <1>3, <2>3, <2>8, <2>9 DEF PaneOK, PaneServed
<1> QED BY <1>6, <1>7, <1>8, ServeProperties DEF FollowIInv

LEMMA FollowStep == FollowIInv /\ [Follow!WorkerNext]_workerVars => FollowIInv'
<1> SUFFICES ASSUME FollowIInv, [Follow!WorkerNext]_workerVars PROVE FollowIInv'
  OBVIOUS
<1>1. Follow!WorkerTypeOK' /\ Follow!FollowedAreKnown'
  BY FollowTypes DEF FollowIInv
<1>2. ASSUME NEW t \in OneTab PROVE PaneOK(t)'
  <2>1. \A u \in OneTab : u = t
    BY TabFacts
  <2>2. ASSUME NEW c \in Chat, NEW ws \in SUBSET Worker, Follow!WorkersEvent(c, ws)
        PROVE  PaneOK(t)'
    BY <2>2, ReportKeeps
  <2>3. ASSUME NEW c \in Chat, NEW w \in Worker,
               Follow!TranscriptEvent(c, w) \/ Follow!Push(c, w)
        PROVE  PaneOK(t)'
    BY <2>3, TranscriptKeeps, PushKeeps
  <2>4. ASSUME NEW u \in OneTab, Follow!Serve(u) \/ Follow!Receive(u) \/ Follow!Vanish(u)
        PROVE  PaneOK(t)'
    <3>1. u = t
      BY <2>1
    <3>2. Follow!Serve(t) \/ Follow!Receive(t) \/ Follow!Vanish(t)
      BY <2>4, <3>1
    <3> QED BY <3>2, ServeKeeps, ReceiveKeeps, VanishKeeps
  <2>5. ASSUME NEW u \in OneTab, NEW w \in Worker \cup {0}, Follow!Select(u, w)
        PROVE  PaneOK(t)'
    <3>1. Follow!Select(t, w)
      BY <2>1, <2>5
    <3> QED BY <3>1, SelectKeeps
  <2>6. ASSUME NEW u \in OneTab, NEW c \in Chat, Follow!SwitchConversation(u, c)
        PROVE  PaneOK(t)'
    <3>1. Follow!SwitchConversation(t, c)
      BY <2>1, <2>6
    <3> QED BY <3>1, MoveKeeps
  <2>7. CASE UNCHANGED workerVars
    BY <2>7, TabFacts DEF workerVars, PaneOK, ScreenFollows, PaneIsReported, PaneServed,
       Aligned, PaneFollows, PaneIsFresh
  <2> QED BY <2>2, <2>3, <2>4, <2>5, <2>6, <2>7 DEF Follow!WorkerNext, Follow!NoWorker
<1> QED BY <1>1, <1>2 DEF FollowIInv, PaneOK

(* What the invariant says of a tab when nothing is under way.              *)
LEMMA FollowHolds ==
  FollowIInv => /\ Follow!WorkerTypeOK /\ Follow!FollowerUpToDate
                /\ Follow!FollowedAreKnown
<1> SUFFICES ASSUME FollowIInv PROVE Follow!FollowerUpToDate
  BY DEF FollowIInv
<1>1. ASSUME NEW t \in OneTab, Follow!Still(t),
             selected[t] \in known[active] \ vanished[active]
      PROVE  pane[t] = live[active][selected[t]]
  <2>1. /\ requests[t] = <<>> /\ replies[t] = <<>> /\ pushTimers = {}
        /\ shown[t] = active
    BY <1>1 DEF Follow!Still
  <2>2. Aligned(t)
    BY <2>1, NoneOnTheWay DEF Aligned
  <2>3. PaneIsFresh(t)
    BY <1>1, <2>1, <2>2, TabFacts DEF PaneOK, PaneServed
  <2> QED BY <2>1, <2>3, NoneOnTheWay DEF PaneIsFresh, Shows
<1> QED BY <1>1 DEF Follow!FollowerUpToDate

-----------------------------------------------------------------------------
(* ExtensionUI                                                              *)

(* What the page can be told, and by which messages.                        *)
UIText == {"text", "nothing"}
UILines == {"plain", "nothing"}
FooterMsgs == [type : {"statuses"}, text : UIText]
WidgetMsgs == [type : {"widgets"}, text : UILines]
DialogMsgs(ids) == [type : {"dialog", "dialog_closed"}, id : ids]
UIMessage == FooterMsgs \cup WidgetMsgs \cup DialogMsgs(1..MaxDialogs)

FooterTo(v) == [type |-> "statuses", text |-> v]
WidgetTo(v) == [type |-> "widgets", text |-> v]
DialogTo(n) == [type |-> "dialog", id |-> n]

(* No message is about a dialog that was not opened.                        *)
UIWireTyped(w, seq) ==
  w \in Seq(UIMessage) /\ NoneIn(w, DialogMsgs((seq + 1)..MaxDialogs))

UIFlags == widgetOn \in BOOLEAN

UITyped ==
  /\ dialogsActive \in Chat
  /\ footers \in [Chat -> UIText]
  /\ drawing \in {"plain", "red"}
  /\ dialogsOnline \in {"first", "down", "again"}
  /\ page \in [footer : UIText, widget : UILines, dialog : 0..dialogSeq]
  /\ dialogSeq \in 0..MaxDialogs
  /\ dialogsPending \subseteq [id : 1..dialogSeq, chat : Chat]
  /\ UIWireTyped(wire, dialogSeq)
  /\ lastLines \in UILines

(* The last footer on its way, or the one the page shows, is the active     *)
(* chat's; the last lines are the ones the poll compares with.              *)
FooterFollows ==
  Shows(wire, FooterMsgs, FooterTo(footers[dialogsActive]), page.footer,
        footers[dialogsActive])
WidgetFollows == Shows(wire, WidgetMsgs, WidgetTo(lastLines), page.widget, lastLines)

(* One dialog waits at a time, and until the socket is lost the last message *)
(* about dialogs, or the page, has it.                                      *)
DialogFollows ==
  \A d \in dialogsPending :
    Shows(wire, DialogMsgs(1..MaxDialogs), DialogTo(d.id), page.dialog, d.id)

UIIInv ==
  /\ UITyped
  /\ dialogsOnline # "down" => FooterFollows
  /\ dialogsOnline # "down" => (widgetOn => WidgetFollows)
  /\ \A d, e \in dialogsPending : d = e
  /\ dialogsOnline = "first" => DialogFollows

LEMMA UIInitially == Dialogs!UIInit => UIFlags /\ UIIInv
<1> SUFFICES ASSUME Dialogs!UIInit PROVE UIFlags /\ UIIInv
  OBVIOUS
<1> USE RunsBounds DEF Dialogs!UIInit, Dialogs!Nothing, Dialogs!NoDialog
<1>1. UIFlags /\ ~widgetOn /\ dialogsPending = {}
  BY DEF UIFlags
<1>2. UITyped
  BY NoneOnTheWay DEF UITyped, UIText, UILines, UIWireTyped
<1>3. FooterFollows
  BY NoneOnTheWay DEF FooterFollows, Shows
<1> QED BY <1>1, <1>2, <1>3 DEF UIIInv, DialogFollows

(* What is sent is on its way when somebody listens.                        *)
LEMMA UISends ==
  ASSUME UITyped, NEW m \in UIMessage, NEW n \in UIMessage
  PROVE  /\ Dialogs!Send(<<>>) => wire' = wire
         /\ Dialogs!Send(<<m>>) =>
              wire' = IF dialogsOnline # "down" THEN Append(wire, m) ELSE wire
         /\ Dialogs!Send(<<>> \o <<m>>) =>
              wire' = IF dialogsOnline # "down" THEN Append(wire, m) ELSE wire
         /\ Dialogs!Send(<<m>> \o <<n>>) =>
              wire' = IF dialogsOnline # "down" THEN Append(Append(wire, m), n) ELSE wire
<1>1. wire \in Seq(UIMessage)
  BY DEF UITyped, UIWireTyped
<1>2. /\ <<m>> \in Seq(UIMessage) /\ <<n>> \in Seq(UIMessage)
      /\ Append(wire, m) \in Seq(UIMessage)
  BY <1>1
<1>3. wire \o <<>> = wire /\ wire \o <<m>> = Append(wire, m) /\ <<>> \o <<m>> = <<m>>
  BY <1>1, <1>2, ConcatAppends, ConcatEmptySeq
<1>4. wire \o (<<m>> \o <<n>>) = Append(Append(wire, m), n)
  BY <1>1, <1>2, <1>3, ConcatAppends, ConcatAssociative
<1> QED BY <1>3, <1>4 DEF Dialogs!Send, Dialogs!Up

(* A message more, and perhaps a dialog more.                               *)
LEMMA UIWireGrows ==
  ASSUME NEW w, NEW seq \in 0..MaxDialogs, UIWireTyped(w, seq), NEW m \in UIMessage,
         NEW more \in {seq, seq + 1}, m \notin DialogMsgs((more + 1)..MaxDialogs)
  PROVE  UIWireTyped(Append(w, m), more)
<1> USE RunsBounds
<1>1. w \in Seq(UIMessage) /\ NoneIn(w, DialogMsgs((seq + 1)..MaxDialogs))
  BY DEF UIWireTyped
<1>2. DialogMsgs((more + 1)..MaxDialogs) \subseteq DialogMsgs((seq + 1)..MaxDialogs)
  <2>1. (more + 1)..MaxDialogs \subseteq (seq + 1)..MaxDialogs
    OBVIOUS
  <2> QED BY <2>1 DEF DialogMsgs
<1>3. NoneIn(w, DialogMsgs((more + 1)..MaxDialogs))
  BY <1>1, <1>2 DEF NoneIn
<1>4. Append(w, m) \in Seq(UIMessage)
  BY <1>1, AppendProperties
<1> QED BY <1>1, <1>3, <1>4, LastAppended DEF UIWireTyped

(* The messages are of three kinds.                                         *)
LEMMA UIKinds ==
  /\ \A v \in UIText : FooterTo(v) \in FooterMsgs
  /\ \A v \in UILines : WidgetTo(v) \in WidgetMsgs
  /\ \A ids, n : n \in ids => DialogTo(n) \in DialogMsgs(ids)
  /\ \A ids, m : m \in DialogMsgs(ids) => m \notin FooterMsgs /\ m \notin WidgetMsgs
  /\ \A m \in FooterMsgs : m \notin WidgetMsgs /\ \A ids : m \notin DialogMsgs(ids)
  /\ \A m \in WidgetMsgs : \A ids : m \notin DialogMsgs(ids)
<1>1. \A m \in FooterMsgs : m.type = "statuses"
  BY DEF FooterMsgs
<1>2. \A m \in WidgetMsgs : m.type = "widgets"
  BY DEF WidgetMsgs
<1>3. \A ids : \A m \in DialogMsgs(ids) : m.type \in {"dialog", "dialog_closed"}
  BY DEF DialogMsgs
<1>4. /\ \A v \in UIText : FooterTo(v) \in FooterMsgs
      /\ \A v \in UILines : WidgetTo(v) \in WidgetMsgs
  BY DEF FooterTo, WidgetTo, FooterMsgs, WidgetMsgs
<1>5. \A ids, n : n \in ids => DialogTo(n) \in DialogMsgs(ids)
  BY DEF DialogTo, DialogMsgs
<1> QED BY <1>1, <1>2, <1>3, <1>4, <1>5

(* What each action sends, and what it makes of the footers and the lines.  *)
Listened == dialogsOnline # "down"
UISent(m) == wire' = IF Listened THEN Append(wire, m) ELSE wire

LEMMA FooterProperties ==
  ASSUME UITyped, NEW c \in Chat,
         Dialogs!SetConvStatus(c) \/ (Dialogs!BindSession /\ c = dialogsActive)
  PROVE  /\ footers' \in [Chat -> UIText]
         /\ c # dialogsActive => footers'[dialogsActive] = footers[dialogsActive]
                                 /\ wire' = wire
         /\ c = dialogsActive => UISent(FooterTo(footers'[dialogsActive]))
         /\ UNCHANGED <<dialogsActive, drawing, widgetOn, lastLines, dialogsPending,
                        dialogSeq, dialogsOnline, page>>
<1>1. PICK v \in UIText : footers' = [footers EXCEPT ![c] = v]
  BY DEF Dialogs!SetConvStatus, Dialogs!BindSession, Dialogs!Nothing, UIText
<1>2. /\ footers' \in [Chat -> UIText]
      /\ c # dialogsActive => footers'[dialogsActive] = footers[dialogsActive]
  BY <1>1 DEF UITyped
<1>3. UNCHANGED <<dialogsActive, drawing, widgetOn, lastLines, dialogsPending, dialogSeq,
                  dialogsOnline, page>>
  BY DEF Dialogs!SetConvStatus, Dialogs!BindSession
<1>4. Dialogs!Send(IF c = dialogsActive THEN <<FooterTo(footers'[c])>> ELSE << >>)
  BY DEF Dialogs!SetConvStatus, Dialogs!BindSession, Dialogs!EmittedBy,
         Dialogs!FooterMsg, FooterTo
<1>5. PICK x : x = footers'[c]
  OBVIOUS
<1>6. FooterTo(x) \in UIMessage
  BY <1>2, <1>5, UIKinds DEF UIMessage
<1>7. CASE c = dialogsActive
  <2>1. Dialogs!Send(<<FooterTo(x)>>)
    BY <1>4, <1>5, <1>7
  <2>2. UISent(FooterTo(x))
    BY <1>6, <2>1, UISends DEF UISent, Listened
  <2> QED BY <1>2, <1>3, <1>5, <1>7, <2>2
<1>8. CASE c # dialogsActive
  BY <1>2, <1>3, <1>4, <1>6, <1>8, UISends
<1> QED BY <1>7, <1>8

LEMMA WidgetProperties ==
  ASSUME UITyped, Dialogs!SetWidget \/ Dialogs!Refresh
  PROVE  /\ lastLines' \in UILines
         /\ UISent(WidgetTo(lastLines'))
         /\ UNCHANGED <<dialogsActive, footers, drawing, dialogsPending,
                        dialogSeq, dialogsOnline, page>>
<1>1. PICK on \in BOOLEAN : Dialogs!Push(on, drawing)
  BY DEF Dialogs!SetWidget, Dialogs!Refresh
<1>2. UNCHANGED <<dialogsActive, footers, drawing, dialogsPending, dialogSeq,
                  dialogsOnline, page>>
  BY DEF Dialogs!SetWidget, Dialogs!Refresh
<1>3. PICK x \in UILines : x = IF on THEN Strip(drawing) ELSE Dialogs!Nothing
  BY DEF UITyped, UILines, Strip, Dialogs!Nothing
<1>4. lastLines' = x /\ Dialogs!Send(<<WidgetTo(x)>>)
  BY <1>1, <1>3 DEF Dialogs!Push, Dialogs!WidgetMsg, WidgetTo
<1>5. UISent(WidgetTo(x))
  BY <1>4, UISends, UIKinds DEF UIMessage, UISent, Listened
<1> QED BY <1>2, <1>3, <1>4, <1>5

(* A switch may push the widget, and replays the footer; so does a page     *)
(* that comes back, over a new socket.                                      *)
LEMMA SwitchProperties ==
  ASSUME UITyped, UIFlags, NEW c \in Chat, Dialogs!SwitchConversation(c)
  PROVE  /\ dialogsActive' = c /\ lastLines' \in UILines
         /\ UNCHANGED <<footers, drawing, widgetOn, dialogsPending, dialogSeq,
                        dialogsOnline, page>>
         /\ \/ lastLines' = lastLines /\ UISent(FooterTo(footers[c]))
            \/ wire' = IF Listened THEN Append(Append(wire, WidgetTo(lastLines')),
                                               FooterTo(footers[c])) ELSE wire
<1>1. dialogsActive' = c /\ UNCHANGED <<footers, drawing, widgetOn, dialogsPending,
                                        dialogSeq, dialogsOnline, page>>
  BY DEF Dialogs!SwitchConversation
<1>2. footers[c] \in UIText /\ FooterTo(footers[c]) \in UIMessage
  BY UIKinds DEF UITyped, UIMessage
<1>3. PICK x \in UILines : x = Strip(drawing)
  BY DEF UITyped, UILines, Strip
<1>4. WidgetTo(x) \in UIMessage
  BY <1>3, UIKinds DEF UIMessage
<1>5. Dialogs!FooterMsg(c) = FooterTo(footers[c])
  BY <1>1 DEF Dialogs!FooterMsg, FooterTo
<1>6. Dialogs!WidgetMsg(TRUE, drawing) = WidgetTo(x)
  BY <1>3 DEF Dialogs!WidgetMsg, WidgetTo
<1>7. CASE Dialogs!Changed
  <2>1. lastLines' = x /\ Dialogs!Send(<<WidgetTo(x)>> \o <<FooterTo(footers[c])>>)
    BY <1>3, <1>5, <1>6, <1>7 DEF Dialogs!SwitchConversation
  <2> QED BY <1>1, <1>2, <1>3, <1>4, <2>1, UISends DEF Listened
<1>8. CASE ~Dialogs!Changed
  <2>1. lastLines' = lastLines /\ Dialogs!Send(<<>> \o <<FooterTo(footers[c])>>)
    BY <1>5, <1>8 DEF Dialogs!SwitchConversation
  <2> QED BY <1>1, <1>2, <2>1, UISends DEF Listened, UISent, UITyped
<1> QED BY <1>7, <1>8

LEMMA AttachProperties ==
  ASSUME UITyped, UIFlags, Dialogs!AttachSink
  PROVE  /\ dialogsOnline' = "again" /\ lastLines' \in UILines
         /\ UNCHANGED <<dialogsActive, footers, drawing, widgetOn, dialogsPending,
                        dialogSeq, page>>
         /\ \/ ~widgetOn /\ wire' = Append(<<>>, FooterTo(footers[dialogsActive]))
            \/ wire' = Append(Append(<<>>, WidgetTo(lastLines')),
                              FooterTo(footers[dialogsActive]))
<1>1. /\ dialogsOnline' = "again"
      /\ UNCHANGED <<dialogsActive, footers, drawing, widgetOn, dialogsPending,
                     dialogSeq, page>>
  BY DEF Dialogs!AttachSink
<1>2. FooterTo(footers[dialogsActive]) \in UIMessage
  BY UIKinds DEF UITyped, UIMessage
<1>3. PICK x \in UILines : x = Strip(drawing)
  BY DEF UITyped, UILines, Strip
<1>4. WidgetTo(x) \in UIMessage
  BY <1>3, UIKinds DEF UIMessage
<1>5. Dialogs!FooterMsg(dialogsActive) = FooterTo(footers[dialogsActive])
  BY <1>1 DEF Dialogs!FooterMsg, FooterTo
<1>6. Dialogs!WidgetMsg(TRUE, drawing) = WidgetTo(x)
  BY <1>3 DEF Dialogs!WidgetMsg, WidgetTo
<1>7. CASE widgetOn
  <2>1. lastLines' = x /\ wire' = <<WidgetTo(x)>> \o <<FooterTo(footers[dialogsActive])>>
    BY <1>3, <1>5, <1>6, <1>7 DEF Dialogs!AttachSink, Dialogs!Replayed
  <2>2. /\ <<WidgetTo(x)>> \in Seq(UIMessage)
        /\ Append(<<>>, WidgetTo(x)) = <<WidgetTo(x)>>
    BY <1>4
  <2>3. wire' = Append(<<WidgetTo(x)>>, FooterTo(footers[dialogsActive]))
    BY <1>2, <2>1, <2>2, ConcatAppends
  <2> QED BY <1>1, <1>3, <2>1, <2>2, <2>3
<1>8. CASE ~widgetOn
  <2>1. lastLines' = lastLines /\ wire' = <<>> \o <<FooterTo(footers[dialogsActive])>>
    BY <1>5, <1>8 DEF Dialogs!AttachSink, Dialogs!Replayed
  <2>2. <<>> \in Seq(UIMessage)
    OBVIOUS
  <2>3. wire' = Append(<<>>, FooterTo(footers[dialogsActive]))
    BY <1>2, <2>1, <2>2, ConcatAppends
  <2> QED BY <1>1, <1>8, <2>1, <2>3 DEF UITyped
<1> QED BY <1>7, <1>8 DEF UIFlags

(* A dialog opens when none waits, and the reader ends the one that waits.  *)
LEMMA DialogProperties ==
  ASSUME UITyped, \A d, e \in dialogsPending : d = e
  PROVE  /\ \A c \in Chat : Dialogs!OpenDialog(c) =>
              /\ dialogSeq' = dialogSeq + 1 /\ dialogSeq' \in 1..MaxDialogs
              /\ dialogsPending' = {[id |-> dialogSeq + 1, chat |-> c]}
              /\ UISent(DialogTo(dialogSeq + 1))
              /\ UNCHANGED <<dialogsActive, footers, drawing, widgetOn, lastLines,
                             dialogsOnline, page>>
         /\ Dialogs!ResolveDialog =>
              /\ dialogsPending' = {} /\ dialogSeq' = dialogSeq
              /\ \E m \in DialogMsgs(1..dialogSeq) : UISent(m)
              /\ UNCHANGED <<dialogsActive, footers, drawing, widgetOn, lastLines,
                             dialogsOnline, page>>
<1> USE RunsBounds
<1>1. ASSUME NEW c \in Chat, Dialogs!OpenDialog(c)
      PROVE  /\ dialogSeq' = dialogSeq + 1 /\ dialogSeq' \in 1..MaxDialogs
             /\ dialogsPending' = {[id |-> dialogSeq + 1, chat |-> c]}
             /\ UISent(DialogTo(dialogSeq + 1))
             /\ UNCHANGED <<dialogsActive, footers, drawing, widgetOn, lastLines,
                            dialogsOnline, page>>
  <2>1. /\ dialogSeq < MaxDialogs /\ dialogSeq' = dialogSeq + 1
        /\ UNCHANGED <<dialogsActive, footers, drawing, widgetOn, lastLines,
                       dialogsOnline, page>>
        /\ Dialogs!Send(<<DialogTo(dialogSeq + 1)>>)
    BY <1>1 DEF Dialogs!OpenDialog, DialogTo
  <2>2. dialogSeq' \in 1..MaxDialogs
    BY <2>1 DEF UITyped
  <2>3. DialogTo(dialogSeq + 1) \in UIMessage
    BY <2>1, <2>2, UIKinds DEF UIMessage
  <2>4. dialogsPending = {}
    <3> SUFFICES ASSUME NEW d \in dialogsPending PROVE FALSE
      OBVIOUS
    <3>1. dialogsPending = {d}
      OBVIOUS
    <3>2. Cardinality(dialogsPending) = 1
      BY <3>1, FS_Singleton
    <3>3. Dialogs!Cardinality(dialogsPending) = Cardinality(dialogsPending)
      BY Zenon DEF Dialogs!Cardinality, Cardinality
    <3>4. Dialogs!Cardinality(dialogsPending) < 1
      BY <1>1 DEF Dialogs!OpenDialog
    <3> QED BY <3>2, <3>3, <3>4
  <2>5. dialogsPending' = {[id |-> dialogSeq + 1, chat |-> c]}
    BY <1>1, <2>4 DEF Dialogs!OpenDialog
  <2> QED BY <2>1, <2>2, <2>3, <2>5, UISends DEF UISent, Listened
<1>2. ASSUME Dialogs!ResolveDialog
      PROVE  /\ dialogsPending' = {} /\ dialogSeq' = dialogSeq
             /\ \E m \in DialogMsgs(1..dialogSeq) : UISent(m)
             /\ UNCHANGED <<dialogsActive, footers, drawing, widgetOn, lastLines,
                            dialogsOnline, page>>
  <2>1. PICK d \in dialogsPending :
           /\ dialogsPending' = dialogsPending \ {d}
           /\ Dialogs!Send(<<[type |-> "dialog_closed", id |-> d.id]>>)
    BY <1>2 DEF Dialogs!ResolveDialog
  <2>2. /\ dialogSeq' = dialogSeq /\ dialogsPending' = {}
        /\ UNCHANGED <<dialogsActive, footers, drawing, widgetOn, lastLines,
                       dialogsOnline, page>>
    BY <1>2, <2>1 DEF Dialogs!ResolveDialog
  <2>3. d.id \in 1..dialogSeq /\ dialogSeq \in 0..MaxDialogs
    BY DEF UITyped
  <2>4. PICK m : m = [type |-> "dialog_closed", id |-> d.id]
    OBVIOUS
  <2>5. m \in DialogMsgs(1..dialogSeq) /\ m \in DialogMsgs(1..MaxDialogs)
    BY <2>3, <2>4 DEF DialogMsgs
  <2>6. UISent(m)
    BY <2>1, <2>4, <2>5, UISends DEF UIMessage, UISent, Listened
  <2> QED BY <2>2, <2>5, <2>6
<1> QED BY <1>1, <1>2

(* What the page makes of the first message on its way.                     *)
LEMMA PageReads ==
  ASSUME UITyped, Dialogs!Receive
  PROVE  /\ Listened /\ wire \in Seq(UIMessage) /\ wire # <<>> /\ wire' = Tail(wire)
         /\ page' \in [footer : UIText, widget : UILines, dialog : 0..dialogSeq]
         /\ page'.footer = IF Head(wire) \in FooterMsgs THEN Head(wire).text
                           ELSE page.footer
         /\ page'.widget = IF Head(wire) \in WidgetMsgs THEN Head(wire).text
                           ELSE page.widget
         /\ \A n \in 1..MaxDialogs : Head(wire) = DialogTo(n) => page'.dialog = n
         /\ Head(wire) \notin DialogMsgs(1..MaxDialogs) => page'.dialog = page.dialog
         /\ UNCHANGED <<dialogsActive, footers, drawing, widgetOn, lastLines,
                        dialogsPending, dialogSeq, dialogsOnline>>
<1> USE RunsBounds
<1>1. /\ Listened /\ wire \in Seq(UIMessage) /\ wire # <<>> /\ wire' = Tail(wire)
      /\ page' = Dialogs!Applied(Head(wire))
      /\ UNCHANGED <<dialogsActive, footers, drawing, widgetOn, lastLines,
                     dialogsPending, dialogSeq, dialogsOnline>>
  BY DEF UITyped, UIWireTyped, Dialogs!Receive, Dialogs!Up, Listened
<1>2. PICK m : m = Head(wire)
  OBVIOUS
<1>3. m \in UIMessage /\ m \notin DialogMsgs((dialogSeq + 1)..MaxDialogs)
  BY <1>1, <1>2, HeadTailRange, LastRead DEF UITyped, UIWireTyped
<1>4. PICK p \in [footer : UIText, widget : UILines, dialog : 0..dialogSeq] : p = page
  BY DEF UITyped
<1>5. dialogSeq \in 0..MaxDialogs
  BY DEF UITyped
<1>6. page' = Dialogs!Applied(m)
  BY <1>1, <1>2
<1>7. CASE m \in FooterMsgs
  <2>1. m.type = "statuses" /\ m.text \in UIText
    BY <1>7 DEF FooterMsgs
  <2>2. page' = [p EXCEPT !.footer = m.text]
    BY <1>4, <1>6, <2>1 DEF Dialogs!Applied
  <2>3. /\ page' \in [footer : UIText, widget : UILines, dialog : 0..dialogSeq]
        /\ page'.footer = m.text /\ page'.widget = p.widget /\ page'.dialog = p.dialog
    BY <2>1, <2>2
  <2>4. /\ m \notin WidgetMsgs
        /\ \A n \in 1..MaxDialogs : m # DialogTo(n)
    BY <1>7, UIKinds
  <2> QED BY <1>1, <1>2, <1>4, <1>7, <2>3, <2>4
<1>8. CASE m \in WidgetMsgs
  <2>1. m.type = "widgets" /\ m.text \in UILines
    BY <1>8 DEF WidgetMsgs
  <2>2. page' = [p EXCEPT !.widget = m.text]
    BY <1>4, <1>6, <2>1 DEF Dialogs!Applied
  <2>3. /\ page' \in [footer : UIText, widget : UILines, dialog : 0..dialogSeq]
        /\ page'.footer = p.footer /\ page'.widget = m.text /\ page'.dialog = p.dialog
    BY <2>1, <2>2
  <2>4. /\ m \notin FooterMsgs
        /\ \A n \in 1..MaxDialogs : m # DialogTo(n)
    BY <1>8, UIKinds
  <2> QED BY <1>1, <1>2, <1>4, <1>8, <2>3, <2>4
<1>9. CASE m \in DialogMsgs(1..MaxDialogs)
  <2>1. m.type \in {"dialog", "dialog_closed"} /\ m.id \in 1..MaxDialogs
    BY <1>9 DEF DialogMsgs
  <2>2. m.id \notin (dialogSeq + 1)..MaxDialogs
    <3>1. m = [type |-> m.type, id |-> m.id]
      BY <1>9 DEF DialogMsgs
    <3>2. m.id \in (dialogSeq + 1)..MaxDialogs
            => m \in DialogMsgs((dialogSeq + 1)..MaxDialogs)
      BY <2>1, <3>1 DEF DialogMsgs
    <3> QED BY <1>3, <3>2
  <2>3. m.id \in 0..dialogSeq
    BY <1>5, <2>1, <2>2
  <2>4. page' = [p EXCEPT !.dialog = IF m.type = "dialog" THEN m.id ELSE 0]
    BY <1>4, <1>6, <2>1 DEF Dialogs!Applied, Dialogs!NoDialog
  <2>5. /\ page' \in [footer : UIText, widget : UILines, dialog : 0..dialogSeq]
        /\ page'.footer = p.footer /\ page'.widget = p.widget
        /\ m.type = "dialog" => page'.dialog = m.id
    BY <1>5, <2>3, <2>4
  <2>6. m \notin FooterMsgs /\ m \notin WidgetMsgs
    BY <1>9, UIKinds
  <2>7. \A n \in 1..MaxDialogs : m = DialogTo(n) => page'.dialog = n
    BY <2>5 DEF DialogTo
  <2> QED BY <1>1, <1>2, <1>4, <1>9, <2>5, <2>6, <2>7
<1> QED BY <1>3, <1>7, <1>8, <1>9 DEF UIMessage

(* Of the footers, the lines and the dialog each is told by messages of its *)
(* own kind.                                                                *)
LEMMA FooterStep ==
  ASSUME UITyped, UIFlags, \A d, e \in dialogsPending : d = e,
         Listened => FooterFollows, [Dialogs!UINext]_dialogVars, Listened'
  PROVE  FooterFollows'
<1> DEFINE f == footers[dialogsActive]
<1>1. wire \in Seq(UIMessage) /\ f \in UIText
  BY DEF UITyped, UIWireTyped
<1>2. ASSUME Listened, f' = f, page' = page, NEW m \in UIMessage, m \notin FooterMsgs,
             wire' = Append(wire, m)
      PROVE  FooterFollows'
  BY <1>1, <1>2, ShowsSent DEF FooterFollows
<1>3. ASSUME NEW w \in Seq(UIMessage), NEW v \in UIText, f' = v,
             wire' = Append(w, FooterTo(v))
      PROVE  FooterFollows'
  BY <1>3, ShowsSent, UIKinds DEF FooterFollows, UIMessage
<1>4. CASE UNCHANGED <<footers, dialogsActive, page, wire, dialogsOnline>>
  BY <1>4 DEF FooterFollows, Listened
<1>5. ASSUME NEW c \in Chat,
             Dialogs!SetConvStatus(c) \/ (Dialogs!BindSession /\ c = dialogsActive)
      PROVE  FooterFollows'
  <2>1. Listened
    BY <1>5, FooterProperties DEF Listened
  <2>2. CASE c = dialogsActive
    <3>1. f' \in UIText /\ wire' = Append(wire, FooterTo(f'))
      BY <1>1, <1>5, <2>1, <2>2, FooterProperties DEF UISent, UITyped
    <3> QED BY <1>1, <1>3, <3>1
  <2>3. CASE c # dialogsActive
    BY <1>5, <2>1, <2>3, FooterProperties DEF FooterFollows
  <2> QED BY <2>2, <2>3
<1>6. CASE Dialogs!SetWidget \/ Dialogs!Refresh
  BY <1>2, <1>6, WidgetProperties, UIKinds DEF Listened, UISent, UIMessage
<1>7. ASSUME NEW c \in Chat, Dialogs!SwitchConversation(c) PROVE FooterFollows'
  <2>1. Listened
    BY <1>7, SwitchProperties DEF Listened
  <2>2. f' = footers[c] /\ footers[c] \in UIText
    BY <1>7, SwitchProperties DEF UITyped
  <2>3. WidgetTo(lastLines') \in UIMessage
    BY <1>7, SwitchProperties, UIKinds DEF UIMessage
  <2>4. Append(wire, WidgetTo(lastLines')) \in Seq(UIMessage)
    BY <1>1, <2>3
  <2> QED BY <1>1, <1>3, <1>7, <2>1, <2>2, <2>4, SwitchProperties DEF UISent
<1>8. CASE Dialogs!AttachSink
  <2>1. f' = f
    BY <1>8, AttachProperties
  <2>2. WidgetTo(lastLines') \in UIMessage /\ <<>> \in Seq(UIMessage)
    BY <1>8, AttachProperties, UIKinds DEF UIMessage
  <2>3. Append(<<>>, WidgetTo(lastLines')) \in Seq(UIMessage)
    BY <2>2
  <2> QED BY <1>1, <1>3, <1>8, <2>1, <2>2, <2>3, AttachProperties
<1>9. ASSUME NEW c \in Chat, Dialogs!OpenDialog(c) PROVE FooterFollows'
  <2>1. dialogSeq + 1 \in 1..MaxDialogs
    BY <1>9, DialogProperties
  <2> QED BY <1>2, <1>9, <2>1, DialogProperties, UIKinds DEF Listened, UISent, UIMessage
<1>10. CASE Dialogs!ResolveDialog
  <2>1. \A m \in DialogMsgs(1..dialogSeq) : m \in UIMessage /\ m \notin FooterMsgs
    BY UIKinds, RunsBounds DEF UITyped, UIMessage, DialogMsgs
  <2> QED BY <1>2, <1>10, <2>1, DialogProperties DEF Listened, UISent
<1>11. CASE Dialogs!Receive
  <2>1. f' = f
    BY <1>11, PageReads
  <2>2. Head(wire) = FooterTo(f) => page'.footer = f
    <3>1. FooterTo(f) \in FooterMsgs /\ FooterTo(f).text = f
      BY <1>1, UIKinds DEF FooterTo
    <3> QED BY <1>11, <3>1, PageReads
  <2>3. Head(wire) \notin FooterMsgs => page'.footer = page.footer
    BY <1>11, PageReads
  <2>4. Shows(Tail(wire), FooterMsgs, FooterTo(f), page'.footer, f)
    BY <1>11, <2>2, <2>3, PageReads, ShowsRead DEF FooterFollows
  <2> QED BY <1>11, <2>1, <2>4, PageReads DEF FooterFollows
<1>12. CASE Dialogs!Lose
  BY <1>12 DEF Dialogs!Lose, Listened
<1>13. CASE Dialogs!Redraw \/ UNCHANGED dialogVars
  BY <1>4, <1>13 DEF Dialogs!Redraw, dialogVars
<1>14. dialogsActive \in Chat
  BY DEF UITyped
<1> QED BY <1>5, <1>6, <1>7, <1>8, <1>9, <1>10, <1>11, <1>12, <1>13, <1>14
        DEF Dialogs!UINext

LEMMA WidgetStep ==
  ASSUME UITyped, UIFlags, \A d, e \in dialogsPending : d = e,
         Listened => (widgetOn => WidgetFollows), [Dialogs!UINext]_dialogVars, Listened',
         widgetOn'
  PROVE  WidgetFollows'
<1>1. wire \in Seq(UIMessage) /\ lastLines \in UILines
  BY DEF UITyped, UIWireTyped
<1>2. ASSUME WidgetFollows, lastLines' = lastLines, page' = page,
             NEW m \in UIMessage, m \notin WidgetMsgs, wire' = Append(wire, m)
      PROVE  WidgetFollows'
  BY <1>1, <1>2, ShowsSent DEF WidgetFollows
<1>3. ASSUME WidgetFollows, UNCHANGED <<lastLines, page, wire>>
      PROVE  WidgetFollows'
  BY <1>3 DEF WidgetFollows
<1>4. ASSUME NEW c \in Chat,
             Dialogs!SetConvStatus(c) \/ (Dialogs!BindSession /\ c = dialogsActive)
      PROVE  WidgetFollows'
  <2>1. /\ UNCHANGED <<dialogsOnline, widgetOn, lastLines, page>>
        /\ footers'[dialogsActive] \in UIText
    BY <1>4, FooterProperties DEF UITyped
  <2>2. Listened /\ WidgetFollows
    BY <2>1 DEF Listened
  <2>3. CASE c = dialogsActive
    <3>1. PICK v \in UIText : v = footers'[dialogsActive]
      BY <2>1
    <3>2. FooterTo(v) \in UIMessage /\ FooterTo(v) \notin WidgetMsgs
      BY UIKinds DEF UIMessage
    <3>3. wire' = Append(wire, FooterTo(v))
      BY <1>4, <2>2, <2>3, <3>1, FooterProperties DEF UISent
    <3> QED BY <1>2, <2>1, <2>2, <3>2, <3>3
  <2>4. CASE c # dialogsActive
    BY <1>3, <1>4, <2>1, <2>2, <2>4, FooterProperties
  <2> QED BY <2>3, <2>4
<1>5. CASE Dialogs!SetWidget \/ Dialogs!Refresh
  <2>1. PICK x \in UILines : x = lastLines'
    BY <1>5, WidgetProperties
  <2>2. wire' = Append(wire, WidgetTo(x))
    BY <1>5, <2>1, WidgetProperties DEF Listened, UISent
  <2>3. WidgetTo(x) \in UIMessage
    BY UIKinds DEF UIMessage
  <2> QED BY <1>1, <2>1, <2>2, <2>3, ShowsSent DEF WidgetFollows
<1>6. ASSUME NEW c \in Chat, NEW w, NEW x \in UILines, x = lastLines',
             wire' = Append(Append(w, WidgetTo(x)), FooterTo(footers[c])),
             w \in Seq(UIMessage)
      PROVE  WidgetFollows'
  <2>1. PICK n : n = FooterTo(footers[c])
    OBVIOUS
  <2>2. n \in UIMessage /\ n \notin WidgetMsgs /\ WidgetTo(x) \in UIMessage
    BY <2>1, UIKinds DEF UIMessage, UITyped
  <2>3. PICK u : u = Append(w, WidgetTo(x))
    OBVIOUS
  <2>4. u \in Seq(UIMessage)
    BY <1>6, <2>2, <2>3
  <2>5. Shows(u, WidgetMsgs, WidgetTo(x), page'.widget, x)
    BY <1>6, <2>2, <2>3, ShowsSent
  <2>6. Shows(Append(u, n), WidgetMsgs, WidgetTo(x), page'.widget, x)
    BY <2>2, <2>4, <2>5, ShowsSent
  <2> QED BY <1>6, <2>1, <2>3, <2>6 DEF WidgetFollows
<1>7. ASSUME NEW c \in Chat, Dialogs!SwitchConversation(c) PROVE WidgetFollows'
  <2>1. /\ UNCHANGED <<dialogsOnline, widgetOn, page>> /\ lastLines' \in UILines
    BY <1>7, SwitchProperties
  <2>2. Listened /\ WidgetFollows
    BY <2>1 DEF Listened
  <2>3. FooterTo(footers[c]) \in UIMessage /\ FooterTo(footers[c]) \notin WidgetMsgs
    BY UIKinds DEF UIMessage, UITyped
  <2>4. CASE lastLines' = lastLines /\ UISent(FooterTo(footers[c]))
    BY <1>2, <2>1, <2>2, <2>3, <2>4 DEF UISent
  <2>5. PICK x \in UILines : x = lastLines'
    BY <2>1
  <2>6. CASE wire' = Append(Append(wire, WidgetTo(lastLines')), FooterTo(footers[c]))
    BY <1>1, <1>6, <2>5, <2>6
  <2> QED BY <1>7, <2>2, <2>4, <2>6, SwitchProperties
<1>8. CASE Dialogs!AttachSink
  <2>1. PICK x \in UILines : x = lastLines'
    BY <1>8, AttachProperties
  <2>2. dialogsActive \in Chat /\ <<>> \in Seq(UIMessage)
    BY DEF UITyped
  <2>3. UNCHANGED widgetOn
    BY <1>8, AttachProperties
  <2>4. widgetOn
    BY <2>3
  <2>5. wire' = Append(Append(<<>>, WidgetTo(x)), FooterTo(footers[dialogsActive]))
    BY <1>8, <2>1, <2>4, AttachProperties
  <2> QED BY <1>6, <2>1, <2>2, <2>5
<1>9. ASSUME NEW c \in Chat, Dialogs!OpenDialog(c) PROVE WidgetFollows'
  <2>1. dialogSeq + 1 \in 1..MaxDialogs /\ UNCHANGED <<dialogsOnline, widgetOn>>
    BY <1>9, DialogProperties
  <2>2. Listened /\ WidgetFollows
    BY <2>1 DEF Listened
  <2> QED BY <1>2, <1>9, <2>1, <2>2, DialogProperties, UIKinds DEF UISent, UIMessage
<1>10. CASE Dialogs!ResolveDialog
  <2>1. \A m \in DialogMsgs(1..dialogSeq) : m \in UIMessage /\ m \notin WidgetMsgs
    BY UIKinds, RunsBounds DEF UITyped, UIMessage, DialogMsgs
  <2>2. UNCHANGED <<dialogsOnline, widgetOn>>
    BY <1>10, DialogProperties
  <2>3. Listened /\ WidgetFollows
    BY <2>2 DEF Listened
  <2> QED BY <1>2, <1>10, <2>1, <2>3, DialogProperties DEF UISent
<1>11. CASE Dialogs!Receive
  <2>1. UNCHANGED <<dialogsOnline, widgetOn, lastLines>>
    BY <1>11, PageReads
  <2>2. Listened /\ WidgetFollows
    BY <2>1 DEF Listened
  <2>3. WidgetTo(lastLines) \in WidgetMsgs /\ WidgetTo(lastLines).text = lastLines
    BY <1>1, UIKinds DEF WidgetTo
  <2>4. Head(wire) = WidgetTo(lastLines) => page'.widget = lastLines
    BY <1>11, <2>3, PageReads
  <2>5. Head(wire) \notin WidgetMsgs => page'.widget = page.widget
    BY <1>11, PageReads
  <2>6. Shows(Tail(wire), WidgetMsgs, WidgetTo(lastLines), page'.widget, lastLines)
    BY <1>11, <2>2, <2>4, <2>5, PageReads, ShowsRead DEF WidgetFollows
  <2> QED BY <1>11, <2>1, <2>6, PageReads DEF WidgetFollows
<1>12. CASE Dialogs!Lose
  BY <1>12 DEF Dialogs!Lose, Listened
<1>13. CASE Dialogs!Redraw \/ UNCHANGED dialogVars
  <2>1. UNCHANGED <<dialogsOnline, widgetOn, lastLines, page, wire>>
    BY <1>13 DEF Dialogs!Redraw, dialogVars
  <2>2. WidgetFollows
    BY <2>1 DEF Listened
  <2> QED BY <1>3, <2>1, <2>2
<1>14. dialogsActive \in Chat
  BY DEF UITyped
<1> QED BY <1>4, <1>5, <1>7, <1>8, <1>9, <1>10, <1>11, <1>12, <1>13, <1>14
        DEF Dialogs!UINext

LEMMA DialogStep ==
  ASSUME UITyped, UIFlags, \A d, e \in dialogsPending : d = e,
         dialogsOnline = "first" => DialogFollows, [Dialogs!UINext]_dialogVars
  PROVE  /\ (\A d, e \in dialogsPending : d = e)'
         /\ (dialogsOnline = "first" => DialogFollows)'
<1> DEFINE Kept == /\ \A d, e \in dialogsPending' : d = e
                   /\ dialogsOnline' = "first" => DialogFollows'
           Kind == DialogMsgs(1..MaxDialogs)
<1> SUFFICES Kept
  OBVIOUS
<1>1. /\ wire \in Seq(UIMessage)
      /\ \A d \in dialogsPending : d.id \in 1..dialogSeq /\ d.id \in 1..MaxDialogs
  BY RunsBounds DEF UITyped, UIWireTyped
<1>2. ASSUME UNCHANGED <<dialogsPending, dialogsOnline, page, wire>> PROVE Kept
  BY <1>2 DEF DialogFollows
<1>3. ASSUME UNCHANGED <<dialogsPending, dialogsOnline, page>>,
             NEW m \in UIMessage, m \notin Kind, UISent(m)
      PROVE  Kept
  <2>1. CASE dialogsOnline = "first"
    <3>1. wire' = Append(wire, m)
      BY <1>3, <2>1 DEF UISent, Listened
    <3>2. DialogFollows'
      BY <1>1, <1>3, <2>1, <3>1, ShowsSent DEF DialogFollows
    <3> QED BY <1>3, <3>2
  <2> QED BY <1>3, <2>1
<1>4. ASSUME NEW c \in Chat,
             Dialogs!SetConvStatus(c) \/ (Dialogs!BindSession /\ c = dialogsActive)
      PROVE  Kept
  <2>1. /\ UNCHANGED <<dialogsPending, dialogsOnline, page>>
        /\ footers'[dialogsActive] \in UIText
    BY <1>4, FooterProperties DEF UITyped
  <2>2. FooterTo(footers'[dialogsActive]) \in UIMessage
        /\ FooterTo(footers'[dialogsActive]) \notin Kind
    BY <2>1, UIKinds DEF UIMessage
  <2> QED BY <1>2, <1>3, <1>4, <2>1, <2>2, FooterProperties
<1>5. CASE Dialogs!SetWidget \/ Dialogs!Refresh
  <2>1. WidgetTo(lastLines') \in UIMessage /\ WidgetTo(lastLines') \notin Kind
    BY <1>5, WidgetProperties, UIKinds DEF UIMessage
  <2> QED BY <1>3, <1>5, <2>1, WidgetProperties
<1>6. ASSUME NEW c \in Chat, Dialogs!SwitchConversation(c) PROVE Kept
  <2>1. UNCHANGED <<dialogsPending, dialogsOnline, page>> /\ lastLines' \in UILines
    BY <1>6, SwitchProperties
  <2>2. PICK m : m = WidgetTo(lastLines')
    OBVIOUS
  <2>3. PICK n : n = FooterTo(footers[c])
    OBVIOUS
  <2>4. m \in UIMessage /\ m \notin Kind /\ n \in UIMessage /\ n \notin Kind
    BY <2>1, <2>2, <2>3, UIKinds DEF UIMessage, UITyped
  <2>5. CASE UISent(n)
    BY <1>3, <2>1, <2>4, <2>5
  <2>6. CASE wire' = IF Listened THEN Append(Append(wire, m), n) ELSE wire
    <3>1. CASE dialogsOnline = "first"
      <4>1. wire' = Append(Append(wire, m), n) /\ Append(wire, m) \in Seq(UIMessage)
        BY <1>1, <2>4, <2>6, <3>1 DEF Listened
      <4>2. ASSUME NEW d \in dialogsPending
            PROVE  Shows(wire', Kind, DialogTo(d.id), page.dialog, d.id)
        <5>1. Shows(wire, Kind, DialogTo(d.id), page.dialog, d.id)
          BY <3>1 DEF DialogFollows
        <5>2. Shows(Append(wire, m), Kind, DialogTo(d.id), page.dialog, d.id)
          BY <1>1, <2>4, <5>1, ShowsSent
        <5> QED BY <2>4, <4>1, <5>2, ShowsSent
      <4> QED BY <2>1, <4>2 DEF DialogFollows
    <3> QED BY <2>1, <3>1
  <2> QED BY <1>6, <2>2, <2>3, <2>5, <2>6, SwitchProperties
<1>7. CASE Dialogs!AttachSink \/ Dialogs!Lose
  <2>1. dialogsPending' = dialogsPending /\ dialogsOnline' # "first"
    BY <1>7 DEF Dialogs!AttachSink, Dialogs!Lose
  <2> QED BY <2>1
<1>8. ASSUME NEW c \in Chat, Dialogs!OpenDialog(c) PROVE Kept
  <2>1. /\ dialogSeq + 1 \in 1..MaxDialogs
        /\ dialogsPending' = {[id |-> dialogSeq + 1, chat |-> c]}
        /\ UISent(DialogTo(dialogSeq + 1)) /\ dialogsOnline' = dialogsOnline
    BY <1>8, DialogProperties
  <2>2. DialogTo(dialogSeq + 1) \in UIMessage
    BY <2>1, UIKinds DEF UIMessage
  <2>3. CASE dialogsOnline = "first"
    <3>1. wire' = Append(wire, DialogTo(dialogSeq + 1))
      BY <2>1, <2>3 DEF UISent, Listened
    <3>2. \A d \in dialogsPending' : d.id = dialogSeq + 1
      BY <2>1
    <3>3. Shows(wire', Kind, DialogTo(dialogSeq + 1), page'.dialog, dialogSeq + 1)
      BY <1>1, <2>2, <3>1, ShowsSent
    <3> QED BY <2>1, <3>2, <3>3 DEF DialogFollows
  <2> QED BY <2>1, <2>3
<1>9. CASE Dialogs!ResolveDialog
  BY <1>9, DialogProperties DEF DialogFollows
<1>10. CASE Dialogs!Receive
  <2>1. UNCHANGED <<dialogsPending, dialogsOnline>>
    BY <1>10, PageReads
  <2>2. CASE dialogsOnline = "first"
    <3>1. ASSUME NEW d \in dialogsPending
          PROVE  Shows(Tail(wire), Kind, DialogTo(d.id), page'.dialog, d.id)
      <4>1. Shows(wire, Kind, DialogTo(d.id), page.dialog, d.id)
        BY <2>2 DEF DialogFollows
      <4>2. Head(wire) = DialogTo(d.id) => page'.dialog = d.id
        BY <1>1, <1>10, PageReads
      <4>3. Head(wire) \notin Kind => page'.dialog = page.dialog
        BY <1>10, PageReads
      <4> QED BY <1>10, <4>1, <4>2, <4>3, PageReads, ShowsRead
    <3> QED BY <1>10, <2>1, <3>1, PageReads DEF DialogFollows
  <2> QED BY <2>1, <2>2
<1>11. CASE Dialogs!Redraw \/ UNCHANGED dialogVars
  BY <1>2, <1>11 DEF Dialogs!Redraw, dialogVars
<1> HIDE DEF Kept
<1>12. dialogsActive \in Chat
  BY DEF UITyped
<1> QED
  BY <1>4, <1>5, <1>6, <1>7, <1>8, <1>9, <1>10, <1>11, <1>12 DEF Dialogs!UINext

LEMMA UITypes ==
  ASSUME UITyped, UIFlags, \A d, e \in dialogsPending : d = e,
         [Dialogs!UINext]_dialogVars
  PROVE  UITyped'
<1> USE RunsBounds
<1>1. /\ dialogsActive \in Chat /\ footers \in [Chat -> UIText]
      /\ dialogSeq \in 0..MaxDialogs /\ UIWireTyped(wire, dialogSeq)
      /\ wire \in Seq(UIMessage)
  BY DEF UITyped, UIWireTyped
<1>2. \A ids : \A m \in FooterMsgs \cup WidgetMsgs : m \notin DialogMsgs(ids)
  BY UIKinds
<1>3. ASSUME NEW m \in FooterMsgs \cup WidgetMsgs, NEW w, UIWireTyped(w, dialogSeq)
      PROVE  UIWireTyped(Append(w, m), dialogSeq)
  BY <1>1, <1>2, <1>3, UIWireGrows DEF UIMessage
<1>4. ASSUME NEW c \in Chat,
             Dialogs!SetConvStatus(c) \/ (Dialogs!BindSession /\ c = dialogsActive)
      PROVE  UITyped'
  <2>1. /\ footers' \in [Chat -> UIText]
        /\ UNCHANGED <<dialogsActive, drawing, widgetOn, lastLines, dialogsPending,
                       dialogSeq, dialogsOnline, page>>
    BY <1>4, FooterProperties
  <2>2. PICK m \in FooterMsgs : m = FooterTo(footers'[dialogsActive])
    BY <1>1, <2>1, UIKinds
  <2>3. wire' = wire \/ wire' = Append(wire, m)
    BY <1>4, <2>2, FooterProperties DEF UISent
  <2>4. UIWireTyped(wire', dialogSeq)
    BY <1>1, <1>3, <2>3
  <2> QED BY <2>1, <2>4 DEF UITyped
<1>5. CASE Dialogs!SetWidget \/ Dialogs!Refresh
  <2>1. /\ lastLines' \in UILines
        /\ UNCHANGED <<dialogsActive, footers, drawing, dialogsPending, dialogSeq,
                       dialogsOnline, page>>
    BY <1>5, WidgetProperties
  <2>2. PICK m \in WidgetMsgs : m = WidgetTo(lastLines')
    BY <2>1, UIKinds
  <2>3. wire' = wire \/ wire' = Append(wire, m)
    BY <1>5, <2>2, WidgetProperties DEF UISent
  <2>4. UIWireTyped(wire', dialogSeq)
    BY <1>1, <1>3, <2>3
  <2> QED BY <2>1, <2>4 DEF UITyped
<1>6. ASSUME NEW c \in Chat, Dialogs!SwitchConversation(c) PROVE UITyped'
  <2>1. /\ dialogsActive' = c /\ lastLines' \in UILines
        /\ UNCHANGED <<footers, drawing, widgetOn, dialogsPending, dialogSeq,
                       dialogsOnline, page>>
    BY <1>6, SwitchProperties
  <2>2. PICK m \in FooterMsgs : m = FooterTo(footers[c])
    BY <1>1, UIKinds
  <2>3. PICK n \in WidgetMsgs : n = WidgetTo(lastLines')
    BY <2>1, UIKinds
  <2>4. wire' = wire \/ wire' = Append(wire, m) \/ wire' = Append(Append(wire, n), m)
    BY <1>6, <2>2, <2>3, SwitchProperties DEF UISent
  <2>5. UIWireTyped(wire', dialogSeq)
    BY <1>1, <1>3, <2>4
  <2> QED BY <2>1, <2>5 DEF UITyped
<1>7. CASE Dialogs!AttachSink
  <2>1. /\ dialogsOnline' = "again" /\ lastLines' \in UILines
        /\ UNCHANGED <<dialogsActive, footers, drawing, widgetOn, dialogsPending,
                       dialogSeq, page>>
    BY <1>7, AttachProperties
  <2>2. PICK m \in FooterMsgs : m = FooterTo(footers[dialogsActive])
    BY <1>1, UIKinds
  <2>3. PICK n \in WidgetMsgs : n = WidgetTo(lastLines')
    BY <2>1, UIKinds
  <2>4. wire' = Append(<<>>, m) \/ wire' = Append(Append(<<>>, n), m)
    BY <1>7, <2>2, <2>3, AttachProperties
  <2>5. UIWireTyped(<<>>, dialogSeq)
    BY NoneOnTheWay DEF UIWireTyped
  <2>6. UIWireTyped(wire', dialogSeq)
    BY <1>3, <2>4, <2>5
  <2> QED BY <2>1, <2>6 DEF UITyped
<1>8. ASSUME NEW c \in Chat, Dialogs!OpenDialog(c) PROVE UITyped'
  <2>1. /\ dialogSeq' = dialogSeq + 1 /\ dialogSeq' \in 1..MaxDialogs
        /\ dialogsPending' = {[id |-> dialogSeq + 1, chat |-> c]}
        /\ UISent(DialogTo(dialogSeq + 1))
        /\ UNCHANGED <<dialogsActive, footers, drawing, widgetOn, lastLines,
                       dialogsOnline, page>>
    BY <1>8, DialogProperties
  <2>2. dialogsPending' \subseteq [id : 1..dialogSeq', chat : Chat]
    BY <1>1, <2>1
  <2>3. page' \in [footer : UIText, widget : UILines, dialog : 0..dialogSeq']
    <3>1. 0..dialogSeq \subseteq 0..dialogSeq'
      BY <1>1, <2>1
    <3> QED BY <2>1, <3>1 DEF UITyped
  <2>4. /\ DialogTo(dialogSeq + 1) \in UIMessage
        /\ DialogTo(dialogSeq + 1) \notin DialogMsgs((dialogSeq + 2)..MaxDialogs)
    BY <1>1, <2>1, UIKinds DEF UIMessage, DialogTo, DialogMsgs
  <2>5. UIWireTyped(Append(wire, DialogTo(dialogSeq + 1)), dialogSeq + 1)
    BY <1>1, <2>4, UIWireGrows
  <2>6. UIWireTyped(wire, dialogSeq + 1)
    <3>1. (dialogSeq + 2)..MaxDialogs \subseteq (dialogSeq + 1)..MaxDialogs
      BY <1>1
    <3>2. DialogMsgs((dialogSeq + 2)..MaxDialogs)
            \subseteq DialogMsgs((dialogSeq + 1)..MaxDialogs)
      BY <3>1 DEF DialogMsgs
    <3>3. (dialogSeq + 1) + 1 = dialogSeq + 2
      BY <1>1
    <3> QED BY <1>1, <3>2, <3>3 DEF UIWireTyped, NoneIn
  <2>7. UIWireTyped(wire', dialogSeq')
    BY <2>1, <2>5, <2>6 DEF UISent
  <2> QED BY <2>1, <2>2, <2>3, <2>7 DEF UITyped
<1>9. CASE Dialogs!ResolveDialog
  <2>1. /\ dialogsPending' = {} /\ dialogSeq' = dialogSeq
        /\ UNCHANGED <<dialogsActive, footers, drawing, widgetOn, lastLines,
                       dialogsOnline, page>>
    BY <1>9, DialogProperties
  <2>2. PICK m \in DialogMsgs(1..dialogSeq) : UISent(m)
    BY <1>9, DialogProperties
  <2>3. m \in UIMessage /\ m \notin DialogMsgs((dialogSeq + 1)..MaxDialogs)
    BY <1>1 DEF UIMessage, DialogMsgs
  <2>4. UIWireTyped(wire', dialogSeq)
    BY <1>1, <2>2, <2>3, UIWireGrows DEF UISent
  <2> QED BY <2>1, <2>4 DEF UITyped
<1>10. CASE Dialogs!Receive
  <2>1. /\ page' \in [footer : UIText, widget : UILines, dialog : 0..dialogSeq]
        /\ wire # <<>> /\ wire' = Tail(wire)
        /\ UNCHANGED <<dialogsActive, footers, drawing, widgetOn, lastLines,
                       dialogsPending, dialogSeq, dialogsOnline>>
    BY <1>10, PageReads
  <2>2. UIWireTyped(wire', dialogSeq)
    BY <1>1, <2>1, LastRead, HeadTailRange DEF UIWireTyped
  <2> QED BY <2>1, <2>2 DEF UITyped
<1>11. CASE Dialogs!Lose
  <2>1. UIWireTyped(wire', dialogSeq)
    BY <1>11, NoneOnTheWay DEF UIWireTyped, Dialogs!Lose
  <2> QED BY <1>11, <2>1 DEF UITyped, Dialogs!Lose
<1>12. CASE Dialogs!Redraw
  BY <1>12 DEF UITyped, Dialogs!Redraw
<1>13. CASE UNCHANGED dialogVars
  BY <1>13 DEF UITyped, dialogVars
<1> QED
  BY <1>1, <1>4, <1>5, <1>6, <1>7, <1>8, <1>9, <1>10, <1>11, <1>12, <1>13
  DEF Dialogs!UINext

LEMMA UIFlagsStep == UIFlags /\ [Dialogs!UINext]_dialogVars => UIFlags'
<1> SUFFICES ASSUME UIFlags, [Dialogs!UINext]_dialogVars PROVE UIFlags'
  OBVIOUS
<1>1. CASE Dialogs!SetWidget \/ Dialogs!Refresh
  BY <1>1, Zenon DEF UIFlags, Dialogs!SetWidget, Dialogs!Refresh, Dialogs!Push
<1>2. ASSUME ~(Dialogs!SetWidget \/ Dialogs!Refresh) PROVE widgetOn' = widgetOn
  BY <1>2 DEF dialogVars, Dialogs!UINext, Dialogs!SetConvStatus,
     Dialogs!SwitchConversation, Dialogs!OpenDialog, Dialogs!Redraw,
     Dialogs!BindSession, Dialogs!ResolveDialog, Dialogs!Receive, Dialogs!Lose,
     Dialogs!AttachSink
<1> QED BY <1>1, <1>2, Zenon DEF UIFlags

LEMMA UIStep ==
  UIFlags /\ UIIInv /\ [Dialogs!UINext]_dialogVars => UIFlags' /\ UIIInv'
<1> SUFFICES ASSUME UIFlags, UIIInv, [Dialogs!UINext]_dialogVars
             PROVE  UIFlags' /\ UIIInv'
  OBVIOUS
<1>1. /\ UITyped /\ \A d, e \in dialogsPending : d = e
      /\ Listened => FooterFollows
      /\ Listened => (widgetOn => WidgetFollows)
      /\ dialogsOnline = "first" => DialogFollows
  BY DEF UIIInv, Listened
<1>2. UIFlags' /\ UITyped'
  BY <1>1, UIFlagsStep, UITypes
<1>3. Listened' => FooterFollows'
  BY <1>1, FooterStep
<1>4. Listened' /\ widgetOn' => WidgetFollows'
  BY <1>1, WidgetStep
<1>5. /\ (\A d, e \in dialogsPending : d = e)'
      /\ (dialogsOnline = "first" => DialogFollows)'
  BY <1>1, DialogStep
<1> QED BY <1>2, <1>3, <1>4, <1>5 DEF UIIInv, Listened

(* What the invariant says of a page that has read everything.              *)
LEMMA UIHolds ==
  UIFlags /\ UIIInv => /\ Dialogs!UITypeOK /\ Dialogs!FooterOfTheChat
                       /\ Dialogs!ShownIsCompared /\ Dialogs!WaitIsShown
<1> SUFFICES ASSUME UIFlags, UIIInv
             PROVE  /\ Dialogs!UITypeOK /\ Dialogs!FooterOfTheChat
                    /\ Dialogs!ShownIsCompared /\ Dialogs!WaitIsShown
  OBVIOUS
<1>1. UITyped
  BY DEF UIIInv
<1>2. Dialogs!UITypeOK
  <2>1. /\ dialogsActive \in Chat
        /\ footers \in [Chat -> {"text"} \cup {Dialogs!Nothing}]
        /\ drawing \in {"plain", "red"} /\ dialogsOnline \in {"first", "down", "again"}
        /\ page.footer \in {"text"} \cup {Dialogs!Nothing}
        /\ page.widget \in {Dialogs!Nothing} \cup {Strip(d) : d \in {"plain", "red"}}
        /\ page.dialog \in 0..dialogSeq
        /\ dialogsPending \subseteq [id : 1..dialogSeq, chat : Chat]
    BY <1>1 DEF UITyped, UIText, UILines, Dialogs!Nothing, Strip
  <2> QED BY <2>1, Zenon DEF UIFlags, Dialogs!UITypeOK
<1>3. Dialogs!FooterOfTheChat
  BY NoneOnTheWay DEF UIIInv, FooterFollows, Shows, Dialogs!FooterOfTheChat,
     Dialogs!Settled, Dialogs!Up
<1>4. Dialogs!ShownIsCompared
  BY NoneOnTheWay DEF UIIInv, WidgetFollows, Shows, Dialogs!ShownIsCompared,
     Dialogs!Settled, Dialogs!Up
<1>5. Dialogs!WaitIsShown
  BY NoneOnTheWay DEF UIIInv, DialogFollows, Shows, Dialogs!WaitIsShown,
     Dialogs!Settled, Dialogs!Up
<1> QED BY <1>2, <1>3, <1>4, <1>5

-----------------------------------------------------------------------------
(* A calm pane shows all of the transcript of a known worker, the footer is *)
(* the active chat's, the page has the widget lines the poll compares with, *)
(* and a dialog that waits is on the page.                                  *)
THEOREM FollowersAreServed == Spec => []FollowersServed
<1>1. Init => FollowIInv /\ UIFlags /\ UIIInv
  BY FollowInitially, UIInitially DEF Init
<1>2. [Next]_vars => [Follow!WorkerNext]_workerVars /\ [Dialogs!UINext]_dialogVars
  BY DEF Next, Rest, vars, workerVars, dialogVars
<1>3. FollowIInv /\ [Next]_vars => FollowIInv'
  BY <1>2, FollowStep
<1>4. UIFlags /\ UIIInv /\ [Next]_vars => UIFlags' /\ UIIInv'
  BY <1>2, UIStep
<1>5. FollowIInv /\ UIFlags /\ UIIInv => FollowersServed
  <2>1. FollowIInv => /\ Follow!WorkerTypeOK /\ Follow!FollowerUpToDate
                      /\ Follow!FollowedAreKnown
    BY FollowHolds
  <2>2. UIFlags /\ UIIInv => /\ Dialogs!UITypeOK /\ Dialogs!FooterOfTheChat
                             /\ Dialogs!ShownIsCompared /\ Dialogs!WaitIsShown
    BY UIHolds
  <2> QED BY <2>1, <2>2, Zenon DEF FollowersServed
<1> QED BY <1>1, <1>3, <1>4, <1>5, PTL DEF Spec
=============================================================================
