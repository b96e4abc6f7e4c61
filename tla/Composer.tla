------------------------------ MODULE Composer ------------------------------
(***************************************************************************)
(* The input box of a page (ChatInput.tsx, App.tsx, composer-draft.ts,     *)
(* composer-bridge.ts, prompt-history.ts): what is typed, the history of   *)
(* prompts that all pages of a browser share, the queued messages that are *)
(* taken back into the box, what a host injects, and the files that are    *)
(* read one after the other and attached.                                  *)
(*                                                                         *)
(* Every word and every file is a number of its own, so that it can be     *)
(* followed; the prompt itself, its attachments' bytes and the slash       *)
(* commands are abstracted.                                                *)
(*                                                                         *)
(* The second half of the module follows the files of a sent prompt into   *)
(* the session.  The halves share no variable.                             *)
(***************************************************************************)
EXTENDS Integers, Sequences, FiniteSets

CONSTANTS
  Box,               \* the pages, each with its input box
  HistoryMax,        \* maxEntries of the prompt history
  RecallKeep,        \* how many recalled messages App keeps in recallDrafts;
                     \* the box takes them before there are more
  MaxComposed,       \* bound: words and files made
  WhileBrowsing,     \* a message is recalled while the history is shown
  HistoryShrinks,    \* the settings or another page cut the history
  BeforeRender       \* a click comes before a new attachment is rendered

Word == 1 .. MaxComposed
Undefined == <<0>>   \* an index past the end of the history

VARIABLES
  text,      \* the text of a box, a sequence of words
  saved,     \* draftRef: the text when the history was entered
  at,        \* historyIndexRef: 0 outside of the history
  history,   \* the shared history
  recalls,   \* recallDrafts: the messages taken back, with their number
  taken,     \* lastRecallSeqRef
  reading,   \* the files being read, in order
  attached,  \* the attachments of the next message
  shown,     \* the attachments of the last render
  sent,      \* what was sent: words and files
  erased,    \* the words and files the user gave up
  made       \* how many words and files there are

composerVars == <<text, saved, at, history, recalls, taken, reading, attached, shown, sent,
                  erased, made>>

Set(s) == {s[i] : i \in 1 .. Len(s)}

ComposerTypeOK ==
  /\ text \in [Box -> Seq(Word \cup {0})] /\ saved \in [Box -> Seq(Word \cup {0})]
  /\ at \in [Box -> 0 .. HistoryMax] /\ taken \in [Box -> 0 .. MaxComposed]
  /\ history \in Seq(Seq(Word)) /\ Len(history) <= HistoryMax
  /\ \A b \in Box : /\ Set(recalls[b]) \subseteq [word : Word, seq : Word]
                    /\ Len(recalls[b]) <= RecallKeep
                    /\ taken[b] <= MaxComposed
                    /\ Set(reading[b]) \cup Set(attached[b]) \cup Set(shown[b]) \subseteq Word
  /\ \A i \in 1 .. Len(sent) : sent[i] \in [words : Seq(Word \cup {0}), files : Seq(Word)]
  /\ erased \subseteq Word \cup {0} /\ made \in 0 .. MaxComposed

ComposerInit ==
  /\ text = [b \in Box |-> <<>>] /\ saved = [b \in Box |-> <<>>] /\ at = [b \in Box |-> 0]
  /\ history = <<>> /\ recalls = [b \in Box |-> <<>>] /\ taken = [b \in Box |-> 0]
  /\ reading = [b \in Box |-> <<>>] /\ attached = [b \in Box |-> <<>>]
  /\ shown = [b \in Box |-> <<>>] /\ sent = <<>> /\ erased = {} /\ made = 0

Makes == made < MaxComposed /\ made' = made + 1
FilesStay == UNCHANGED <<reading, attached, shown>>

-----------------------------------------------------------------------------
(* The box and its history.                                                *)

(* A key ends the walk through the history, and the saved draft with it.   *)
Type(b) ==
  /\ Makes
  /\ text' = [text EXCEPT ![b] = Append(@, made')] /\ at' = [at EXCEPT ![b] = 0]
  /\ erased' = IF at[b] = 0 THEN erased ELSE erased \cup Set(saved[b])
  /\ UNCHANGED <<saved, history, recalls, taken, sent>> /\ FilesStay

Erase(b) ==
  /\ text[b] # <<>> /\ text' = [text EXCEPT ![b] = <<>>] /\ at' = [at EXCEPT ![b] = 0]
  /\ erased' = erased \cup Set(text[b]) \cup (IF at[b] = 0 THEN {} ELSE Set(saved[b]))
  /\ UNCHANGED <<saved, history, recalls, taken, sent, made>> /\ FilesStay

Pending(b) == {r \in Set(recalls[b]) : r.seq > taken[b]}
Entry(i) == IF i <= Len(history) THEN history[i] ELSE Undefined
Shows(b, i) ==
  /\ at' = [at EXCEPT ![b] = i]
  /\ text' = [text EXCEPT ![b] = IF i = 0 THEN saved[b] ELSE Entry(i)]
  /\ UNCHANGED <<history, recalls, taken, sent, erased, made>> /\ FilesStay

(* ArrowUp: the newest entry first, and the text is kept.                  *)
Older(b) ==
  /\ history # <<>> /\ at[b] # 1
  /\ Pending(b) = {} \/ WhileBrowsing
  /\ IF at[b] = 0
     THEN /\ saved' = [saved EXCEPT ![b] = text[b]]
          /\ at' = [at EXCEPT ![b] = Len(history)]
          /\ text' = [text EXCEPT ![b] = history[Len(history)]]
          /\ UNCHANGED <<history, recalls, taken, sent, erased, made>> /\ FilesStay
     ELSE Shows(b, at[b] - 1) /\ UNCHANGED saved

(* ArrowDown, past the newest entry back to the draft; Escape.             *)
MutPastTheEnd(b) == at[b] + 1 <= Len(history) + 1
HasNewer(b) == at[b] + 1 <= Len(history)
Newer(b) ==
  /\ history # <<>> /\ at[b] # 0
  /\ Shows(b, IF HasNewer(b) THEN at[b] + 1 ELSE 0) /\ UNCHANGED saved
Escape(b) == at[b] # 0 /\ Shows(b, 0) /\ UNCHANGED saved

-----------------------------------------------------------------------------
(* What comes from elsewhere is added to the text, which it never replaces;*)
(* the walk through the history is over.                                   *)
MutReplaces(b, words) == words
Merged(b, words) == text[b] \o words
Adds(b, words) ==
  /\ text' = [text EXCEPT ![b] = Merged(b, words)]
  /\ at' = [at EXCEPT ![b] = 0] /\ saved' = [saved EXCEPT ![b] = <<>>]

Recall(b) ==
  /\ Makes /\ (at[b] = 0 \/ WhileBrowsing) /\ Cardinality(Pending(b)) < RecallKeep
  /\ LET kept == SubSeq(recalls[b], IF Len(recalls[b]) < RecallKeep THEN 1 ELSE 2,
                        Len(recalls[b]))
     IN recalls' = [recalls EXCEPT ![b] = Append(kept, [word |-> made', seq |-> made'])]
  /\ UNCHANGED <<text, saved, at, history, taken, sent, erased>> /\ FilesStay

(* The effect of recallDrafts takes the messages it has not taken yet.     *)
MutTakesAll(b) == recalls[b]
NotTaken(b) == SelectSeq(recalls[b], LAMBDA r : r.seq > taken[b])
RecallsTaken(b) ==
  /\ recalls[b] # <<>> /\ recalls[b][Len(recalls[b])].seq > taken[b]
  /\ LET new == NotTaken(b) IN Adds(b, [i \in 1 .. Len(new) |-> new[i].word])
  /\ taken' = [taken EXCEPT ![b] = recalls[b][Len(recalls[b])].seq]
  /\ UNCHANGED <<history, recalls, sent, erased, made>> /\ FilesStay

(* composeToComposer: the attachment first, then the text.                 *)
Inject(b, withFile) ==
  /\ at[b] = 0 \/ WhileBrowsing
  /\ made + (IF withFile THEN 2 ELSE 1) <= MaxComposed
  /\ made' = made + (IF withFile THEN 2 ELSE 1)
  /\ Adds(b, <<made + 1>>)
  /\ attached' = IF withFile THEN [attached EXCEPT ![b] = Append(@, made')] ELSE attached
  /\ UNCHANGED <<history, recalls, taken, reading, shown, sent, erased>>

-----------------------------------------------------------------------------
(* The files, which are read one at a time.                                *)
AddFile(b) ==
  /\ Makes /\ reading' = [reading EXCEPT ![b] = Append(@, made')]
  /\ UNCHANGED <<text, saved, at, history, recalls, taken, attached, shown, sent, erased>>

FileRead(b, ok) ==
  /\ reading[b] # <<>> /\ reading' = [reading EXCEPT ![b] = Tail(@)]
  /\ attached' = IF ok THEN [attached EXCEPT ![b] = Append(@, Head(reading[b]))] ELSE attached
  /\ erased' = IF ok THEN erased ELSE erased \cup {Head(reading[b])}
  /\ UNCHANGED <<text, saved, at, history, recalls, taken, shown, sent, made>>

RemoveAttachment(b) ==
  /\ shown[b] # <<>>
  /\ attached' = [attached EXCEPT ![b] = SelectSeq(@, LAMBDA f : f # shown[b][1])]
  /\ erased' = erased \cup {shown[b][1]}
  /\ UNCHANGED <<text, saved, at, history, recalls, taken, reading, shown, sent, made>>

Renders(b) ==
  /\ shown[b] # attached[b] /\ shown' = [shown EXCEPT ![b] = attached[b]]
  /\ UNCHANGED <<text, saved, at, history, recalls, taken, reading, attached, sent, erased,
                 made>>

-----------------------------------------------------------------------------
(* pushPromptHistory: not what is the newest entry already, and no more    *)
(* than the settings allow.                                                *)
MutKeepsTwins(words) == words # <<>>
Remembers(words) == words # <<>> /\ (history = <<>> \/ history[Len(history)] # words)
Pushed(words) ==
  IF ~Remembers(words) THEN history
  ELSE LET all == Append(history, words) IN
         IF Len(all) > HistoryMax THEN SubSeq(all, Len(all) - HistoryMax + 1, Len(all)) ELSE all

(* submit of a message the socket takes, with the attachments of the last  *)
(* render; it clears what there is.                                        *)
MutKeepsFiles(b) == attached[b]
FilesAfterSubmit(b) == <<>>
Submit(b) ==
  /\ text[b] # <<>> \/ shown[b] # <<>>
  /\ shown[b] = attached[b] \/ BeforeRender
  /\ 0 \notin Set(text[b])
  /\ Len(sent) < MaxComposed
  /\ sent' = Append(sent, [words |-> text[b], files |-> shown[b]])
  /\ history' = Pushed(text[b])
  /\ text' = [text EXCEPT ![b] = <<>>] /\ saved' = [saved EXCEPT ![b] = <<>>]
  /\ at' = [at EXCEPT ![b] = 0]
  /\ erased' = IF at[b] = 0 THEN erased ELSE erased \cup Set(saved[b])
  /\ attached' = [attached EXCEPT ![b] = FilesAfterSubmit(b)]
  /\ shown' = [shown EXCEPT ![b] = FilesAfterSubmit(b)]
  /\ UNCHANGED <<recalls, taken, reading, made>>

(* savePromptHistorySettings, of any page.                                 *)
HistoryCut ==
  /\ HistoryShrinks /\ Len(history) > 1 /\ history' = <<history[Len(history)]>>
  /\ UNCHANGED <<text, saved, at, recalls, taken, sent, erased, made>> /\ FilesStay

ComposerNext ==
  \/ \E b \in Box :
       \/ Type(b) \/ Erase(b) \/ Older(b) \/ Newer(b) \/ Escape(b) \/ Recall(b)
       \/ RecallsTaken(b) \/ AddFile(b) \/ RemoveAttachment(b) \/ Renders(b) \/ Submit(b)
       \/ \E yes \in BOOLEAN : Inject(b, yes) \/ FileRead(b, yes)
  \/ HistoryCut

-----------------------------------------------------------------------------
(* Nothing the user typed, took back or attached is lost: it is in a box,  *)
(* under way to it, in what was sent, or the user gave it up (the comment  *)
(* at composer-draft.ts 4-5). While the history is shown the typed draft   *)
(* is kept aside.                                                          *)
InBox(b) ==
  Set(text[b]) \cup (IF at[b] # 0 THEN Set(saved[b]) ELSE {})
  \cup {r.word : r \in Pending(b)}
  \cup Set(reading[b]) \cup Set(attached[b])
WasSent == UNION {Set(sent[i].words) \cup Set(sent[i].files) : i \in 1 .. Len(sent)}
NothingLost == 1 .. made \subseteq UNION {InBox(b) : b \in Box} \cup WasSent \cup erased

(* A recalled message is taken once, whatever is rendered again (the       *)
(* comment at ChatInput.tsx 146-148).                                      *)
NoWordTwice == \A b \in Box : Cardinality(Set(text[b])) = Len(text[b])

(* A file goes with one message: it is not in two that were sent, and one  *)
(* that was sent is not still attached.                                    *)
FileInOneMessage ==
  /\ \A i, j \in 1 .. Len(sent) : i # j => Set(sent[i].files) \cap Set(sent[j].files) = {}
  /\ \A i \in 1 .. Len(sent), b \in Box : Set(sent[i].files) \cap Set(attached[b]) = {}

(* The arrows show entries of the history and the draft, never what is not *)
(* there (the comment at ChatInput.tsx 491: Up is older, Down is newer).   *)
ShowsEntries == \A b \in Box : 0 \notin Set(text[b])

(* No entry of the history follows an equal one (prompt-history.ts 6).     *)
NoTwins == \A i \in 1 .. Len(history) - 1 : history[i] # history[i + 1]

-----------------------------------------------------------------------------
(***************************************************************************)
(* The attachments of a prompt and their way into a session                *)
(* (agent-service.ts prompt and editMessage, attachments.ts, uploads.ts,   *)
(* question-attachments.ts, the editor of Message.tsx). Each attachment is *)
(* read, becomes a card that waits in the session for the next turn, and   *)
(* is put behind the question; editing a question collects the cards       *)
(* behind it and sends them again, to a fork of the session.               *)
(*                                                                         *)
(* What kind of card a file becomes and how large it may be is abstracted: *)
(* a file becomes a card or is skipped.                                    *)
(***************************************************************************)
CONSTANTS
  MaxPrompts,   \* bound: prompts and edits
  MaxCards      \* bound: attachments of a prompt

Prompt == 1 .. MaxPrompts
Files == Prompt \X (1 .. MaxCards)
NoPrompt == 0

VARIABLES
  transcript,   \* the session: questions, cards and replies
  nextTurn,     \* the cards that wait for the next turn
  flights,      \* the calls of prompt that await something
  queued,       \* the messages that wait for the run to end
  running,      \* isStreaming
  uploads,      \* the uploaded files that are on disk
  crossed,      \* prompts that met another one, a failure or a run
  origin,       \* per edit: the cards of the question it replaces
  dropped,      \* per prompt: its files that were skipped
  prompted      \* how many prompts there were

filesVars == <<transcript, nextTurn, flights, queued, running, uploads, crossed, origin,
               dropped, prompted>>

Line == [kind : {"user", "file", "reply"}, of : Prompt, file : Files \cup {<<>>}]
Question(p) == [kind |-> "user", of |-> p, file |-> <<>>]
Card(p, f) == [kind |-> "file", of |-> p, file |-> f]
FilesOf(s) == {s[i].file : i \in 1 .. Len(s)}

FilesTypeOK ==
  /\ \A i \in 1 .. Len(transcript) : transcript[i] \in Line
  /\ \A i \in 1 .. Len(nextTurn) : nextTurn[i] \in Line
  /\ Len(flights) <= MaxPrompts /\ Len(queued) <= MaxPrompts
  /\ \A i \in 1 .. Len(flights) :
       flights[i] \in [of : Prompt, step : {"reading", "adding"}, rest : Seq(Files),
                       cards : Seq(Files)]
  /\ running \in BOOLEAN /\ uploads \subseteq Files /\ crossed \subseteq Prompt
  /\ origin \in [Prompt -> SUBSET Files] /\ dropped \in [Prompt -> SUBSET Files]
  /\ prompted \in 0 .. MaxPrompts

FilesInit ==
  /\ transcript = <<>> /\ nextTurn = <<>> /\ flights = <<>> /\ queued = <<>>
  /\ running = FALSE /\ uploads = {} /\ crossed = {}
  /\ origin = [p \in Prompt |-> {}] /\ dropped = [p \in Prompt |-> {}] /\ prompted = 0

-----------------------------------------------------------------------------
InFlight == {flights[i].of : i \in 1 .. Len(flights)}
Crossing(p) ==
  IF flights # <<>> \/ running \/ queued # <<>> \/ nextTurn # <<>>
  THEN crossed \cup InFlight \cup {p} ELSE crossed
Flight(p, fs) == [of |-> p, step |-> "reading", rest |-> fs, cards |-> <<>>]
WithoutFlight(i) == SubSeq(flights, 1, i - 1) \o SubSeq(flights, i + 1, Len(flights))

(* prompt: the message with its files, up to the first await.              *)
Prompts(n) ==
  /\ prompted < MaxPrompts /\ prompted' = prompted + 1
  /\ flights' = Append(flights, Flight(prompted', [k \in 1 .. n |-> <<prompted', k>>]))
  /\ crossed' = Crossing(prompted')
  /\ UNCHANGED <<transcript, nextTurn, queued, running, uploads, origin, dropped>>

(* buildAttachmentMessages: the next file is read. What was sent with this *)
(* prompt is saved; what an edit sends again is read from where it is, and *)
(* is skipped when it is gone.                                             *)
MutStopsAtGone(i, works) == IF works THEN Tail(flights[i].rest) ELSE <<>>
RestAfter(i, works) == Tail(flights[i].rest)
Fresh(i) == Head(flights[i].rest)[1] = flights[i].of
ReadFile(i, works) ==
  /\ flights[i].step = "reading" /\ flights[i].rest # <<>>
  /\ works => Fresh(i) \/ Head(flights[i].rest) \in uploads
  /\ LET f == Head(flights[i].rest) p == flights[i].of IN
       /\ uploads' = IF works THEN uploads \cup {f} ELSE uploads
       /\ dropped' = IF works THEN dropped ELSE [dropped EXCEPT ![p] = @ \cup {f}]
       /\ flights' = [flights EXCEPT ![i].rest = RestAfter(i, works),
                                     ![i].cards = IF works THEN Append(@, f) ELSE @]
  /\ UNCHANGED <<transcript, nextTurn, queued, running, crossed, origin, prompted>>

(* The cards are handed to the session one by one, to go with the next     *)
(* turn.                                                                   *)
MutAtOnce == TRUE
AtOnce == FALSE
AddCard(i) ==
  /\ flights[i].rest = <<>> /\ flights[i].cards # <<>>
  /\ LET card == Card(flights[i].of, Head(flights[i].cards)) IN
       IF AtOnce THEN transcript' = Append(transcript, card) /\ UNCHANGED nextTurn
                 ELSE nextTurn' = Append(nextTurn, card) /\ UNCHANGED transcript
  /\ flights' = [flights EXCEPT ![i].step = "adding", ![i].cards = Tail(@)]
  /\ UNCHANGED <<queued, running, uploads, crossed, origin, dropped, prompted>>

(* session.prompt: a run begins with the question and the cards that wait; *)
(* while one goes on the message is queued.                                *)
Begins(p) ==
  /\ transcript' = Append(transcript, Question(p)) \o nextTurn /\ nextTurn' = <<>>
  /\ running' = TRUE
Sends(i) ==
  /\ flights[i].rest = <<>> /\ flights[i].cards = <<>>
  /\ flights' = WithoutFlight(i)
  /\ IF running
     THEN queued' = Append(queued, flights[i].of) /\ UNCHANGED <<transcript, nextTurn, running>>
     ELSE Begins(flights[i].of) /\ UNCHANGED queued
  /\ crossed' = IF running THEN crossed \cup {flights[i].of} ELSE crossed
  /\ UNCHANGED <<uploads, origin, dropped, prompted>>

(* It throws: a notice says so, and the cards stay for the next turn.      *)
SendFails(i) ==
  /\ flights[i].rest = <<>> /\ flights[i].cards = <<>> /\ ~running
  /\ flights' = WithoutFlight(i)
  /\ crossed' = crossed \cup InFlight
  /\ UNCHANGED <<transcript, nextTurn, queued, running, uploads, origin, dropped, prompted>>

RunEnds ==
  /\ running
  /\ IF queued = <<>>
     THEN /\ running' = FALSE
          /\ transcript' = Append(transcript, [Question(prompted) EXCEPT !.kind = "reply"])
          /\ UNCHANGED <<queued, nextTurn>>
     ELSE Begins(Head(queued)) /\ queued' = Tail(queued)
  /\ UNCHANGED <<flights, uploads, crossed, origin, dropped, prompted>>

-----------------------------------------------------------------------------
(* collectQuestionAttachments: the cards behind the question at k.         *)
MutFirstCardOnly(k) == {j \in {k + 1} : j <= Len(transcript) /\ transcript[j].kind = "file"}
CardsBehind(k) ==
  {j \in k + 1 .. Len(transcript) : \A l \in k + 1 .. j : transcript[l].kind = "file"}
Collected(k) ==
  LET last == k + Cardinality(CardsBehind(k)) IN
    [j \in 1 .. last - k |-> transcript[k + j].file]

(* editMessage: the session is forked in front of the question, which is   *)
(* then prompted with its edited text and its files.                       *)
Edit(k) ==
  /\ transcript[k].kind = "user" /\ ~running /\ flights = <<>>
  /\ prompted < MaxPrompts /\ prompted' = prompted + 1
  /\ flights' = <<Flight(prompted', Collected(k))>>
  /\ origin' = [origin EXCEPT ![prompted'] =
                  {transcript[j].file :
                     j \in {l \in k + 1 .. Len(transcript) :
                              transcript[l].kind = "file" /\ transcript[l].of = transcript[k].of}}]
  /\ transcript' = SubSeq(transcript, 1, k - 1)
  /\ crossed' = IF transcript[k].of \in crossed THEN Crossing(prompted') \cup {prompted'}
                ELSE Crossing(prompted')
  /\ UNCHANGED <<nextTurn, queued, running, uploads, dropped>>

(* cleanupUploads: what is older than the retention goes.                  *)
Sweep ==
  /\ uploads # {} /\ \E f \in uploads : uploads' = uploads \ {f}
  /\ UNCHANGED <<transcript, nextTurn, flights, queued, running, crossed, origin, dropped,
                 prompted>>

FilesNext ==
  \/ \E n \in 0 .. MaxCards : Prompts(n)
  \/ \E i \in 1 .. Len(flights) :
       \/ \E works \in BOOLEAN : ReadFile(i, works)
       \/ AddCard(i) \/ Sends(i) \/ SendFails(i)
  \/ RunEnds \/ Sweep
  \/ \E k \in 1 .. Len(transcript) : Edit(k)

-----------------------------------------------------------------------------
(* A card stands behind its own question, with only cards in between (the  *)
(* comment at question-attachments.ts 4-5), unless its prompt met another  *)
(* one, a run or a failed one.                                             *)
CardsFollow ==
  \A j \in 1 .. Len(transcript) :
    transcript[j].kind = "file" /\ transcript[j].of \notin crossed =>
      \E k \in 1 .. j - 1 : /\ transcript[k] = Question(transcript[j].of)
                            /\ j \in CardsBehind(k)

(* A question that is edited keeps its files, but for those that are gone. *)
EditKeepsFiles ==
  \A k \in 1 .. Len(transcript) :
    transcript[k].kind = "user" /\ transcript[k].of \notin crossed =>
      origin[transcript[k].of]
        \subseteq {transcript[j].file : j \in CardsBehind(k)} \cup dropped[transcript[k].of]
=============================================================================
