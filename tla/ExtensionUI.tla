---------------------------- MODULE ExtensionUI ----------------------------
(***************************************************************************)
(* The bridge from an extension's user interface to the page               *)
(* (server/webui-context.ts): one WebUIContext per client holds the        *)
(* widgets and the open dialogs, a ConversationStatuses keeps the footer   *)
(* of every chat apart, and uiContextFor hands each chat's extensions a    *)
(* proxy that says who is speaking (agent-service.ts).  A widget is drawn  *)
(* by the extension at any moment and only looked at when it is polled;    *)
(* a page keeps the last message of each kind (use-chat.ts).               *)
(***************************************************************************)
EXTENDS Naturals, Sequences, FiniteSets

CONSTANTS Chat,          \* the open conversations
          HomeChat,      \* the one that is shown at first
          Text,          \* what a footer may say
          Drawn,         \* what a widget may draw: some of it is in colour
          Colourless(_), \* stripAnsi: the drawn text without its escapes
          MaxDialogs,    \* bound: dialogs an extension opens
          AtOnce,        \* how many of them may wait at the same time
          MaxUISteps     \* bound: what extensions and the reader do

VARIABLES active,    \* activeId
          footers,   \* ConversationStatuses: chat -> the text of its one key
          drawing,   \* what the extension's widget draws just now
          widgetOn,  \* is the widget registered?
          lastLines, \* the lines it was last compared with
          pending,   \* pendingDialogs: the ids that wait, with their chats
          dialogSeq, \* the last id given
          wire,      \* what the server has sent and the page has not read
          online,    \* the socket: the first one, none, or a later one
          page,      \* what the page shows: footer, widget and one dialog
          did        \* steps taken, a bound only

uiVars == <<active, footers, drawing, widgetOn, lastLines, pending, dialogSeq,
            wire, online, page, did>>

Nothing == "nothing"
NoDialog == 0
Up == online # "down"
Send(msgs) == wire' = IF Up THEN wire \o msgs ELSE wire

FooterMsg(c) == [type |-> "statuses", text |-> footers'[c]]
WidgetMsg(on, lines) == [type |-> "widgets",
                         text |-> IF on THEN Colourless(lines) ELSE Nothing]

UIInit ==
  /\ active = HomeChat
  /\ footers = [c \in Chat |-> Nothing]
  /\ drawing \in Drawn
  /\ widgetOn = FALSE
  /\ lastLines = Nothing
  /\ pending = {}
  /\ dialogSeq = 0
  /\ wire = << >>
  /\ online = "first"
  /\ page = [footer |-> Nothing, widget |-> Nothing, dialog |-> NoDialog]
  /\ did = 0

Step == did < MaxUISteps /\ did' = did + 1

(* setStatus through the proxy of chat c: recorded in that chat's own map  *)
(* and sent only when the chat is the one on the screen                    *)
MutOverwrites(c) == <<FooterMsg(c)>>
EmittedBy(c) == IF c = active THEN <<FooterMsg(c)>> ELSE << >>

SetConvStatus(c) ==
  /\ Step
  /\ \E t \in Text \cup {Nothing} : footers' = [footers EXCEPT ![c] = t]
  /\ Send(EmittedBy(c))
  /\ UNCHANGED <<active, drawing, widgetOn, lastLines, pending, dialogSeq,
                 online, page>>

(* A push renders every widget again and remembers the clean lines         *)
Push(on, lines) == /\ widgetOn' = on
                   /\ lastLines' = IF on THEN Colourless(lines) ELSE Nothing
                   /\ Send(<<WidgetMsg(on, lines)>>)

SetWidget ==
  /\ Step
  /\ \E on \in BOOLEAN : Push(on, drawing)
  /\ UNCHANGED <<active, footers, drawing, pending, dialogSeq, online, page>>

(* An extension redraws without a word: the page learns of it by the poll  *)
Redraw == /\ Step
          /\ \E d \in Drawn \ {drawing} : drawing' = d
          /\ UNCHANGED <<active, footers, widgetOn, lastLines, pending,
                         dialogSeq, wire, online, page>>

(* refresh compares what is drawn with the lines remembered; the poll runs *)
(* every WIDGET_REFRESH_MS, here once the page has read what came before   *)
Changed == widgetOn /\ drawing # lastLines

Refresh == /\ Changed /\ wire = << >>
           /\ Push(TRUE, drawing)
           /\ UNCHANGED <<active, footers, drawing, pending, dialogSeq,
                          online, page, did>>

(* switchConversation inside one workspace: the widgets are looked at and  *)
(* the footer of the chat that comes up is replayed                        *)
SwitchConversation(c) ==
  /\ Step /\ c # active
  /\ active' = c
  /\ UNCHANGED <<footers, drawing, widgetOn, pending, dialogSeq, online, page>>
  /\ LET redrawn == IF Changed THEN <<WidgetMsg(TRUE, drawing)>> ELSE << >>
     IN Send(redrawn \o <<FooterMsg(c)>>)
  /\ lastLines' = IF Changed THEN Colourless(drawing) ELSE lastLines

(* bindSession of the chat on the screen: a new runtime may load other     *)
(* extensions, so the footer starts empty                                  *)
BindSession ==
  /\ Step
  /\ footers' = [footers EXCEPT ![active] = Nothing]
  /\ Send(<<FooterMsg(active)>>)
  /\ UNCHANGED <<active, drawing, widgetOn, lastLines, pending, dialogSeq,
                 online, page>>

(* select, confirm and input: the extension waits until somebody answers   *)
OpenDialog(c) ==
  /\ dialogSeq < MaxDialogs /\ Cardinality(pending) < AtOnce
  /\ dialogSeq' = dialogSeq + 1
  /\ pending' = pending \cup {[id |-> dialogSeq + 1, chat |-> c]}
  /\ Send(<<[type |-> "dialog", id |-> dialogSeq + 1]>>)
  /\ UNCHANGED <<active, footers, drawing, widgetOn, lastLines, online, page,
                 did>>

(* The reader answers the dialog the page shows; a second click may go     *)
(* out before dialog_closed is back, and resolveDialog ignores it          *)
ResolveDialog ==
  /\ Up
  /\ \E d \in pending :
        /\ d.id = page.dialog
        /\ pending' = pending \ {d}
        /\ Send(<<[type |-> "dialog_closed", id |-> d.id]>>)
  /\ UNCHANGED <<active, footers, drawing, widgetOn, lastLines, dialogSeq,
                 online, page, did>>

(* The page: one slot per kind, and dialog_closed empties its slot         *)
(* whichever dialog it names                                               *)
MutKeepsClosed(msg) ==
  CASE msg.type = "statuses" -> [page EXCEPT !.footer = msg.text]
    [] msg.type = "widgets"  -> [page EXCEPT !.widget = msg.text]
    [] msg.type = "dialog"   -> [page EXCEPT !.dialog = IF @ = NoDialog
                                                        THEN msg.id ELSE @]
    [] OTHER                 -> page
Applied(msg) ==
  CASE msg.type = "statuses"      -> [page EXCEPT !.footer = msg.text]
    [] msg.type = "widgets"       -> [page EXCEPT !.widget = msg.text]
    [] msg.type = "dialog"        -> [page EXCEPT !.dialog = msg.id]
    [] msg.type = "dialog_closed" -> [page EXCEPT !.dialog = NoDialog]

Receive == /\ Up /\ wire # << >>
           /\ page' = Applied(Head(wire))
           /\ wire' = Tail(wire)
           /\ UNCHANGED <<active, footers, drawing, widgetOn, lastLines,
                          pending, dialogSeq, online, did>>

(* The socket goes and comes back: attachSink replays the widgets, when    *)
(* there are any, and the footer, but no dialog                            *)
Lose == /\ Up /\ Step
        /\ online' = "down"
        /\ wire' = << >>
        /\ UNCHANGED <<active, footers, drawing, widgetOn, lastLines, pending,
                       dialogSeq, page>>

MutReplaysFooterOnly == <<FooterMsg(active)>>
Replayed == (IF widgetOn THEN <<WidgetMsg(TRUE, drawing)>> ELSE << >>)
            \o <<FooterMsg(active)>>

AttachSink ==
  /\ ~Up
  /\ online' = "again"
  /\ UNCHANGED <<active, footers, drawing, widgetOn, pending, dialogSeq, page,
                 did>>
  /\ lastLines' = IF widgetOn THEN Colourless(drawing) ELSE lastLines
  /\ wire' = Replayed

UINext == \/ \E c \in Chat : SetConvStatus(c) \/ SwitchConversation(c)
                             \/ OpenDialog(c)
          \/ SetWidget \/ Redraw \/ Refresh \/ BindSession
          \/ ResolveDialog \/ Receive \/ Lose \/ AttachSink

-----------------------------------------------------------------------------
UITypeOK ==
  /\ active \in Chat
  /\ footers \in [Chat -> Text \cup {Nothing}]
  /\ drawing \in Drawn
  /\ widgetOn \in BOOLEAN /\ online \in {"first", "down", "again"}
  /\ page.footer \in Text \cup {Nothing}
  /\ page.widget \in {Nothing} \cup {Colourless(d) : d \in Drawn}
  /\ page.dialog \in 0..dialogSeq
  /\ pending \subseteq [id : 1..dialogSeq, chat : Chat]

Settled == Up /\ wire = << >>

(* Issue #116: once everything sent has been read, the footer under the    *)
(* chat says what that chat's own extensions said last, whatever the       *)
(* others said meanwhile and however often the reader switched, rebound or *)
(* reconnected.                                                            *)
FooterOfTheChat == Settled => page.footer = footers[active]

(* The lines the server compares a widget with are the lines the page      *)
(* shows: a poll that finds nothing new has nothing to send.  (Of a widget *)
(* that went away while the socket was down the page keeps the lines.)     *)
ShownIsCompared == Settled /\ widgetOn => page.widget = lastLines

(* Until it reconnects, the page shows the dialog an extension waits on,   *)
(* so the wait can end, as long as extensions ask one at a time.           *)
WaitIsShown == Settled /\ online = "first" =>
                 \A d \in pending : page.dialog = d.id

(* What the comment on refresh says: it pushes when the content changed.   *)
(* A coloured widget is pushed at every poll.                              *)
QuietWhenSame == [][Refresh => lastLines' # lastLines]_uiVars

=============================================================================
