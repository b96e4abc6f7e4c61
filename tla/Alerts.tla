------------------------------- MODULE Alerts -------------------------------
(***************************************************************************)
(* Desktop notifications in the browser: every tab of a client gets every  *)
(* notification_event, and shows it only when nobody looks at the tab.     *)
(* The tabs share the switch and the ledger of consumed events through     *)
(* localStorage, and a Web Lock; the switch needs a permission that the    *)
(* browser asks the user for.                                              *)
(***************************************************************************)
EXTENDS Naturals, Sequences, FiniteSets

CONSTANTS
  Page,            \* tabs
  Event,           \* notification events, by their eventId
  LedgerSize,      \* NOTIFY_EVENT_LEDGER_MAX_ENTRIES
  MaxAlertSteps    \* bound: what the user does

VARIABLES
  enabled,     \* the stored switch
  permission,  \* Notification.permission
  ledger,      \* consumed events, the newest at the end
  lock,        \* the tab that holds the lock, and the event it works on
  lockQueue,   \* requests for the lock: [page, event]
  stage,       \* of the tab that holds the lock
  announcedTo, \* event -> tabs it was delivered to
  toasts,      \* notifications shown: [page, event, watched, on]
  watched,     \* page -> it is visible and has the focus
  switchShown, \* page -> the switch in its menu
  prompts,     \* permission requests: [page, kind, current]
  testing,     \* page -> a test waits for its delay
  storageEvents, \* page -> storage events to come
  intent,      \* history: what the user chose last
  crossed,     \* history: he used a tab while another one's request waited
  userSteps

alertVars == <<enabled, permission, ledger, lock, lockQueue, stage, announcedTo, toasts,
               watched, switchShown, prompts, testing, storageEvents, intent, crossed, userSteps>>
settingVars == <<enabled, permission, switchShown, prompts, testing, storageEvents, intent,
                 crossed>>
showVars == <<ledger, lock, lockQueue, stage, announcedTo, toasts>>

NoLock == [page |-> "none", event |-> "none"]
NotifyStages == {"none", "locked", "asking", "fallback"}

AlertTypeOK ==
  /\ enabled \in BOOLEAN /\ permission \in {"default", "granted", "denied"}
  /\ ledger \in Seq(Event) /\ Len(ledger) <= LedgerSize
  /\ lock \in [page : Page, event : Event] \cup {NoLock} /\ stage \in NotifyStages
  /\ lockQueue \in Seq([page : Page, event : Event])
  /\ announcedTo \in [Event -> SUBSET Page]
  /\ toasts \in Seq([page : Page, event : Event, watched : BOOLEAN, on : BOOLEAN])
  /\ watched \in [Page -> BOOLEAN] /\ Cardinality({p \in Page : watched[p]}) <= 1
  /\ switchShown \in [Page -> BOOLEAN] /\ testing \in [Page -> BOOLEAN]
  /\ prompts \in Seq([page : Page, kind : {"toggle", "test"}, current : BOOLEAN])
  /\ storageEvents \in [Page -> Nat] /\ intent \in BOOLEAN /\ crossed \in BOOLEAN
  /\ userSteps \in 0 .. MaxAlertSteps

AlertInit ==
  /\ \E on \in BOOLEAN :
       /\ enabled = on /\ intent = on /\ switchShown = [p \in Page |-> on]
       /\ permission = IF on THEN "granted" ELSE "default"
  /\ ledger = <<>> /\ lock = NoLock /\ lockQueue = <<>> /\ stage = "none"
  /\ announcedTo = [e \in Event |-> {}] /\ toasts = <<>>
  /\ watched = [p \in Page |-> FALSE] /\ prompts = <<>>
  /\ testing = [p \in Page |-> FALSE] /\ storageEvents = [p \in Page |-> 0]
  /\ userSteps = 0 /\ crossed = FALSE

(* The user is slower than a storage event.                                 *)
UserStep ==
  /\ userSteps < MaxAlertSteps /\ userSteps' = userSteps + 1
  /\ \A p \in Page : storageEvents[p] = 0
Chooses(p, on) ==
  /\ UserStep /\ intent' = on
  /\ crossed' = (crossed \/ \E i \in DOMAIN prompts : prompts[i].page # p)
Allowed == enabled /\ permission = "granted"

-----------------------------------------------------------------------------
(* notify: with the switch off nothing happens; otherwise the tab asks for  *)
(* the lock of the ledger.                                                  *)
Deliver(p, e) ==
  /\ p \notin announcedTo[e] /\ announcedTo' = [announcedTo EXCEPT ![e] = @ \cup {p}]
  /\ lockQueue' = IF enabled THEN Append(lockQueue, [page |-> p, event |-> e]) ELSE lockQueue
  /\ UNCHANGED <<ledger, lock, stage, toasts, settingVars, watched, userSteps>>

GrantLock ==
  /\ lockQueue # <<>> /\ lock = NoLock
  /\ lock' = Head(lockQueue) /\ lockQueue' = Tail(lockQueue) /\ stage' = "locked"
  /\ UNCHANGED <<ledger, announcedTo, toasts, settingVars, watched, userSteps>>
Release == lock' = NoLock /\ stage' = "none"

(* consumeEvent: the ledger keeps the newest entries.                       *)
Consumed == {ledger[i] : i \in DOMAIN ledger}
MutForgets(e) == ledger
LedgerAfter(e) ==
  LET l == Append(ledger, e) IN
    IF Len(l) > LedgerSize THEN SubSeq(l, Len(l) - LedgerSize + 1, Len(l)) ELSE l

(* The callback of the lock, up to the await of the registration: the event *)
(* is consumed before the focus decides.                                    *)
Consume ==
  /\ stage = "locked"
  /\ IF Allowed /\ lock.event \notin Consumed
     THEN /\ ledger' = LedgerAfter(lock.event)
          /\ IF watched[lock.page] THEN Release ELSE stage' = "asking" /\ UNCHANGED lock
     ELSE Release /\ UNCHANGED ledger
  /\ UNCHANGED <<lockQueue, announcedTo, toasts, settingVars, watched, userSteps>>

(* showNow after an await: everything is checked again; the service worker  *)
(* shows the notification, or fails, and then the page does.                *)
MutChecksOnce(p) == TRUE
MayDeliver(p) == Allowed /\ ~watched[p]
Toast(p, e) == [page |-> p, event |-> e, watched |-> watched[p], on |-> Allowed]
ShowByWorker(works) ==
  /\ stage = "asking"
  /\ IF ~MayDeliver(lock.page) THEN Release /\ UNCHANGED toasts
     ELSE IF works THEN Release /\ toasts' = Append(toasts, Toast(lock.page, lock.event))
     ELSE stage' = "fallback" /\ UNCHANGED <<lock, toasts>>
  /\ UNCHANGED <<ledger, lockQueue, announcedTo, settingVars, watched, userSteps>>
ShowByPage ==
  /\ stage = "fallback" /\ Release
  /\ toasts' = IF MayDeliver(lock.page) THEN Append(toasts, Toast(lock.page, lock.event)) ELSE toasts
  /\ UNCHANGED <<ledger, lockQueue, announcedTo, settingVars, watched, userSteps>>

-----------------------------------------------------------------------------
(* saveNotifySettings: the other tabs learn of a value that changed.        *)
Save(p, on) ==
  /\ enabled' = on
  /\ storageEvents' = [q \in Page |->
       storageEvents[q] + (IF q # p /\ on # enabled THEN 1 ELSE 0)]
(* intentVersion and testRun go up: what was asked before counts no more.   *)
MutKeepsAsking(p, kinds) == prompts
Superseded(p, kinds) ==
  [i \in DOMAIN prompts |-> IF prompts[i].page = p /\ prompts[i].kind \in kinds
                            THEN [prompts[i] EXCEPT !.current = FALSE] ELSE prompts[i]]

Toggle(p, on) ==
  /\ Chooses(p, on) /\ switchShown[p] # on
  /\ switchShown' = [switchShown EXCEPT ![p] = on] /\ testing' = [testing EXCEPT ![p] = FALSE]
  /\ IF on
     THEN /\ prompts' = Append(Superseded(p, {"toggle", "test"}),
                               [page |-> p, kind |-> "toggle", current |-> TRUE])
          /\ UNCHANGED <<enabled, storageEvents>>
     ELSE prompts' = Superseded(p, {"toggle", "test"}) /\ Save(p, FALSE)
  /\ UNCHANGED <<permission, showVars, watched>>

(* runTest asks too, and switches notifications on.                         *)
RunTest(p) ==
  /\ Chooses(p, TRUE) /\ ~testing[p]
  /\ \A i \in DOMAIN prompts : ~(prompts[i].page = p /\ prompts[i].kind = "test"
                                 /\ prompts[i].current)
  /\ prompts' = Append(prompts, [page |-> p, kind |-> "test", current |-> TRUE])
  /\ UNCHANGED <<enabled, permission, switchShown, testing, storageEvents, showVars, watched>>

(* The browser answers a request: with what is set, or with what the user   *)
(* says.                                                                    *)
PromptAnswered(i) ==
  /\ i <= Len(prompts)
  /\ permission' \in (IF permission = "default" THEN {"granted", "denied"} ELSE {permission})
  /\ prompts' = SubSeq(prompts, 1, i - 1) \o SubSeq(prompts, i + 1, Len(prompts))
  /\ LET q == prompts[i] on == permission' = "granted" IN
       IF ~q.current THEN UNCHANGED <<enabled, storageEvents, switchShown, testing>>
       ELSE IF q.kind = "toggle"
       THEN /\ Save(q.page, on) /\ switchShown' = [switchShown EXCEPT ![q.page] = on]
            /\ UNCHANGED testing
       ELSE /\ testing' = [testing EXCEPT ![q.page] = on]
            /\ IF on /\ ~switchShown[q.page]
               THEN Save(q.page, TRUE) /\ switchShown' = [switchShown EXCEPT ![q.page] = TRUE]
               ELSE UNCHANGED <<enabled, storageEvents, switchShown>>
  /\ UNCHANGED <<intent, crossed, showVars, watched, userSteps>>

TestFires(p) ==
  /\ testing[p] /\ testing' = [testing EXCEPT ![p] = FALSE]
  /\ UNCHANGED <<enabled, permission, switchShown, prompts, storageEvents, intent, crossed,
                 showVars, watched, userSteps>>

(* The storage listener: what the tab asked for before counts no more, and  *)
(* it shows what is stored.                                                 *)
StorageHeard(p) ==
  /\ storageEvents[p] > 0 /\ storageEvents' = [storageEvents EXCEPT ![p] = @ - 1]
  /\ prompts' = Superseded(p, {"toggle", "test"}) /\ testing' = [testing EXCEPT ![p] = FALSE]
  /\ switchShown' = [switchShown EXCEPT ![p] = enabled]
  /\ UNCHANGED <<enabled, permission, intent, crossed, showVars, watched, userSteps>>

(* The user looks at a tab, which reads the switch again, or away.          *)
Looks(p) ==
  /\ UserStep
  /\ IF watched[p] THEN watched' = [watched EXCEPT ![p] = FALSE] /\ UNCHANGED switchShown
     ELSE /\ watched' = [q \in Page |-> q = p]
          /\ switchShown' = [switchShown EXCEPT ![p] = enabled]
  /\ UNCHANGED <<enabled, permission, prompts, testing, storageEvents, intent, crossed,
                 showVars>>

AlertNext ==
  \/ \E p \in Page : RunTest(p) \/ TestFires(p) \/ StorageHeard(p) \/ Looks(p)
       \/ (\E e \in Event : Deliver(p, e)) \/ \E on \in BOOLEAN : Toggle(p, on)
  \/ \E i \in 1 .. MaxAlertSteps : PromptAnswered(i)
  \/ GrantLock \/ Consume \/ ShowByPage \/ \E works \in BOOLEAN : ShowByWorker(works)

-----------------------------------------------------------------------------
(* An event is shown once, by one tab, as long as the ledger did not have   *)
(* to forget it.                                                            *)
ShownOnce ==
  Cardinality(Event) <= LedgerSize =>
    \A i, j \in DOMAIN toasts : i # j => toasts[i].event # toasts[j].event

(* Nothing is shown over a tab the user looks at, or after he switched      *)
(* notifications off, however long the lock and the worker took.            *)
StrictGate == \A i \in DOMAIN toasts : ~toasts[i].watched /\ toasts[i].on

(* Once the permission is given, no request waits and all tabs heard of it, *)
(* the switch is as the user chose last, unless he used another tab before  *)
(* he answered the browser.                                                 *)
LastChoiceHolds ==
  ~crossed /\ permission = "granted" /\ prompts = <<>> /\ (\A p \in Page : storageEvents[p] = 0)
    => enabled = intent

-----------------------------------------------------------------------------
(***************************************************************************)
(* Ways into a chat that end later than they begin: a click on a desktop   *)
(* notification, which may come before the page knows the chat or open the *)
(* page itself with the chat's id in its address, and a click on a search  *)
(* hit, which asks for the chat and jumps to the message once its list is  *)
(* there (web/src/App.tsx, notification-events.ts, MessageList.tsx).       *)
(***************************************************************************)
INSTANCE SequencesExt

CONSTANTS Chat,        \* conversations
          Gone,        \* the id of one that is closed
          HomeChat,    \* the active one at first
          Anchor,      \* role and timestamp of messages
          Holds,       \* chat -> the anchors of its messages
          MaxJumpSteps \* bound: clicks, hands and dropped sockets

VARIABLES roster,   \* the listed conversations of the server
          active,   \* its activeId
          up,       \* the socket is open
          down,     \* messages to the page
          asked,    \* switches on their way to the server
          page,     \* the roster, the chat and the readiness of the page
          url,      \* the chat named in the address of the page
          clicked,  \* pendingNotificationClick
          jump,     \* searchJump: a chat and an anchor in it
          landed,   \* the last jump that was carried out, and what was shown
          gone      \* steps taken, a bound only

jumpVars == <<roster, active, up, down, asked, page, url, clicked, jump,
              landed, gone>>

NoChat == "none"
NoJump == [path |-> NoChat, anchor |-> NoChat]

(* What attachSink and the answer to hello send, in this order             *)
MutReadyFirst == <<[type |-> "ready"], [type |-> "conversations"]>>
Greeting == <<[type |-> "conversations"], [type |-> "ready"]>>
MutNoRoster == <<[type |-> "ready"]>>
Reattached == Greeting

Message(m) == IF m.type = "conversations"
              THEN [type |-> "conversations", ids |-> roster] ELSE m
Sent(msgs) == [k \in DOMAIN msgs |-> Message(msgs[k])]

JumpInit ==
  /\ roster \in {r \in SUBSET Chat : HomeChat \in r}
  /\ active = HomeChat
  /\ up = TRUE
  /\ down = Sent(Greeting)
  /\ asked = << >>
  /\ page = [roster |-> {}, chat |-> NoChat, ready |-> FALSE]
  /\ url \in roster \cup {Gone, NoChat}
  /\ clicked = NoChat
  /\ jump = NoJump
  /\ landed = [meant |-> NoChat, shown |-> NoChat]
  /\ gone = 0

Step == gone < MaxJumpSteps /\ gone' = gone + 1

(* The lists that are offered the jump: the one on the screen alone        *)
MutEveryList(p) == p.roster
Offered(p) == {p.chat}

(* The effects of a render: the page p with a click c, an address u and a  *)
(* jump j.  Each either goes on its way or waits; the click is looked at   *)
(* again when the roster was sent or the chat has changed.                 *)
Carried(p, j) == \E s \in Offered(p) \cap Chat : j.anchor \in Holds[s]
GivenUp(p, j) == p.chat = j.path

ClickGoes(p, c) == c # NoChat /\ c \in p.roster /\ (c = p.chat \/ up)
UrlGoes(p, u) == u # NoChat /\ p.ready
                 /\ (u \notin p.roster \/ u = p.chat \/ up)
Switches(p, x) == IF x \in p.roster /\ x # p.chat THEN <<x>> ELSE << >>

Rendered(p, c, j, look) ==
  /\ page' = p
  /\ clicked' = IF look /\ ClickGoes(p, c) THEN NoChat ELSE c
  /\ url' = IF UrlGoes(p, url) THEN NoChat ELSE url
  /\ asked' = asked
       \o (IF look /\ ClickGoes(p, c) THEN Switches(p, c) ELSE << >>)
       \o (IF UrlGoes(p, url) THEN Switches(p, url) ELSE << >>)
  /\ IF j # NoJump /\ Carried(p, j)
     THEN jump' = NoJump /\ landed' = [meant |-> j.path, shown |-> p.chat]
     ELSE /\ jump' = IF j # NoJump /\ GivenUp(p, j) THEN NoJump ELSE j
          /\ UNCHANGED landed

(* A message of the server reaches the page                                *)
Receive ==
  /\ up /\ down # << >>
  /\ down' = Tail(down)
  /\ UNCHANGED <<roster, active, up, gone>>
  /\ LET m == Head(down)
         p == CASE m.type = "conversations" -> [page EXCEPT !.roster = m.ids]
                [] m.type = "ready"    -> [page EXCEPT !.ready = TRUE]
                [] m.type = "snapshot" -> [page EXCEPT !.chat = m.chat,
                                                       !.ready = TRUE]
     IN Rendered(p, clicked, jump,
                 m.type = "conversations" \/ p.chat # page.chat)

(* switch_conversation and switch_session reach the server; get_state of a *)
(* page that is ready has a snapshot sent as well                          *)
Serve ==
  /\ asked # << >>
  /\ asked' = Tail(asked)
  /\ active' = IF Head(asked) \in roster THEN Head(asked) ELSE active
  /\ down' = Append(down, [type |-> "snapshot", chat |-> active'])
  /\ UNCHANGED <<roster, up, page, url, clicked, jump, landed, gone>>

GetState ==
  /\ up /\ page.ready /\ page.chat # active /\ asked = << >>
  /\ ~\E k \in DOMAIN down : down[k].type = "snapshot"
  /\ down' = Append(down, [type |-> "snapshot", chat |-> active])
  /\ UNCHANGED <<roster, active, up, asked, page, url, clicked, jump, landed,
                 gone>>

(* The reader: a toast, a search hit, a chat by hand                       *)
NotificationClick ==
  /\ Step
  /\ \E c \in roster \cup {Gone} : Rendered(page, c, jump, TRUE)
  /\ UNCHANGED <<roster, active, up, down>>

SearchHit ==
  /\ Step /\ up /\ page.ready /\ asked = << >>
  /\ \E s \in roster, a \in Anchor :
       /\ a \in Holds[s]
       /\ UNCHANGED <<roster, active, up, down>>
       /\ page' = page /\ url' = url /\ clicked' = clicked
       /\ asked' = IF s = page.chat THEN << >> ELSE <<s>>
       /\ IF Carried(page, [path |-> s, anchor |-> a])
          THEN jump' = NoJump /\ landed' = [meant |-> s, shown |-> page.chat]
          ELSE jump' = [path |-> s, anchor |-> a] /\ UNCHANGED landed

(* Fifteen seconds later the jump is forgotten                             *)
JumpExpires == /\ jump # NoJump /\ jump' = NoJump
               /\ UNCHANGED <<roster, active, up, down, asked, page, url,
                              clicked, landed, gone>>

(* A chat is closed by another tab: every page hears of it                 *)
Close ==
  /\ Step
  /\ \E c \in roster \ {active} : roster' = roster \ {c}
  /\ down' = IF up THEN Append(down, [type |-> "conversations",
                                      ids |-> roster']) ELSE down
  /\ UNCHANGED <<active, up, asked, page, url, clicked, jump, landed>>

(* The socket drops with what is on its way, and comes back                *)
Drop == /\ Step /\ up
        /\ up' = FALSE /\ down' = << >> /\ asked' = << >>
        /\ page' = [page EXCEPT !.ready = FALSE]
        /\ UNCHANGED <<roster, active, url, clicked, jump, landed>>

Reconnect == /\ ~up
             /\ up' = TRUE
             /\ down' = Sent(Reattached)
             /\ UNCHANGED <<roster, active, asked, page, url, clicked, jump,
                            landed, gone>>

JumpNext == \/ Receive \/ Serve \/ GetState \/ NotificationClick \/ SearchHit
            \/ JumpExpires \/ Close \/ Drop \/ Reconnect

-----------------------------------------------------------------------------
JumpTypeOK ==
  /\ active \in roster /\ roster \subseteq Chat
  /\ page.roster \subseteq Chat /\ page.chat \in Chat \cup {NoChat}
  /\ url \in Chat \cup {Gone, NoChat} /\ clicked \in Chat \cup {Gone, NoChat}
  /\ jump = NoJump \/ jump.anchor \in Holds[jump.path]

(* "Wait for the roster before validating it": an address that names a     *)
(* chat which is still open is not thrown away unread.                     *)
AddressHonoured ==
  [][url # NoChat /\ url' = NoChat /\ url \in roster =>
       url = page'.chat \/ Contains(asked', url)]_jumpVars

(* A click on a toast whose chat the page knows does not lie about once    *)
(* the socket is back and everything sent has been read.                   *)
ClickNotForgotten ==
  up /\ down = << >> /\ clicked # NoChat => clicked \notin page.roster

(* A search hit is jumped to in the chat it was found in, on the screen.   *)
(* (Of chats that share messages, as forks do, the one on the screen takes *)
(* the jump whichever was meant.)                                          *)
JumpIsSeen == landed.shown = landed.meant
=============================================================================
