---------------------------- MODULE SlashCommands ----------------------------
(***************************************************************************)
(* The commands the server runs itself when a prompt begins with a slash   *)
(* (server/slash-commands.ts): /new, /model and /reload wait for something *)
(* and then speak of "the session", which is the one on the screen by      *)
(* then.  The catalogue the page offers is that of the chat on the screen. *)
(***************************************************************************)
EXTENDS Naturals, FiniteSets

CONSTANTS Chat,         \* conversations there may be
          HomeChat,     \* the one open at first
          MaxOpen,      \* MAX_OPEN_CONVERSATIONS
          MaxVersions,  \* bound: edits of the templates on disk
          MaxSlashSteps \* bound: commands and switches

VARIABLES open,     \* the open conversations
          written,  \* those with messages
          active,   \* activeId
          disk,     \* the version of templates and extensions on disk
          offers,   \* chat -> the version its runtime has loaded
          ungated,  \* chats whose switched-off tools are back
          running,  \* commands that wait, with the chat they were typed in
          shown,    \* the catalogue of the page: a chat and a version
          strayed,  \* what a command did to another chat than it meant
          crossed,  \* another chat came up while a command waited
          typed     \* steps taken, a bound only

slashVars == <<open, written, active, disk, offers, ungated, running, shown,
               strayed, crossed, typed>>

Waiting(cmd) == {r \in running : r.cmd = cmd}
Catalogue(c) == [chat |-> c, version |-> offers'[c]]

SlashInit ==
  /\ open = {HomeChat}
  /\ written \in SUBSET {HomeChat}
  /\ active = HomeChat
  /\ disk = 1
  /\ offers = [c \in Chat |-> 1]
  /\ ungated = {}
  /\ running = {}
  /\ shown = [chat |-> HomeChat, version |-> 1]
  /\ strayed = {}
  /\ crossed = FALSE
  /\ typed = 0

Step == typed < MaxSlashSteps /\ typed' = typed + 1

Stray(what, meant, did) == strayed' = IF meant = did THEN strayed
                                      ELSE strayed \cup {what}

(* /new <prompt> when the chat on the screen is blank, or another one is:  *)
(* the prompt goes there at once                                           *)
Blank == open \ written

NewInBlank ==
  /\ Step
  /\ Blank # {}
  /\ active' \in IF active \in Blank THEN {active} ELSE Blank
  /\ written' = written \cup {active'}
  /\ crossed' = (crossed \/ (active' # active /\ running # {}))
  /\ UNCHANGED <<open, disk, offers, ungated, running, strayed>>
  /\ shown' = Catalogue(active')

(* The cap of open chats: newChat reports false and nothing is sent        *)
MutSendsAnyway(ready) == TRUE
MaySend(ready) == ready

NewRefused ==
  /\ Step
  /\ Blank = {} /\ Cardinality(open) >= MaxOpen
  /\ IF MaySend(FALSE) THEN Stray("prompt", "a blank chat", active)
                       ELSE UNCHANGED strayed
  /\ UNCHANGED <<open, written, active, disk, offers, ungated, running, shown,
                 crossed>>

(* A runtime is made; it loads what is on disk and its chat is the active  *)
(* one before the bind is over                                             *)
NewStarts ==
  /\ Step
  /\ Blank = {} /\ Cardinality(open) < MaxOpen /\ Waiting("new") = {}
  /\ \E c \in Chat \ open :
        running' = running \cup {[cmd |-> "new", chat |-> c]}
  /\ UNCHANGED <<open, written, active, disk, offers, ungated, shown, strayed,
                 crossed>>

NewCreated(r) ==
  /\ r.cmd = "new" /\ r.chat \notin open
  /\ open' = open \cup {r.chat}
  /\ active' = r.chat
  /\ offers' = [offers EXCEPT ![r.chat] = disk]
  /\ crossed' = (crossed \/ running # {r})
  /\ UNCHANGED <<written, disk, ungated, running, shown, strayed, typed>>

NewFails(r) ==
  /\ r.cmd = "new" /\ r.chat \notin open
  /\ running' = running \ {r}
  /\ UNCHANGED <<open, written, active, disk, offers, ungated, shown, strayed,
                 crossed, typed>>

(* The bind is over: the catalogue goes out and the prompt to the session  *)
(* that is active now                                                      *)
MutOldCatalogue == shown
PushedAfterNew == Catalogue(active)

NewBound(r) ==
  /\ r.cmd = "new" /\ r.chat \in open
  /\ running' = running \ {r}
  /\ written' = written \cup {active}
  /\ Stray("prompt", r.chat, active)
  /\ UNCHANGED <<open, active, disk, offers, ungated, crossed, typed>>
  /\ shown' = PushedAfterNew

(* /model <name>: the list of models is awaited, then setModel takes the   *)
(* session that is active                                                  *)
ModelStarts ==
  /\ Step
  /\ Waiting("model") = {}
  /\ running' = running \cup {[cmd |-> "model", chat |-> active]}
  /\ UNCHANGED <<open, written, active, disk, offers, ungated, shown, strayed,
                 crossed>>

ModelListed(r) ==
  /\ r.cmd = "model"
  /\ running' = running \ {r}
  /\ Stray("model", r.chat, active)
  /\ UNCHANGED <<open, written, active, disk, offers, ungated, shown, crossed,
                 typed>>

(* /reload: the session loads everything again, which puts the tools that  *)
(* are switched off back; then afterReload gates the session that is       *)
(* active and its catalogue is pushed                                      *)
ReloadStarts ==
  /\ Step
  /\ Waiting("reload") = {}
  /\ running' = running \cup {[cmd |-> "reload", chat |-> active]}
  /\ UNCHANGED <<open, written, active, disk, offers, ungated, shown, strayed,
                 crossed>>

MutLeavesUngated(r) == ungated \cup {r.chat}
AfterReload(r) == (ungated \cup {r.chat}) \ {active}

Reloaded(r) ==
  /\ r.cmd = "reload"
  /\ running' = running \ {r}
  /\ offers' = [offers EXCEPT ![r.chat] = disk]
  /\ ungated' = AfterReload(r)
  /\ UNCHANGED <<open, written, active, disk, strayed, crossed, typed>>
  /\ shown' = Catalogue(active)

(* switchConversation, and its catalogue                                   *)
Switch ==
  /\ Step
  /\ \E c \in open \ {active} : active' = c
  /\ crossed' = (crossed \/ running # {})
  /\ UNCHANGED <<open, written, disk, offers, ungated, running, strayed>>
  /\ shown' = Catalogue(active')

EditDisk == /\ disk < MaxVersions
            /\ disk' = disk + 1
            /\ UNCHANGED <<open, written, active, offers, ungated, running,
                           shown, strayed, crossed, typed>>

SlashNext ==
  \/ NewInBlank \/ NewRefused \/ NewStarts \/ ModelStarts \/ ReloadStarts
  \/ Switch \/ EditDisk
  \/ \E r \in running : \/ NewCreated(r) \/ NewFails(r) \/ NewBound(r)
                        \/ ModelListed(r) \/ Reloaded(r)

-----------------------------------------------------------------------------
SlashTypeOK ==
  /\ open \subseteq Chat /\ active \in open /\ written \subseteq open
  /\ disk \in 1..MaxVersions
  /\ offers \in [Chat -> 1..disk]
  /\ ungated \subseteq open
  /\ running \subseteq [cmd : {"new", "model", "reload"}, chat : Chat]
  /\ strayed \subseteq {"prompt", "model"}

(* A command acts on the chat it was typed in, or on the blank chat it     *)
(* made: "sending anyway would drop the text into the conversation the     *)
(* user was already in".  It holds while no other chat comes up meanwhile.  *)
NothingStraysInPlace == ~crossed => strayed = {}

(* The same without the condition: a reader who switches while /new boots  *)
(* or /model lists has the prompt, or the model, in the other chat.        *)
NothingStrays == strayed = {}

(* With no command waiting, the page offers what the chat on the screen    *)
(* can run, as its runtime has it loaded.                                  *)
CatalogueOfTheChat ==
  running = {} => shown = [chat |-> active, version |-> offers[active]]

(* A tool that is switched off stays off after /reload, as long as the     *)
(* chat that reloads stays on the screen.                                  *)
OffStaysOff == ~crossed => ungated = {}
=============================================================================
