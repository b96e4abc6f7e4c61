------------------------------ MODULE Worktrees ------------------------------
(***************************************************************************)
(* One linked worktree of a repository: add_worktree creates it, or finds  *)
(* it, and opens a chat in it; remove_worktree moves the active chat out,  *)
(* closes the idle chats in it and lets git remove the directory.  Both    *)
(* wait for git, and the user goes on meanwhile: switches, prompts, edits. *)
(* A live terminal keeps a chat as a run does.                             *)
(***************************************************************************)
EXTENDS Naturals, FiniteSets

CONSTANTS
  WtChat,       \* chats of the client
  HomeChat,     \* one open in the main checkout at first
  MaxAdds,      \* bound
  MaxRemovals   \* bound

VARIABLES
  present,      \* the worktree is checked out
  locked,       \* git worktree lock
  dirty,        \* it has uncommitted changes
  openChats, place, running, activeIn,   \* chats, where, streaming, the active
  adding,       \* add_worktree: "none", "listed" (it has seen whether the
                \* branch is checked out) or "created"
  sawBranch,    \* what it saw
  removing,     \* remove_worktree: [phase, chats, force, clean]
  adds, removals,
  lostWork,     \* changes went with a worktree
  closedDirty,  \* a removal refused by its own check had closed a chat
  killedAsked,  \* a chat was closed whose run was on when the removal began
  killedLate,   \* one whose run began later
  closedRefused \* a removal that git refused had closed a chat

wtVars == <<present, locked, dirty, openChats, place, running, activeIn, adding,
            sawBranch, removing, adds, removals, lostWork, closedDirty, killedAsked,
            killedLate, closedRefused>>
wtChats == <<openChats, place, running, activeIn>>
ghosts == <<lostWork, closedDirty, killedAsked, killedLate, closedRefused>>

NoRemoval == [phase |-> "none", chats |-> {}, force |-> FALSE, clean |-> FALSE,
              ran |-> {}]

WtTypeOK ==
  /\ {present, locked, dirty, sawBranch, lostWork, closedDirty, killedAsked, killedLate,
      closedRefused} \subseteq BOOLEAN
  /\ activeIn \in openChats /\ running \subseteq openChats /\ openChats \subseteq WtChat
  /\ place \in [WtChat -> {"main", "wt"}]
  /\ adding \in {"none", "listed", "created"}
  /\ removing \in [phase : {"none", "moving", "checking", "checked", "closed"},
                   chats : SUBSET WtChat, force : BOOLEAN, clean : BOOLEAN,
                   ran : SUBSET WtChat]
  /\ adds \in 0 .. MaxAdds /\ removals \in 0 .. MaxRemovals

WtInit ==
  /\ present \in BOOLEAN /\ locked = FALSE /\ dirty = FALSE
  /\ openChats = {HomeChat} /\ activeIn = HomeChat /\ running = {}
  /\ place = [c \in WtChat |-> "main"]
  /\ adding = "none" /\ sawBranch = FALSE /\ removing = NoRemoval
  /\ adds = 0 /\ removals = 0
  /\ lostWork = FALSE /\ closedDirty = FALSE /\ killedAsked = FALSE
  /\ killedLate = FALSE /\ closedRefused = FALSE

-----------------------------------------------------------------------------
(* What the user does meanwhile.  A chat that is left stays open only while *)
(* it runs (displaceActive); a restored one may also stay when it was       *)
(* continued.                                                               *)
Left(next) == {c \in openChats : c # activeIn \/ c \in running \/ c = next}

OpenIn(c, where) ==
  /\ c \notin openChats
  /\ openChats' = Left(c) \cup {c} /\ place' = [place EXCEPT ![c] = where]
  /\ activeIn' = c /\ UNCHANGED running
SwitchTo(c) ==
  /\ c \in openChats \ {activeIn}
  /\ \/ openChats' = Left(c)
     \/ openChats' = openChats
  /\ activeIn' = c /\ UNCHANGED <<place, running>>

UserOpens(c) ==
  /\ \E where \in {"main", "wt"} : (where = "wt" => present) /\ OpenIn(c, where)
  /\ UNCHANGED <<present, locked, dirty, adding, sawBranch, removing, adds, removals,
                 ghosts>>
UserSwitches(c) ==
  /\ SwitchTo(c)
  /\ UNCHANGED <<present, locked, dirty, adding, sawBranch, removing, adds, removals,
                 ghosts>>
UserPrompts ==
  /\ running' = running \cup {activeIn}
  /\ UNCHANGED <<present, locked, dirty, openChats, place, activeIn, adding, sawBranch,
                 removing, adds, removals, ghosts>>
RunOver(c) ==
  /\ c \in running /\ running' = running \ {c}
  /\ UNCHANGED <<present, locked, dirty, openChats, place, activeIn, adding, sawBranch,
                 removing, adds, removals, ghosts>>
(* A run, or any editor, writes; someone commits, locks or unlocks.         *)
Edit ==
  /\ present
  /\ \/ dirty' = ~dirty /\ UNCHANGED locked
     \/ locked' = ~locked /\ UNCHANGED dirty
  /\ UNCHANGED <<present, wtChats, adding, sawBranch, removing, adds, removals, ghosts>>

-----------------------------------------------------------------------------
(* createWorktree: the list of the checkouts, then the refs and a fetch.    *)
Add ==
  /\ adding = "none" /\ adds < MaxAdds /\ adds' = adds + 1
  /\ sawBranch' = present
  /\ adding' = IF present THEN "created" ELSE "listed"
  /\ UNCHANGED <<present, locked, dirty, wtChats, removing, removals, ghosts>>
(* git worktree add: it refuses a branch that is checked out.               *)
GitAdds ==
  /\ adding = "listed"
  /\ IF present THEN adding' = "none" /\ UNCHANGED <<present, locked, dirty>>
     ELSE /\ adding' = "created" /\ present' = TRUE /\ locked' = FALSE /\ dirty' = FALSE
  /\ UNCHANGED <<wtChats, sawBranch, removing, adds, removals, ghosts>>
(* The chat in it, if it can be opened: the directory is looked at again.   *)
AddOpens ==
  /\ adding = "created" /\ adding' = "none"
  /\ \/ present /\ \E c \in WtChat : OpenIn(c, "wt")
     \/ UNCHANGED wtChats
  /\ UNCHANGED <<present, locked, dirty, sawBranch, removing, adds, removals, ghosts>>

-----------------------------------------------------------------------------
InTarget == {c \in openChats : place[c] = "wt"}

MutIgnoresRuns == FALSE
(* A chat in the worktree that runs refuses its removal.                    *)
RunsInTarget == InTarget \cap running # {}

(* The active chat moves first, when it is in the worktree.                 *)
Remove(force) ==
  /\ removing.phase = "none" /\ removals < MaxRemovals /\ removals' = removals + 1
  /\ removing' =
       IF RunsInTarget THEN removing
       ELSE [phase |-> IF activeIn \in InTarget THEN "moving" ELSE "checking",
             chats |-> InTarget, force |-> force, clean |-> FALSE,
             ran |-> InTarget \cap running]
  /\ UNCHANGED <<present, locked, dirty, wtChats, adding, sawBranch, adds, ghosts>>

(* To another chat, or to a blank one in the main checkout; refused when    *)
(* the active chat is still one of them afterwards.                         *)
MovesOut ==
  /\ removing.phase = "moving"
  /\ \/ \E c \in openChats : place[c] # "wt" /\ SwitchTo(c)
     \/ /\ \A c \in openChats : place[c] = "wt"
        /\ \E c \in WtChat : OpenIn(c, "main")
     \/ UNCHANGED wtChats
  /\ removing' = IF activeIn' \in removing.chats THEN NoRemoval
                 ELSE [removing EXCEPT !.phase = "checking"]
  /\ UNCHANGED <<present, locked, dirty, adding, sawBranch, adds, removals, ghosts>>

(* git status, unless the removal is forced.                                *)
DirtyCheck ==
  /\ removing.phase = "checking"
  /\ removing' = [removing EXCEPT !.phase = "checked", !.clean = removing.force \/ ~dirty]
  /\ UNCHANGED <<present, locked, dirty, wtChats, adding, sawBranch, adds, removals,
                 ghosts>>

MutClosesFirst == removing.chats \ {activeIn}
MutClosesActive == IF removing.clean THEN removing.chats ELSE {}
(* removeConversation of each chat found at first, after the check has      *)
(* passed; it leaves the active one.                                        *)
ToClose == IF removing.clean THEN removing.chats \ {activeIn} ELSE {}

CloseChats ==
  /\ removing.phase = "checked"
  /\ LET gone == ToClose \cap openChats IN
       /\ openChats' = openChats \ gone /\ running' = running \ gone
       /\ closedDirty' = (closedDirty \/ (~removing.clean /\ gone # {}))
       /\ killedAsked' = (killedAsked \/ gone \cap running \cap removing.ran # {})
       /\ killedLate' = (killedLate \/ (gone \cap running) \ removing.ran # {})
       /\ removing' = IF removing.clean
                      THEN [removing EXCEPT !.phase = "closed", !.chats = gone]
                      ELSE NoRemoval
  /\ UNCHANGED <<present, locked, dirty, place, activeIn, adding, sawBranch, adds,
                 removals, lostWork, closedRefused>>

MutAlwaysForces == TRUE
(* git worktree remove, with --force or without.                            *)
Forces == removing.force

(* It refuses a locked worktree, and a changed one unless forced.           *)
GitRemoves ==
  /\ removing.phase = "closed" /\ removing' = NoRemoval
  /\ LET refused == ~present \/ locked \/ (dirty /\ ~Forces) IN
       /\ IF refused THEN UNCHANGED <<present, dirty>> ELSE present' = FALSE /\ dirty' = FALSE
       /\ lostWork' = (lostWork \/ (~refused /\ dirty /\ ~removing.force))
       /\ closedRefused' = (closedRefused \/ (refused /\ removing.chats # {}))
  /\ UNCHANGED <<locked, wtChats, adding, sawBranch, adds, removals, closedDirty,
                 killedAsked, killedLate>>

WtNext ==
  \/ \E c \in WtChat : UserOpens(c) \/ UserSwitches(c) \/ RunOver(c)
  \/ UserPrompts \/ Edit \/ Add \/ GitAdds \/ AddOpens
  \/ Remove(TRUE) \/ Remove(FALSE) \/ MovesOut \/ DirtyCheck \/ CloseChats \/ GitRemoves

-----------------------------------------------------------------------------
(* No uncommitted work goes with a worktree whose removal was not forced,   *)
(* though it may be written between the check and git's removal             *)
(* (removeWorktree passes --force only on request).                         *)
WorkKept == ~lostWork

(* A removal that finds uncommitted changes closes no chat (remove_worktree *)
(* checks before it closes).                                                *)
CheckedBeforeClosed == ~closedDirty

(* Removing a worktree closes no chat whose run was on when it was asked    *)
(* for (the refusal of remove_worktree).                                    *)
AskedRunsStay == ~killedAsked

(* agent-service.ts: "A streaming chat or one with live terminals refuses". *)
RunsStay == ~killedAsked /\ ~killedLate

(* agent-service.ts: "a refused removal leaves the user's open chats exactly*)
(* where they were".                                                        *)
RefusalLeavesChats == ~closedRefused /\ ~closedDirty

(* No chat is left in a directory that is gone.                             *)
ChatsHaveDirs == \A c \in openChats : place[c] = "wt" => present
=============================================================================
