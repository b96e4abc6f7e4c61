---------------------------- MODULE ProjectList -----------------------------
(***************************************************************************)
(* The recent projects of one client: the list and the tombstones that     *)
(* client-state.json keeps, the scan that merges them with the directories *)
(* the transcripts name and folds linked worktrees into their repository,  *)
(* and what the left panel of the browser shows.  Scans run concurrently:  *)
(* each reads the saved list when it starts and pushes when it ends.       *)
(***************************************************************************)
EXTENDS Naturals, Sequences, FiniteSets

CONSTANTS
  Dir,           \* directories, as the user or a transcript spells them
  KeyOf,         \* Dir -> Dir: the spelling cwdKey folds it to
  MainOf,        \* Dir -> Dir: the main checkout of its repository, or NoDir
  NoDir,         \* no directory
  DefaultDir,    \* the workspace the server was started in
  Scan,          \* scans that can be under way at once
  MaxKept,       \* the saved list is cut to this many entries (30)
  MaxEvents      \* bound: what the user and the disk do

VARIABLES
  saved,         \* ClientState.projects, the most recent first
  tombs,         \* ClientState.removedProjects
  lastCwd,       \* ClientState.lastCwd
  here,          \* the workspace of the session
  written,       \* directories with transcripts
  gone,          \* directories that do not exist now
  scan,          \* scan -> what it read and what it still has to do
  shown,         \* the projects the browser shows
  nested,        \* the checkouts it shows under them
  listing,       \* directories it holds a non-empty session list of
  asks,          \* directories it asked the session list of
  events,
  wanted,        \* directories opened as projects by the user
  restored,      \* directories made projects when a session was restored
  visited,       \* directories that were the workspace after their last removal
  overtaken      \* a scan or a request was under way at a change of the list

projVars == <<saved, tombs, lastCwd, here, written, gone, scan, shown, nested, listing,
              asks, events, wanted, restored, visited, overtaken>>

Keys(dirs) == {KeyOf[d] : d \in dirs}
Elems(s) == {s[i] : i \in 1 .. Len(s)}
Idle == [at |-> "idle", saved |-> {}, tombs |-> {}, found |-> {}, lists |-> {},
         echo |-> NoDir]

ProjTypeOK ==
  /\ saved \in UNION {[1 .. n -> Dir] : n \in 0 .. MaxKept}
  /\ tombs \subseteq Dir /\ lastCwd \in Dir \cup {NoDir} /\ here \in Dir
  /\ written \subseteq Dir /\ gone \subseteq Dir
  /\ scan \in [Scan -> [at : {"idle", "reads", "emits", "lists"}, saved : SUBSET Dir,
                        tombs : SUBSET Dir, found : SUBSET Dir, lists : SUBSET Dir,
                        echo : Dir \cup {NoDir}]]
  /\ shown \subseteq Dir /\ nested \subseteq Dir /\ listing \subseteq Dir
  /\ asks \subseteq Dir /\ events \in 0 .. MaxEvents
  /\ wanted \subseteq Dir /\ restored \subseteq Dir /\ overtaken \in BOOLEAN
  /\ visited \subseteq Dir

ProjInit ==
  /\ saved = <<DefaultDir>> /\ tombs = {} /\ lastCwd = DefaultDir /\ here = DefaultDir
  /\ written \in {{}, Dir} /\ gone = {}
  /\ scan = [s \in Scan |-> Idle]
  /\ shown = {} /\ nested = {} /\ listing = {} /\ asks = {}
  /\ events = 0 /\ wanted = {} /\ restored = {DefaultDir} /\ overtaken = FALSE
  /\ visited = {DefaultDir}

Event == events < MaxEvents /\ events' = events + 1
Quiet == asks = {} /\ \A s \in Scan : scan[s].at = "idle"
Overtakes == overtaken' = (overtaken \/ ~Quiet)

-----------------------------------------------------------------------------
MutKeepsTomb(d, asProject) ==
  /\ lastCwd' = d
  /\ IF asProject
     THEN LET rest == SelectSeq(saved, LAMBDA p : p # d) IN
            /\ saved' = SubSeq(<<d>> \o rest, 1, IF Len(rest) < MaxKept THEN Len(rest) + 1
                                                 ELSE MaxKept)
            /\ UNCHANGED tombs
     ELSE UNCHANGED <<saved, tombs>>
(* ClientStateStore.remember: spellings are compared exactly.               *)
Remember(d, asProject) ==
  /\ lastCwd' = d
  /\ IF asProject
     THEN LET rest == SelectSeq(saved, LAMBDA p : p # d) IN
            /\ saved' = SubSeq(<<d>> \o rest, 1, IF Len(rest) < MaxKept THEN Len(rest) + 1
                                                 ELSE MaxKept)
            /\ tombs' = tombs \ {d}
     ELSE UNCHANGED <<saved, tombs>>

(* pushProjects: the saved list and the tombstones are read before the scan *)
(* of the transcripts is awaited.  removeProject empties the listing of the *)
(* directory it removed when its own scan has ended.                        *)
PushProjects(s, list, stones, echo) ==
  /\ scan[s].at = "idle"
  /\ scan' = [scan EXCEPT ![s] = [at |-> "reads", saved |-> Keys(Elems(list)),
                                  tombs |-> Keys(stones), found |-> {}, lists |-> {},
                                  echo |-> echo]]

(* followWorkspace and setCwd, with or without the mark of a project: a     *)
(* chat opened in another directory takes the workspace along.              *)
Follow(s, d, asProject) ==
  /\ Event /\ Overtakes /\ d \notin gone
  /\ here' = d
  /\ Remember(d, asProject)
  /\ PushProjects(s, saved', tombs', NoDir)
  /\ asks' = asks \cup {KeyOf[d]}
  /\ wanted' = IF asProject THEN wanted \cup {KeyOf[d]} ELSE wanted
  /\ visited' = visited \cup {KeyOf[d]}
  /\ UNCHANGED <<written, gone, shown, nested, listing, restored>>

(* removeProject: a project the panel shows.                                *)
RemoveProject(s, d) ==
  /\ Event /\ Overtakes /\ KeyOf[d] \in shown
  /\ saved' = SelectSeq(saved, LAMBDA p : p # d)
  /\ lastCwd' = IF lastCwd = d THEN NoDir ELSE lastCwd
  /\ tombs' = tombs \cup {d}
  /\ PushProjects(s, saved', tombs', d)
  /\ wanted' = wanted \ {KeyOf[d]} /\ restored' = restored \ {KeyOf[d]}
  /\ visited' = IF KeyOf[d] = KeyOf[here] THEN visited ELSE visited \ {KeyOf[d]}
  /\ UNCHANGED <<here, written, gone, shown, nested, listing, asks>>

(* The panel asks for the projects.                                         *)
ListProjects(s) ==
  /\ Event
  /\ PushProjects(s, saved, tombs, NoDir)
  /\ UNCHANGED <<saved, tombs, lastCwd, here, written, gone, shown, nested, listing, asks,
                 wanted, restored, visited, overtaken>>

(* pendingSessionCwds: the sessions of a directory it shows a project of.   *)
AskSessions(k) ==
  /\ k \in nested \ listing /\ k \notin asks
  /\ asks' = asks \cup {k}
  /\ overtaken' = (overtaken \/ \E s \in Scan : scan[s].echo # NoDir)
  /\ UNCHANGED <<saved, tombs, lastCwd, here, written, gone, scan, shown, nested, listing,
                 events, wanted, restored, visited>>

(* pushSessions of a request: the directory is read and echoed.             *)
Sessions(k) ==
  /\ k \in asks /\ asks' = asks \ {k}
  /\ listing' = IF k \in Keys(written) THEN listing \cup {k} ELSE listing \ {k}
  /\ UNCHANGED <<saved, tombs, lastCwd, here, written, gone, scan, shown, nested, events,
                 wanted, restored, visited, overtaken>>

-----------------------------------------------------------------------------
(* SessionManager.listAll answers.                                          *)
ScanReads(s) ==
  /\ scan[s].at = "reads"
  /\ scan' = [scan EXCEPT ![s].at = "emits", ![s].found = Keys(written)]
  /\ UNCHANGED <<saved, tombs, lastCwd, here, written, gone, shown, nested, listing, asks,
                 events, wanted, restored, visited, overtaken>>

MutOwnGroup(k) == k
(* A repository root is folded into its main checkout.                      *)
GroupOf(k) == IF MainOf[k] = NoDir \/ k \in gone THEN k ELSE KeyOf[MainOf[k]]
(* Every checkout of the repository; itself outside git.                    *)
Checkouts(k) == IF MainOf[k] = NoDir THEN {k}
                ELSE {w \in Keys(Dir) : MainOf[w] # NoDir /\ KeyOf[MainOf[w]] = k} \ gone

MutPromotesAll(r) == r.saved \cup r.found
(* Saved directories, and repositories with sessions.                       *)
Candidates(r) ==
  r.saved \cup {k \in r.found : MainOf[k] # NoDir /\ k \notin gone}

MutShowsRemoved(r) == {GroupOf(k) : k \in Candidates(r)} \ gone
(* The groups, without the removed ones and those that are gone.            *)
Projects(r) == {GroupOf(k) : k \in Candidates(r)} \ (r.tombs \cup gone)

(* The projects are pushed; the sessions of every other directory follow.   *)
ScanEmits(s) ==
  /\ scan[s].at = "emits"
  /\ shown' = Projects(scan[s])
  /\ nested' = UNION {Checkouts(g) : g \in Projects(scan[s])}
  /\ scan' = [scan EXCEPT ![s].at = "lists",
                          ![s].lists = scan[s].found \ (nested' \cup scan[s].tombs)]
  /\ UNCHANGED <<saved, tombs, lastCwd, here, written, gone, listing, asks, events,
                 wanted, restored, visited, overtaken>>

MutNoEcho(lists, k) == lists
(* The empty echo of removeProject.                                         *)
Emptied(lists, d) == IF d = NoDir THEN lists ELSE lists \ {KeyOf[d]}

(* refreshSessions of the detached directories, one after the other.        *)
ScanLists(s, k) ==
  /\ scan[s].at = "lists" /\ k \in scan[s].lists
  /\ scan' = [scan EXCEPT ![s].lists = @ \ {k}]
  /\ listing' = IF k \in Keys(written) THEN listing \cup {k} ELSE listing \ {k}
  /\ UNCHANGED <<saved, tombs, lastCwd, here, written, gone, shown, nested, asks, events,
                 wanted, restored, visited, overtaken>>

ScanEnds(s) ==
  /\ scan[s].at = "lists" /\ scan[s].lists = {}
  /\ listing' = Emptied(listing, scan[s].echo)
  /\ scan' = [scan EXCEPT ![s] = Idle]
  /\ UNCHANGED <<saved, tombs, lastCwd, here, written, gone, shown, nested, asks, events,
                 wanted, restored, visited, overtaken>>

-----------------------------------------------------------------------------
(* A chat of this workspace has its first transcript.                       *)
Writes ==
  /\ Event /\ here \notin written
  /\ written' = written \cup {here}
  /\ UNCHANGED <<saved, tombs, lastCwd, here, gone, scan, shown, nested, listing, asks,
                 wanted, restored, visited, overtaken>>

(* A directory is deleted or unmounted, or comes back.                      *)
DiskChanges(d) ==
  /\ Event /\ d # here /\ KeyOf[d] = d
  /\ gone' = IF d \in gone THEN gone \ {d} ELSE gone \cup {d}
  /\ overtaken' = TRUE
  /\ UNCHANGED <<saved, tombs, lastCwd, here, written, scan, shown, nested, listing, asks,
                 wanted, restored, visited>>

(* The server restarts, and the tab attaches: the workspace it used last, or *)
(* the default one.  The browser keeps its lists until it is sent new ones.  *)
Restart ==
  /\ Event
  /\ LET d == IF lastCwd # NoDir /\ KeyOf[lastCwd] \notin gone THEN lastCwd ELSE DefaultDir IN
       /\ here' = d /\ Remember(d, TRUE)
       /\ restored' = restored \cup {KeyOf[d]} /\ visited' = visited \cup {KeyOf[d]}
  /\ scan' = [s \in Scan |-> Idle] /\ asks' = {}
  /\ overtaken' = TRUE
  /\ UNCHANGED <<written, gone, shown, nested, listing, wanted>>

ProjNext ==
  \/ \E s \in Scan, d \in Dir, p \in BOOLEAN : Follow(s, d, p)
  \/ \E s \in Scan, d \in Dir : RemoveProject(s, d)
  \/ \E s \in Scan : ListProjects(s) \/ ScanReads(s) \/ ScanEmits(s) \/ ScanEnds(s)
  \/ \E s \in Scan, k \in Dir : ScanLists(s, k)
  \/ \E k \in Dir : AskSessions(k) \/ Sessions(k)
  \/ Writes \/ Restart
  \/ \E d \in Dir : DiskChanges(d)

-----------------------------------------------------------------------------
(* When nothing is under way, a project the user removed is not shown, its  *)
(* transcripts notwithstanding, and its chats are not among the recent ones *)
(* unless it was the workspace since (removeProject), if nothing overtook.  *)
RemovedHidden ==
  Quiet /\ ~overtaken =>
    \A d \in tombs : /\ KeyOf[d] \notin shown
                     /\ KeyOf[d] \notin visited => KeyOf[d] \notin listing

(* The same, whatever overtakes: violated, a scan that started before the   *)
(* removal shows the project again.                                         *)
RemovedHiddenAlways == Quiet => \A d \in tombs : KeyOf[d] \notin shown

(* When nothing is under way, the workspace is shown while it is among the  *)
(* saved projects, removed and opened again or not (followWorkspace).       *)
OpenedShown ==
  Quiet /\ ~overtaken /\ here \in Elems(saved) /\ shown # {}
        /\ GroupOf(KeyOf[here]) = KeyOf[here] => KeyOf[here] \in shown

(* left-panel: "A linked git worktree is never a project of its own".       *)
WorktreesFold == \A k \in shown : MainOf[k] = NoDir \/ KeyOf[MainOf[k]] = k

(* A directory outside git is shown as a project only when the user opened  *)
(* it as one or a session was restored there.                               *)
OnlyOpened ==
  Quiet /\ ~overtaken =>
    \A k \in shown : MainOf[k] = NoDir => k \in wanted \cup restored

(* client-state.ts: "must not turn a random shell directory into a sidebar  *)
(* project": violated, a restart remembers the workspace as a project.      *)
ShellStaysShell == \A k \in restored : k = DefaultDir \/ k \in wanted

(* agent-service.ts: the chats of a removed project "don't resurface under  *)
(* Recents": violated, those of its linked worktrees do.                    *)
RecentsQuiet ==
  Quiet /\ ~overtaken =>
    \A d \in tombs, k \in listing \ nested :
      KeyOf[d] \notin visited /\ k \notin visited /\ MainOf[k] # NoDir
        => KeyOf[MainOf[k]] # KeyOf[d]
=============================================================================
