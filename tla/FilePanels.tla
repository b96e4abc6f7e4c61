----------------------------- MODULE FilePanels -----------------------------
(***************************************************************************)
(* The file panel: a tab asks for the listing of one directory, the        *)
(* server reads it, watches it and says when it changed; the tab polls     *)
(* besides.  Listings are read concurrently and end in any order; a        *)
(* workspace switch overtakes them.  The content of a directory is a       *)
(* number: the last event that changed it.                                 *)
(***************************************************************************)
EXTENDS Naturals, Sequences, FiniteSets

CONSTANTS
  TreeTab,       \* tabs of the client
  Workspace, HomeWorkspace,
  MaxTreeEvents  \* bound: navigations, switches and changes on disk

Root == "root"
Sub == "sub"                     \* a directory below the root
Folder == {Root, Sub}
NoFolder == "none"
Gone == MaxTreeEvents + 1       \* the content of a directory that is gone

VARIABLES
  content,      \* workspace -> folder -> its content
  recursive,    \* the platform watches trees
  sessionCwd,   \* workspace of the session
  watched,      \* [ws, at]: what is watched, at the folder listed last
  notice,       \* a debounced file_changed: the folder it began with
  reads,        \* listings being read: [ws, at, seen]
  answers,      \* tab -> messages on the wire to it
  panel,        \* tab -> [cwd, path, files, loading]
  happened       \* what the user and the disk did

treeVars == <<content, recursive, sessionCwd, watched, notice, reads, answers, panel,
              happened>>

Unread == Gone + 1
NoWatch == [ws |-> HomeWorkspace, at |-> NoFolder]
NoFiles == [ws |-> HomeWorkspace, at |-> NoFolder, seen |-> Unread]

TreeTypeOK ==
  /\ content \in [Workspace -> [Folder -> 0 .. Gone]]
  /\ recursive \in BOOLEAN /\ sessionCwd \in Workspace
  /\ watched \in [ws : Workspace, at : Folder \cup {NoFolder}]
  /\ notice \in Folder \cup {NoFolder}
  /\ reads \in Seq([ws : Workspace, at : Folder, seen : 0 .. Unread])
  /\ \A t \in TreeTab :
       /\ panel[t].cwd \in Workspace /\ panel[t].path \in Folder
       /\ panel[t].loading \in BOOLEAN
       /\ panel[t].files \in [ws : Workspace, at : Folder \cup {NoFolder},
                              seen : 0 .. Unread]
  /\ happened \in 0 .. MaxTreeEvents

TreeInit ==
  /\ content = [w \in Workspace |-> [d \in Folder |-> 0]]
  /\ recursive \in BOOLEAN /\ sessionCwd = HomeWorkspace
  /\ watched = NoWatch /\ notice = NoFolder /\ reads = <<>>
  /\ answers = [t \in TreeTab |-> <<>>]
  /\ panel = [t \in TreeTab |-> [cwd |-> HomeWorkspace, path |-> Root,
                                 files |-> NoFiles, loading |-> FALSE]]
  /\ happened = 0

-----------------------------------------------------------------------------
ToAll(m) == [t \in TreeTab |-> Append(answers[t], m)]
Changed(d) == [kind |-> "changed", ws |-> sessionCwd, at |-> d, seen |-> Unread]

(* listFiles begins: the root is resolved at once.                          *)
Reading(d) == Append(reads, [ws |-> sessionCwd, at |-> d, seen |-> Unread])
WithoutRead(i) == SubSeq(reads, 1, i - 1) \o SubSeq(reads, i + 1, Len(reads))

(* readdir.                                                                 *)
ReadDir(i) ==
  /\ reads[i].seen = Unread
  /\ reads' = [reads EXCEPT ![i].seen = content[reads[i].ws][reads[i].at]]
  /\ UNCHANGED <<content, recursive, sessionCwd, watched, notice, answers, panel, happened>>

(* unwatchDir: nothing is watched, no notice is on its way.                 *)
MutKeepsTimer(w) == notice
TimerAfter(w) == IF w = watched THEN notice ELSE NoFolder

(* watchDir, of the workspace the session has now where trees are watched.  *)
WatchAfter(r) ==
  IF recursive THEN [ws |-> sessionCwd, at |-> r.at] ELSE [ws |-> r.ws, at |-> r.at]
Rewatch(r) ==
  LET w == WatchAfter(r) IN
    /\ watched' = w
    /\ notice' = IF recursive /\ watched.at # NoFolder /\ watched.ws = w.ws
                 THEN notice ELSE TimerAfter(w)

(* The answer, and the watch of a directory that could be read.             *)
ListEnds(i) ==
  /\ reads[i].seen # Unread
  /\ IF reads[i].seen = Gone THEN UNCHANGED <<watched, notice>> ELSE Rewatch(reads[i])
  /\ answers' = ToAll([kind |-> "files", ws |-> reads[i].ws, at |-> reads[i].at,
                       seen |-> reads[i].seen])
  /\ reads' = WithoutRead(i)
  /\ UNCHANGED <<content, recursive, sessionCwd, panel, happened>>

(* The debounce of the watcher ends.                                        *)
Announce ==
  /\ notice # NoFolder /\ notice' = NoFolder
  /\ answers' = ToAll(Changed(watched.at))
  /\ UNCHANGED <<content, recursive, sessionCwd, watched, reads, panel, happened>>

-----------------------------------------------------------------------------
(* Whether the watcher sees a change of the folders ds.                     *)
Sees(w, ds) ==
  /\ watched.at # NoFolder /\ watched.ws = w
  /\ recursive \/ watched.at \in ds
NoticeAfter(w, ds) == IF Sees(w, ds) /\ notice = NoFolder THEN watched.at ELSE notice

TreeStep == happened < MaxTreeEvents /\ happened' = happened + 1

(* Something is created in or removed from d.                               *)
DiskChanges(w, d) ==
  /\ TreeStep /\ content[w][d] # Gone
  /\ content' = [content EXCEPT ![w][d] = happened']
  /\ notice' = NoticeAfter(w, {d})
  /\ UNCHANGED <<recursive, sessionCwd, watched, reads, answers, panel>>

(* Sub goes, which may end the watch of it.                                 *)
SubGoes(w) ==
  /\ TreeStep /\ content[w][Sub] # Gone
  /\ content' = [content EXCEPT ![w][Root] = happened', ![w][Sub] = Gone]
  /\ \/ notice' = NoticeAfter(w, Folder) /\ UNCHANGED watched
     \/ /\ ~recursive /\ watched = [ws |-> w, at |-> Sub]
        /\ watched' = NoWatch /\ notice' = NoFolder
  /\ UNCHANGED <<recursive, sessionCwd, reads, answers, panel>>

(* uploadFile, which creates the directory it needs and sends a notice of   *)
(* its own.                                                                 *)
Upload(d) ==
  /\ TreeStep
  /\ LET changed == IF content[sessionCwd][d] = Gone THEN Folder ELSE {d} IN
       /\ content' = [content EXCEPT ![sessionCwd] =
                        [e \in Folder |-> IF e \in changed THEN happened' ELSE @[e]]]
       /\ notice' = NoticeAfter(sessionCwd, changed)
  /\ answers' = ToAll(Changed(d))
  /\ UNCHANGED <<recursive, sessionCwd, watched, reads, panel>>

(* followWorkspace: the tab is told, and the new root is listed.            *)
SwitchWorkspace(w) ==
  /\ w # sessionCwd /\ TreeStep
  /\ sessionCwd' = w
  /\ reads' = Append(reads, [ws |-> w, at |-> Root, seen |-> Unread])
  /\ answers' = ToAll([kind |-> "cwd", ws |-> w, at |-> Root, seen |-> Unread])
  /\ UNCHANGED <<content, recursive, watched, notice, panel>>

-----------------------------------------------------------------------------
(* request of the panel: silent ones keep what is shown.                    *)
Requests(t, d, silent) ==
  /\ reads' = Reading(d)
  /\ panel' = [panel EXCEPT ![t].path = d, ![t].loading = @ \/ ~silent]

Navigate(t, d) ==
  /\ TreeStep
  /\ Requests(t, d, FALSE)
  /\ UNCHANGED <<content, recursive, sessionCwd, watched, notice, answers>>

MutPollsOnce(t) == panel[t].files = NoFiles
(* The poll of the directory shown, every ten seconds; as a bound, when     *)
(* nothing is under way.                                                    *)
Polls(t) == TRUE
Poll(t) ==
  /\ Polls(t) /\ reads = <<>> /\ answers[t] = <<>>
  /\ Requests(t, panel[t].path, TRUE)
  /\ UNCHANGED <<content, recursive, sessionCwd, watched, notice, answers, happened>>

(* The messages as the panel takes them: a listing, which counts while its  *)
(* path is the one asked for; a change of the directory shown, which is     *)
(* listed again; another workspace, whose root is.                          *)
Receive(t) ==
  /\ answers[t] # <<>>
  /\ answers' = [answers EXCEPT ![t] = Tail(@)]
  /\ LET m == Head(answers[t]) IN
       CASE m.kind = "files" ->
              /\ panel' = [panel EXCEPT
                             ![t].files = [ws |-> m.ws, at |-> m.at, seen |-> m.seen],
                             ![t].loading = @ /\ m.at # panel[t].path]
              /\ UNCHANGED reads
         [] m.kind = "changed" /\ m.at = panel[t].path -> Requests(t, m.at, TRUE)
         [] m.kind = "changed" /\ m.at # panel[t].path -> UNCHANGED <<panel, reads>>
         [] m.kind = "cwd" ->
              /\ reads' = Reading(Root)
              /\ panel' = [panel EXCEPT ![t].cwd = m.ws, ![t].path = Root]
  /\ UNCHANGED <<content, recursive, sessionCwd, watched, notice, happened>>

TreeNext ==
  \/ \E i \in 1 .. Len(reads) : ReadDir(i) \/ ListEnds(i)
  \/ Announce
  \/ \E w \in Workspace : SwitchWorkspace(w) \/ SubGoes(w) \/ \E d \in Folder : DiskChanges(w, d)
  \/ \E d \in Folder : Upload(d)
  \/ \E t \in TreeTab : Poll(t) \/ Receive(t) \/ \E d \in Folder : Navigate(t, d)

-----------------------------------------------------------------------------
(* What the tab shows is the directory it names, of the workspace of the    *)
(* session, as it is.                                                       *)
Fresh(t) ==
  panel[t].files = [ws |-> sessionCwd, at |-> panel[t].path,
                    seen |-> content[sessionCwd][panel[t].path]]

(* Once the user and the disk rest, the panel of a single tab shows the     *)
(* directory it is in as it is, and without its spinner, whatever listings  *)
(* overtook each other and whatever changed between a read and its watch:   *)
(* the poll of RightPanel makes up for it.                                  *)
PanelCatchesUp == \A t \in TreeTab : <>[](Fresh(t) /\ ~panel[t].loading)

(* A notice that waits is about the directory that is watched: a switch of  *)
(* the watch takes it along (unwatchDir clears the timer).                  *)
NoticeOfWatched == ~recursive => notice \in {NoFolder, watched.at}

-----------------------------------------------------------------------------
(***************************************************************************)
(* The source control panel: queries of the panel run git concurrently on  *)
(* the server and are matched by their request id to a slot per kind; a    *)
(* watch of the git directory, a poll and the end of a git command in a    *)
(* terminal make the panel ask again.  What a repository holds is a        *)
(* number, 0 for a directory that is none.                                 *)
(***************************************************************************)
CONSTANTS
  Repo, HomeRepo,      \* workspaces
  Tracked, Untracked,  \* the files listed
  MaxScmEvents         \* bound: what the user, git and the network do

NoRepo == "none"
Unseen == MaxScmEvents + 2
Kinds == {"status", "filediff"}
NoId == 0
Ids == 1 .. 6                 \* names of requests under way
NoShown == [of |-> NoRepo, seen |-> Unseen]
NoFile == "none"
NoDiff == [named |-> NoFile, patch |-> NoFile, of |-> NoRepo]

VARIABLES
  holds,        \* repository -> what it holds
  active,       \* workspace of the active conversation
  gitWatcher, gitWatchCwd, gitDirtyTimer,
  arming,       \* watchGitDir calls at their await
  unowned,      \* watchers nobody holds any more
  scmAsks,      \* queries on the wire: [kind, id, file]
  running,      \* queries whose git runs: [kind, id, file, of, seen]
  scmWire,      \* messages to the panel
  scmData,      \* the answer in the store whose effect has not run, or none
  lastCwd,      \* workspace the panel knows of
  shown,        \* [of, seen], the status
  slot, busy, scmError,
  selectedFile, fileDiff, diffLoading,
  scmEvents,
  raced,        \* history: a watch was dropped or started during another's await
  hurried       \* history: the diff awaited was overtaken by another selection

scmVars == <<holds, active, gitWatcher, gitWatchCwd, gitDirtyTimer, arming, unowned, scmAsks,
             running, scmWire, scmData, lastCwd, shown, slot, busy,
             scmError, selectedFile, fileDiff, diffLoading, scmEvents, raced, hurried>>
repoVars == <<holds, active>>
watchVars == <<gitWatcher, gitWatchCwd, gitDirtyTimer, arming, unowned, raced>>
panelVars == <<lastCwd, shown, slot, busy, scmError, selectedFile, fileDiff,
               diffLoading, hurried>>

NoAnswer == [kind |-> "none", id |-> NoId, file |-> NoFile, of |-> NoRepo, seen |-> Unseen]
Files == Tracked \cup Untracked

ScmTypeOK ==
  /\ holds \in [Repo -> 0 .. Unseen] /\ active \in Repo
  /\ Len(arming) <= 4 /\ gitWatcher \in Repo \cup {NoRepo} /\ gitWatchCwd \in Repo \cup {NoRepo}
  /\ gitDirtyTimer \in BOOLEAN /\ arming \in Seq(Repo) /\ unowned \subseteq Repo
  /\ slot \in [Kinds -> Ids \cup {NoId}]
  /\ shown \in [of : Repo \cup {NoRepo}, seen : 0 .. Unseen]
  /\ lastCwd \in Repo
  /\ busy \in BOOLEAN /\ scmError \in BOOLEAN /\ diffLoading \in BOOLEAN
  /\ selectedFile \in Files \cup {NoFile}
  /\ fileDiff \in [named : Files \cup {NoFile}, patch : Files \cup {NoFile},
                   of : Repo \cup {NoRepo}]
  /\ scmEvents \in 0 .. MaxScmEvents

ScmInit ==
  /\ holds = [r \in Repo |-> IF r = HomeRepo THEN 1 ELSE 0] /\ active = HomeRepo
  /\ gitWatcher = NoRepo /\ gitWatchCwd = NoRepo /\ gitDirtyTimer = FALSE
  /\ arming = <<>> /\ unowned = {} /\ raced = FALSE
  /\ scmAsks = <<[kind |-> "status", id |-> 1, file |-> NoFile]>>
  /\ running = {} /\ scmWire = <<>> /\ scmData = NoAnswer
  /\ lastCwd = HomeRepo /\ shown = NoShown
  /\ slot = [k \in Kinds |-> IF k = "status" THEN 1 ELSE NoId]
  /\ busy = TRUE /\ scmError = FALSE
  /\ selectedFile = NoFile /\ fileDiff = NoDiff /\ diffLoading = FALSE /\ hurried = FALSE
  /\ scmEvents = 0

ScmStep == scmEvents < MaxScmEvents /\ scmEvents' = scmEvents + 1

-----------------------------------------------------------------------------
(* unwatchGit, and watchGitDir up to its await: a second call for the same  *)
(* workspace starts over while the first one waits.                         *)
MutLeavesOpen == <<gitWatcher, NoRepo>>
Unwatched == <<NoRepo, NoRepo>>
UnwatchGit ==
  /\ gitWatcher' = Unwatched[1] /\ gitWatchCwd' = Unwatched[2] /\ gitDirtyTimer' = FALSE
  /\ raced' = (raced \/ arming # <<>>)
  /\ UNCHANGED <<arming, unowned>>
WatchGitDir(r) ==
  IF gitWatchCwd = r /\ gitWatcher # NoRepo
  THEN UNCHANGED watchVars
  ELSE /\ gitWatcher' = NoRepo /\ gitWatchCwd' = r /\ gitDirtyTimer' = FALSE
       /\ arming' = Append(arming, r) /\ raced' = (raced \/ arming # <<>>)
       /\ UNCHANGED unowned

(* gitDirOf answers: the new watcher takes the place of whatever is there.  *)
GitDirKnown(i) ==
  /\ i <= Len(arming)
  /\ arming' = SubSeq(arming, 1, i - 1) \o SubSeq(arming, i + 1, Len(arming))
  /\ IF holds[arming[i]] = 0 THEN UNCHANGED <<gitWatcher, unowned>>
     ELSE gitWatcher' = arming[i] /\ unowned' = (unowned \cup {gitWatcher}) \ {NoRepo}
  /\ UNCHANGED <<repoVars, gitWatchCwd, gitDirtyTimer, scmAsks, running, scmWire, scmData,
                 panelVars, scmEvents, raced>>

(* scmQuery begins.                                                         *)
Query ==
  /\ scmAsks # <<>> /\ scmAsks' = Tail(scmAsks)
  /\ LET q == Head(scmAsks) IN
       /\ IF q.kind = "status" THEN WatchGitDir(active) ELSE UNCHANGED watchVars
       /\ running' = running \cup {[kind |-> q.kind, id |-> q.id, file |-> q.file,
                                 of |-> active, seen |-> holds[active]]}
  /\ UNCHANGED <<repoVars, scmWire, scmData, panelVars, scmEvents>>

(* The one answer of a query, as the repository was when git began or is    *)
(* now: data, "not a repository", or, when git ran into its timeout, an     *)
(* error.                                                                   *)
Answer(kind, q, seen) == [kind |-> kind, id |-> q.id, file |-> q.file, of |-> q.of, seen |-> seen]
QueryEnds(q) ==
  /\ running' = running \ {q}
  /\ \E seen \in {q.seen, holds[q.of]} :
       /\ scmWire' = Append(scmWire, Answer(IF seen = 0 THEN "notRepo" ELSE q.kind, q, seen))
       /\ IF seen = 0 THEN UnwatchGit ELSE UNCHANGED watchVars
  /\ UNCHANGED <<repoVars, scmAsks, scmData, panelVars, scmEvents>>
QueryFails(q) ==
  /\ ScmStep /\ running' = running \ {q}
  /\ scmWire' = Append(scmWire, Answer("error", q, Unseen)) /\ UNCHANGED watchVars
  /\ UNCHANGED <<repoVars, scmAsks, scmData, panelVars>>

ScmChanged ==
  /\ gitDirtyTimer /\ gitDirtyTimer' = FALSE
  /\ scmWire' = Append(scmWire, [NoAnswer EXCEPT !.kind = "changed"])
  /\ UNCHANGED <<repoVars, gitWatcher, gitWatchCwd, arming, unowned, raced, scmAsks, running,
                 scmData, panelVars, scmEvents>>

-----------------------------------------------------------------------------
(* A repository changes, which its watchers may miss; a command of the      *)
(* panel that ends in its terminal makes the panel ask again.               *)
RepoChanges(r, byPanel) ==
  /\ ScmStep /\ holds' = [holds EXCEPT ![r] = scmEvents' + 1]
  /\ \/ r \in {gitWatcher} \cup unowned /\ gitDirtyTimer' = TRUE
     \/ UNCHANGED gitDirtyTimer
  /\ scmWire' = IF byPanel THEN Append(scmWire, [NoAnswer EXCEPT !.kind = "ended"]) ELSE scmWire
  /\ UNCHANGED <<active, gitWatcher, gitWatchCwd, arming, unowned, raced, scmAsks, running,
                 scmData, panelVars>>

SwitchRepo(r) ==
  /\ ScmStep /\ r # active /\ active' = r
  /\ UnwatchGit
  /\ scmWire' = Append(scmWire, [NoAnswer EXCEPT !.kind = "cwd", !.of = r])
  /\ UNCHANGED <<holds, scmAsks, running, scmData, panelVars>>

-----------------------------------------------------------------------------
(* sendScm: a number that is not under way, and the slot of the kind.       *)
InUse ==
  {slot[k] : k \in Kinds} \cup {scmData.id} \cup {scmWire[i].id : i \in DOMAIN scmWire}
  \cup {q.id : q \in running} \cup {scmAsks[i].id : i \in DOMAIN scmAsks}
NewId(used) == CHOOSE i \in Ids : i \notin used /\ \A j \in Ids \ used : i <= j
MutFirstSlot(k, id) == IF slot[k] = NoId THEN id ELSE slot[k]
SlotAfter(k, id) == id
Send(k, f) ==
  LET id == NewId(InUse) IN
    /\ Ids \ InUse # {}
    /\ scmAsks' = Append(scmAsks, [kind |-> k, id |-> id, file |-> f])
    /\ slot' = [slot EXCEPT ![k] = SlotAfter(k, id)]

(* refresh: another workspace than the one of the last refresh first clears *)
(* what is shown of it.                                                     *)
Refresh(r, silent) ==
  LET id == NewId(InUse) IN
    /\ Ids \ InUse # {}
    /\ scmAsks' = Append(scmAsks, [kind |-> "status", id |-> id, file |-> NoFile])
    /\ slot' = [slot EXCEPT !["status"] = id]
    /\ lastCwd' = r /\ scmError' = FALSE /\ busy' = (busy \/ ~silent) /\ UNCHANGED selectedFile
    /\ IF r # lastCwd
       THEN /\ shown' = NoShown /\ fileDiff' = NoDiff
            /\ hurried' = (hurried \/ slot["filediff"] # NoId)
       ELSE UNCHANGED <<shown, fileDiff, hurried>>

(* showFileDiff: an untracked file needs no query.                          *)
ShowFileDiff(f) ==
  /\ ScmStep /\ shown.of # NoRepo /\ f # selectedFile /\ selectedFile' = f
  /\ IF f \in Untracked
     THEN /\ fileDiff' = [named |-> f, patch |-> NoFile, of |-> lastCwd]
          /\ hurried' = (hurried \/ slot["filediff"] # NoId)
          /\ UNCHANGED <<scmAsks, slot, diffLoading, scmError>>
     ELSE /\ Send("filediff", f) /\ diffLoading' = TRUE /\ scmError' = FALSE
          /\ UNCHANGED <<fileDiff, hurried>>
  /\ UNCHANGED <<repoVars, watchVars, running, scmWire, scmData, lastCwd, shown,
                 busy>>

(* The messages as the reducer takes them.  An answer replaces the one whose *)
(* effect has not run yet.                                                  *)
MessageArrives ==
  /\ scmWire # <<>> /\ scmWire' = Tail(scmWire)
  /\ LET m == Head(scmWire) IN
       \/ /\ m.kind = "cwd" /\ Refresh(m.of, FALSE)
          /\ UNCHANGED <<scmData, diffLoading>>
       \/ /\ m.kind \in {"changed", "ended"} /\ Refresh(lastCwd, TRUE)
          /\ UNCHANGED <<scmData, diffLoading>>
       \/ /\ m.kind \notin {"cwd", "changed", "ended"}
          /\ scmData' = m
          /\ UNCHANGED <<scmAsks, panelVars>>
  /\ UNCHANGED <<repoVars, watchVars, running, scmEvents>>

(* applyScmData, by the slot whose request it answers.                      *)
Applies(k) == scmData # NoAnswer /\ slot[k] # NoId /\ slot[k] = scmData.id
StatusSet ==
  /\ Applies("status") /\ busy' = FALSE
  /\ scmError' = (scmData.kind = "error")
  /\ shown' = IF scmData.kind = "error" THEN shown
              ELSE [of |-> scmData.of, seen |-> scmData.seen]
  /\ fileDiff' = IF scmData.kind = "notRepo" THEN NoDiff ELSE fileDiff
  /\ slot' = [slot EXCEPT !["status"] = NoId]
  /\ UNCHANGED <<scmAsks, diffLoading>>
DiffSet ==
  /\ Applies("filediff") /\ slot' = [slot EXCEPT !["filediff"] = NoId]
  /\ diffLoading' = FALSE
  /\ scmError' = (scmData.kind = "error" \/ scmError)
  /\ fileDiff' = IF scmData.kind = "error" \/ selectedFile = NoFile THEN fileDiff
                 ELSE [named |-> selectedFile, patch |-> scmData.file, of |-> scmData.of]
  /\ UNCHANGED <<scmAsks, busy, shown>>
NobodyAsked ==
  /\ scmData # NoAnswer /\ \A k \in Kinds : slot[k] # scmData.id
  /\ UNCHANGED <<scmAsks, slot, busy, scmError, shown, fileDiff, diffLoading>>
ApplyScmData ==
  /\ StatusSet \/ DiffSet \/ NobodyAsked
  /\ scmData' = NoAnswer
  /\ UNCHANGED <<repoVars, watchVars, running, scmWire, lastCwd, selectedFile, scmEvents,
                 hurried>>

(* The poll, every 30 seconds; as a bound, when nothing is under way.       *)
MutPollsWhileBusy == busy
ScmPolls == TRUE
ScmPoll ==
  /\ ScmPolls /\ arming = <<>> /\ scmAsks = <<>> /\ running = {} /\ scmWire = <<>>
  /\ scmData = NoAnswer
  /\ Refresh(lastCwd, TRUE)
  /\ UNCHANGED <<repoVars, watchVars, running, scmWire, scmData, diffLoading,
                 scmEvents>>

(* The connection breaks and comes back: what was on the wire is gone, and  *)
(* the panel refreshes.                                                     *)
Reconnects ==
  /\ ScmStep /\ scmWire' = <<>>
  /\ running' = {}
  /\ Refresh(active, FALSE)
  /\ UNCHANGED <<repoVars, watchVars, scmData, diffLoading>>

ScmNext ==
  \/ \E i \in 1 .. 4 : GitDirKnown(i)
  \/ \E q \in running : QueryEnds(q) \/ QueryFails(q)
  \/ Query \/ ScmChanged \/ MessageArrives \/ ApplyScmData \/ ScmPoll \/ Reconnects
  \/ \E r \in Repo : SwitchRepo(r) \/ \E byPanel \in BOOLEAN : RepoChanges(r, byPanel)
  \/ \E f \in Files : ShowFileDiff(f)

-----------------------------------------------------------------------------
(* Once everybody rests, the panel shows the repository of the active       *)
(* workspace as it is, without its spinner and without an error, although   *)
(* answers overtake each other, get lost with the connection or are         *)
(* replaced in the store before the panel saw them, and although the watch  *)
(* misses changes: the poll makes up for it.                                *)
RepoCatchesUp ==
  <>[](shown = [of |-> active, seen |-> holds[active]] /\ ~busy)

(* While no two calls of the watch overlap there is one watcher, of the     *)
(* workspace it is registered for: a switch closes the old one, and nothing *)
(* fires across projects.                                                   *)
WatcherOfWorkspace == ~raced => unowned = {} /\ gitWatcher \in {NoRepo, gitWatchCwd}

(* Unless another selection overtook the query, the patch in the pane is of *)
(* the file and the workspace it is shown under.                            *)
PatchOfItsFile ==
  ~hurried /\ fileDiff.patch # NoFile => fileDiff.patch = fileDiff.named

(* SCMPanel.tsx, refresh: "reset stale selections so nothing from the       *)
(* previous repo leaks into the new one".                                   *)
NothingLeaks == fileDiff.of \in {NoRepo, lastCwd}
=============================================================================
