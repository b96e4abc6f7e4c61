--------------------------- MODULE SessionHistory ---------------------------
(***************************************************************************)
(* The history of one project: transcripts on disk, opened, renamed and    *)
(* deleted by one client while its chats run, and the list of them that    *)
(* ClientSession pushes from directory scans and a brief cache.  A         *)
(* transcript is named by its file; a chat without one is blank.           *)
(***************************************************************************)
EXTENDS Naturals, FiniteSets

CONSTANTS
  Transcript,   \* transcript files
  MaxScans,     \* bound: directory scans in flight
  MaxRenames    \* bound

NoFile == "none"

VARIABLES
  onDisk,       \* transcripts that exist
  held,         \* transcript -> how a chat of the client holds it
  streamingIn,  \* held transcripts whose chat streams
  openings,     \* transcripts a switch_session is creating a runtime for
  deletion,     \* a deletion that waits: [file, target, phase]
  scans,        \* scans in flight: [at, read]: what the directory held
  listCache,    \* sessionInfosCache: [valid, infos]
  shownList,    \* the list the client has
  named,        \* transcript -> its name on disk
  titled,       \* transcript -> title of the chat that holds it
  renames,
  deleted,      \* transcripts deleted
  crossedScan,  \* a scan was in flight during a deletion
  late          \* transcripts deleted or renamed while one was opening them,
                \* or whose rename did not reach the disk

histVars == <<onDisk, held, streamingIn, openings, deletion, scans, listCache, shownList,
              named, titled, renames, deleted, crossedScan, late>>
chatVars == <<held, streamingIn, openings>>
listVars == <<scans, listCache, shownList>>
nameVars == <<named, titled, renames>>

NoDeletion == [file |-> NoFile, target |-> NoFile, phase |-> "none"]

HistTypeOK ==
  /\ onDisk \cup openings \cup shownList \cup deleted \cup late \subseteq Transcript
  /\ held \in [Transcript -> {"no", "active", "background"}]
  /\ Cardinality({f \in Transcript : held[f] = "active"}) <= 1
  /\ streamingIn \subseteq {f \in Transcript : held[f] # "no"}
  /\ deletion \in [file : Transcript \cup {NoFile}, target : Transcript \cup {NoFile},
                   phase : {"none", "listing", "moving"}]
  /\ scans \in [1 .. MaxScans -> [busy : BOOLEAN, done : BOOLEAN, infos : SUBSET Transcript]]
  /\ listCache \in [valid : BOOLEAN, infos : SUBSET Transcript]
  /\ named \in [Transcript -> 0 .. 1] /\ titled \in [Transcript -> 0 .. 1]
  /\ renames \in 0 .. MaxRenames /\ crossedScan \in BOOLEAN

NoScan == [busy |-> FALSE, done |-> FALSE, infos |-> {}]

HistInit ==
  /\ onDisk = Transcript /\ held = [f \in Transcript |-> "no"]
  /\ streamingIn = {} /\ openings = {} /\ deletion = NoDeletion
  /\ scans = [i \in 1 .. MaxScans |-> NoScan]
  /\ listCache = [valid |-> FALSE, infos |-> {}] /\ shownList = {}
  /\ named = [f \in Transcript |-> 0] /\ titled = named /\ renames = 0
  /\ deleted = {} /\ crossedScan = FALSE /\ late = {}

-----------------------------------------------------------------------------
(* displaceActive: the active chat stays in the background while it streams *)
(* (an open terminal has the same effect), else it is dropped.              *)
Displaced ==
  [f \in Transcript |-> IF held[f] # "active" THEN held[f]
                        ELSE IF f \in streamingIn THEN "background" ELSE "no"]

(* switchSession: a transcript held by a chat is shown by that chat; of     *)
(* another a runtime is created, with the title read now.                   *)
SwitchSession(f) ==
  IF held[f] # "no"
  THEN held' = [Displaced EXCEPT ![f] = "active"] /\ UNCHANGED <<openings, titled>>
  ELSE /\ openings' = openings \cup {f} /\ UNCHANGED held
       /\ titled' = [titled EXCEPT ![f] = named[f]]
OpenSession(f) ==
  /\ f \in onDisk /\ SwitchSession(f)
  /\ UNCHANGED <<onDisk, streamingIn, deletion, listVars, named, renames, deleted,
                 crossedScan, late>>

(* The runtime exists: the active chat is displaced.                        *)
Opened(f) ==
  /\ f \in openings
  /\ openings' = openings \ {f}
  /\ held' = [Displaced EXCEPT ![f] = "active"]
  /\ UNCHANGED <<onDisk, streamingIn, deletion, listVars, nameVars, deleted, crossedScan,
                 late>>

(* Too many open chats, or the runtime could not be created.                *)
OpenFails(f) ==
  /\ f \in openings
  /\ openings' = openings \ {f}
  /\ UNCHANGED <<onDisk, held, streamingIn, deletion, listVars, nameVars, deleted,
                 crossedScan, late>>

(* A blank chat becomes active.                                             *)
NewChat ==
  /\ held' = Displaced
  /\ UNCHANGED <<onDisk, streamingIn, openings, deletion, listVars, nameVars, deleted,
                 crossedScan, late>>

(* A run begins in the active chat; a run of any chat ends.                 *)
Prompt ==
  /\ \E f \in Transcript : held[f] = "active" /\ streamingIn' = streamingIn \cup {f}
  /\ UNCHANGED <<onDisk, held, openings, deletion, listVars, nameVars, deleted,
                 crossedScan, late>>
RunEnds(f) ==
  /\ f \in streamingIn
  /\ streamingIn' = streamingIn \ {f}
  /\ UNCHANGED <<onDisk, held, openings, deletion, listVars, nameVars, deleted,
                 crossedScan, late>>

-----------------------------------------------------------------------------
Free == {i \in 1 .. MaxScans : ~scans[i].busy}
Begun == [scans EXCEPT ![CHOOSE i \in Free : TRUE] = [NoScan EXCEPT !.busy = TRUE]]

(* pushSessions, for a list_sessions or at the end of a run: from the cache *)
(* while it is fresh.                                                       *)
PushSessions ==
  /\ IF listCache.valid THEN shownList' = listCache.infos /\ UNCHANGED scans
     ELSE Free # {} /\ scans' = Begun /\ UNCHANGED shownList
  /\ UNCHANGED <<onDisk, chatVars, deletion, listCache, nameVars, deleted, crossedScan,
                 late>>
ScanReads(i) ==
  /\ scans[i].busy /\ ~scans[i].done
  /\ scans' = [scans EXCEPT ![i].done = TRUE, ![i].infos = onDisk]
  /\ UNCHANGED <<onDisk, chatVars, deletion, listCache, shownList, nameVars, deleted,
                 crossedScan, late>>
ScanEnds(i) ==
  /\ scans[i].busy /\ scans[i].done
  /\ listCache' = [valid |-> TRUE, infos |-> scans[i].infos]
  /\ shownList' = scans[i].infos
  /\ scans' = [scans EXCEPT ![i] = NoScan]
  /\ UNCHANGED <<onDisk, chatVars, deletion, nameVars, deleted, crossedScan, late>>
CacheExpires ==
  /\ listCache.valid
  /\ listCache' = [listCache EXCEPT !.valid = FALSE]
  /\ UNCHANGED <<onDisk, chatVars, deletion, scans, shownList, nameVars, deleted,
                 crossedScan, late>>

-----------------------------------------------------------------------------
MutKeepsCache == listCache
(* invalidateSessionInfos.                                                  *)
Invalidated == [listCache EXCEPT !.valid = FALSE]

(* The transcript is removed, and the list read again.                      *)
Unlink(f) ==
  /\ onDisk' = onDisk \ {f} /\ deleted' = deleted \cup {f}
  /\ crossedScan' = (crossedScan \/ \E i \in 1 .. MaxScans : scans[i].busy)
  /\ late' = IF f \in openings THEN late \cup {f} ELSE late
  /\ listCache' = Invalidated
  /\ IF listCache'.valid THEN shownList' = listCache'.infos /\ UNCHANGED scans
     ELSE Free # {} /\ scans' = Begun /\ UNCHANGED shownList

(* deleteSession: a transcript held in the background stays; one held by    *)
(* the active chat waits for the next chat.                                 *)
Delete(f) ==
  /\ f \in onDisk
  /\ \/ held[f] = "no" /\ Unlink(f) /\ UNCHANGED deletion
     \/ /\ held[f] = "active" /\ deletion = NoDeletion
        /\ deletion' = [file |-> f, target |-> NoFile, phase |-> "listing"]
        /\ UNCHANGED <<onDisk, listVars, deleted, crossedScan, late>>
  /\ UNCHANGED <<chatVars, nameVars>>

(* The scan of SessionManager.list has ended: switch to another transcript, *)
(* or to a blank chat.                                                      *)
DeleteMoves ==
  /\ deletion.phase = "listing"
  /\ LET others == onDisk \ {deletion.file} IN
       \/ /\ others = {}
          /\ held' = Displaced /\ UNCHANGED <<openings, titled>>
          /\ deletion' = [deletion EXCEPT !.phase = "moving"]
       \/ \E g \in others :
            /\ SwitchSession(g)
            /\ deletion' = [deletion EXCEPT !.phase = "moving", !.target = g]
  /\ UNCHANGED <<onDisk, streamingIn, listVars, named, renames, deleted, crossedScan,
                 late>>

MutNoSecondLook(f) == TRUE
(* holdsTarget, looked at again after the switch.                           *)
Released(f) == held[f] = "no"

DeleteEnds ==
  /\ deletion.phase = "moving" /\ deletion.target \notin openings
  /\ deletion' = NoDeletion
  /\ IF Released(deletion.file) /\ deletion.file \in onDisk
     THEN Unlink(deletion.file)
     ELSE UNCHANGED <<onDisk, listVars, deleted, crossedScan, late>>
  /\ UNCHANGED <<chatVars, nameVars>>

-----------------------------------------------------------------------------
MutRetitlesNone(f, n) == titled
(* setConversationTitleForFile.                                             *)
Retitled(f, n) == IF held[f] # "no" THEN [titled EXCEPT ![f] = n] ELSE titled

(* renameSession appends to the transcript, of a chat or not.               *)
RenameSession(f) ==
  /\ renames < MaxRenames /\ renames' = renames + 1
  /\ f \in onDisk
  /\ named' = [named EXCEPT ![f] = 1 - @]
  /\ titled' = Retitled(f, named'[f])
  /\ late' = IF f \in openings THEN late \cup {f} ELSE late
  /\ listCache' = Invalidated
  /\ UNCHANGED <<onDisk, chatVars, deletion, scans, shownList, deleted, crossedScan>>

(* renameConversation: the title, and the transcript as far as possible.    *)
RenameConversation(f, reached) ==
  /\ renames < MaxRenames /\ renames' = renames + 1
  /\ held[f] # "no"
  /\ titled' = [titled EXCEPT ![f] = 1 - @]
  /\ named' = IF reached THEN [named EXCEPT ![f] = titled'[f]] ELSE named
  /\ late' = IF reached THEN late ELSE late \cup {f}
  /\ listCache' = Invalidated
  /\ UNCHANGED <<onDisk, chatVars, deletion, scans, shownList, deleted, crossedScan>>

HistNext ==
  \/ \E f \in Transcript :
       \/ OpenSession(f) \/ Opened(f) \/ OpenFails(f) \/ RunEnds(f) \/ Delete(f)
       \/ RenameSession(f) \/ RenameConversation(f, TRUE) \/ RenameConversation(f, FALSE)
  \/ NewChat \/ Prompt \/ PushSessions \/ CacheExpires \/ DeleteMoves \/ DeleteEnds
  \/ \E i \in 1 .. MaxScans : ScanReads(i) \/ ScanEnds(i)

-----------------------------------------------------------------------------
(* No transcript is deleted under an open chat of the client, though the    *)
(* user may go on working while the deletion moves the active chat away     *)
(* (deleteSession's second look), unless it was being opened just then.     *)
NotUnderAChat ==
  \A f \in Transcript : held[f] # "no" => f \in onDisk \cup late

(* agent-service.ts: "instead of yanking the file out of a live runtime".   *)
NeverUnderAChat ==
  \A f \in Transcript : held[f] # "no" => f \in onDisk

(* A deleted transcript is not listed again, from the cache or by a scan,   *)
(* if no scan was in flight when it was deleted.                            *)
DeletedStaysGone ==
  ~crossedScan /\ (\A i \in 1 .. MaxScans : ~scans[i].busy) => shownList \cap deleted = {}

(* agent-service.ts: "the NEXT listing re-reads the directory instead of    *)
(* serving the pre-mutation snapshot".                                      *)
NextListingIsFresh ==
  (\A i \in 1 .. MaxScans : ~scans[i].busy) => shownList \cap deleted = {}

(* The title of a chat and the name its transcript has agree, whichever of  *)
(* the two was renamed, unless the transcript was being opened or could not *)
(* be written.                                                              *)
TitleIsName ==
  \A f \in onDisk \ late : held[f] # "no" => titled[f] = named[f]
=============================================================================
