----------------------------- MODULE FilePreview -----------------------------
(***************************************************************************)
(* The preview of a file: the modal asks for the content, shows it, edits  *)
(* it and saves it.  Saving writes at once and reads again; reads of the   *)
(* server end in any order, and all of them answer with the path only.     *)
(* A text is the number of the step that wrote it; 0 is the text of the    *)
(* beginning.                                                              *)
(***************************************************************************)
EXTENDS Naturals, Sequences

CONSTANTS
  Project, HomeProject,  \* workspaces, which hold the same relative paths
  File,
  MaxPreviewSteps        \* bound: steps of the user and of other programs

VARIABLES
  disk,        \* project -> file -> its text, or Missing
  project,     \* the workspace of the session
  asks,        \* messages to the server: [kind, file, text]
  readings,    \* reads of the server: [project, file, text]
  arriving,    \* file_content messages: [file, text]
  content,     \* the last file_content of the store
  open,        \* the file previewed
  loaded,      \* its content as shown, or Nothing
  loading,
  editing, draft,
  worked,      \* steps so far
  typedText,   \* history: what the user typed last, while the editor is open
  outOfTurn    \* history: reads overlapped, or another hand was at work

previewVars == <<disk, project, asks, readings, arriving, content, open, loaded, loading,
                 editing, draft, worked, typedText, outOfTurn>>

Missing == MaxPreviewSteps + 1
Nothing == Missing + 1
NoFile == "none"
NoContent == [file |-> NoFile, text |-> Nothing]
Text == 0 .. MaxPreviewSteps

PreviewTypeOK ==
  /\ disk \in [Project -> [File -> Text \cup {Missing}]] /\ project \in Project
  /\ asks \in Seq([kind : {"read_file", "write_file"}, file : File, text : Text])
  /\ readings \in Seq([project : Project, file : File, text : 0 .. Nothing])
  /\ arriving \in Seq([file : File, text : Text])
  /\ content \in [file : File \cup {NoFile}, text : 0 .. Nothing]
  /\ open \in File \cup {NoFile} /\ loaded \in Text \cup {Nothing}
  /\ loading \in BOOLEAN /\ editing \in BOOLEAN /\ draft \in Text
  /\ worked \in Text /\ typedText \in Text \cup {Nothing} /\ outOfTurn \in BOOLEAN

PreviewInit ==
  /\ disk = [p \in Project |-> [f \in File |-> 0]] /\ project = HomeProject
  /\ asks = <<>> /\ readings = <<>> /\ arriving = <<>>
  /\ content = NoContent /\ open = NoFile /\ loaded = Nothing
  /\ loading = FALSE /\ editing = FALSE /\ draft = 0
  /\ worked = 0 /\ typedText = Nothing /\ outOfTurn = FALSE

Works == worked < MaxPreviewSteps /\ worked' = worked + 1

-----------------------------------------------------------------------------
(* The effects of the modal: a content of its path is shown, and replaces   *)
(* the draft unless the editor is open.                                     *)
MutDraftFollows(isEditing, text) == text
DraftAfter(isEditing, text) == IF isEditing THEN draft ELSE text
Accepts(c, f, isEditing) ==
  IF c.file = f /\ c.file # NoFile
  THEN loaded' = c.text /\ loading' = FALSE /\ draft' = DraftAfter(isEditing, c.text)
  ELSE UNCHANGED <<loaded, loading, draft>>

(* Another file is opened; the modal asks about closing a changed draft.    *)
(* What the store holds of the same path is shown until the answer is here. *)
OpenFile(f) ==
  /\ Works /\ f # open /\ ~editing
  /\ open' = f
  /\ asks' = Append(asks, [kind |-> "read_file", file |-> f, text |-> 0])
  /\ IF content.file = f
     THEN loaded' = content.text /\ loading' = FALSE /\ draft' = content.text
     ELSE loaded' = Nothing /\ loading' = TRUE /\ draft' = 0
  /\ UNCHANGED <<disk, project, readings, arriving, content, editing, typedText, outOfTurn>>

CloseFile ==
  /\ open # NoFile /\ open' = NoFile
  /\ loaded' = Nothing /\ loading' = FALSE /\ editing' = FALSE /\ draft' = 0
  /\ typedText' = Nothing
  /\ UNCHANGED <<disk, project, asks, readings, arriving, content, worked, outOfTurn>>

StartEditing ==
  /\ open # NoFile /\ ~editing /\ loaded # Nothing
  /\ editing' = TRUE /\ draft' = loaded
  /\ UNCHANGED <<disk, project, asks, readings, arriving, content, open, loaded, loading,
                 worked, typedText, outOfTurn>>

TypeText ==
  /\ editing /\ Works
  /\ draft' = worked' /\ typedText' = worked'
  /\ UNCHANGED <<disk, project, asks, readings, arriving, content, open, loaded, loading,
                 editing, outOfTurn>>

(* Discarding and saving both close the editor, which runs the effect with  *)
(* the content the store holds.                                             *)
CancelEditing ==
  /\ editing /\ editing' = FALSE /\ typedText' = Nothing
  /\ Accepts(content, open, FALSE)
  /\ UNCHANGED <<disk, project, asks, readings, arriving, content, open, worked, outOfTurn>>

SaveEditing ==
  /\ editing /\ Works /\ editing' = FALSE /\ typedText' = Nothing
  /\ asks' = Append(asks, [kind |-> "write_file", file |-> open, text |-> draft])
  /\ Accepts(content, open, FALSE)
  /\ UNCHANGED <<disk, project, readings, arriving, content, open, outOfTurn>>

ContentArrives ==
  /\ arriving # <<>> /\ arriving' = Tail(arriving)
  /\ content' = Head(arriving)
  /\ Accepts(Head(arriving), open, editing)
  /\ UNCHANGED <<disk, project, asks, readings, open, editing, worked, typedText, outOfTurn>>

-----------------------------------------------------------------------------
(* readFile and writeFile up to the first await: the path is resolved in    *)
(* the workspace of the moment; a file that is gone cannot be saved to.     *)
MutNoReread(a) == a.kind = "read_file"
ReadsAfter(a) == a.kind = "read_file" \/ disk[project][a.file] # Missing
Handle ==
  /\ asks # <<>> /\ asks' = Tail(asks)
  /\ LET a == Head(asks) IN
       /\ disk' = IF a.kind = "write_file" /\ disk[project][a.file] # Missing
                  THEN [disk EXCEPT ![project][a.file] = a.text] ELSE disk
       /\ readings' = IF ReadsAfter(a)
                      THEN Append(readings, [project |-> project, file |-> a.file,
                                             text |-> Nothing])
                      ELSE readings
       /\ outOfTurn' = (outOfTurn \/ readings # <<>>)
  /\ UNCHANGED <<project, arriving, content, open, loaded, loading, editing, draft, worked,
                 typedText>>

ReadsFile(i) ==
  /\ readings[i].text = Nothing
  /\ readings' = [readings EXCEPT ![i].text = disk[readings[i].project][readings[i].file]]
  /\ UNCHANGED <<disk, project, asks, arriving, content, open, loaded, loading, editing,
                 draft, worked, typedText, outOfTurn>>

(* The answer; a file that is gone is a notice.                             *)
ReadEnds(i) ==
  /\ readings[i].text # Nothing
  /\ readings' = SubSeq(readings, 1, i - 1) \o SubSeq(readings, i + 1, Len(readings))
  /\ arriving' = IF readings[i].text = Missing THEN arriving
                 ELSE Append(arriving, [file |-> readings[i].file, text |-> readings[i].text])
  /\ UNCHANGED <<disk, project, asks, content, open, loaded, loading, editing, draft, worked,
                 typedText, outOfTurn>>

(* Another program writes the file or removes it; the workspace switches,   *)
(* which leaves the preview open.                                           *)
OthersWrite(p, f) ==
  /\ Works
  /\ \E text \in {worked', Missing} : disk' = [disk EXCEPT ![p][f] = text]
  /\ outOfTurn' = TRUE
  /\ UNCHANGED <<project, asks, readings, arriving, content, open, loaded, loading, editing,
                 draft, typedText>>

SwitchProject(p) ==
  /\ p # project /\ Works /\ project' = p /\ outOfTurn' = TRUE
  /\ UNCHANGED <<disk, asks, readings, arriving, content, open, loaded, loading, editing,
                 draft, typedText>>

PreviewNext ==
  \/ \E f \in File : OpenFile(f)
  \/ CloseFile \/ StartEditing \/ TypeText \/ CancelEditing \/ SaveEditing \/ ContentArrives
  \/ Handle
  \/ \E i \in 1 .. Len(readings) : ReadsFile(i) \/ ReadEnds(i)
  \/ \E p \in Project : SwitchProject(p) \/ \E f \in File : OthersWrite(p, f)

-----------------------------------------------------------------------------
(* What the user types stays in the editor until he saves or discards it,   *)
(* whatever answers arrive meanwhile.                                       *)
DraftKept == editing /\ typedText # Nothing => draft = typedText

(* With reads that do not overlap and nobody else at work, the preview      *)
(* shows the file as it is on disk once every answer is here: a save is     *)
(* followed by a read.                                                      *)
ShownIsSaved ==
  ~outOfTurn /\ asks = <<>> /\ readings = <<>> /\ arriving = <<>> /\ open # NoFile
    => loaded = disk[project][open] /\ ~loading

=============================================================================
