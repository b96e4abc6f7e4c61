------------------------------- MODULE MCAdmin -------------------------------
(***************************************************************************)
(* The parts of a session that administer something which outlives a run:  *)
(* the transcripts of a project, a worktree, the models and keys of a      *)
(* project, the file of custom models and the form that edits it, the list *)
(* of projects, and the set-up of a first visit.  As in MCRuns a behaviour *)
(* exercises one part, which its initial state chooses among Parts.        *)
(***************************************************************************)
EXTENDS Naturals, Sequences, FiniteSets

CONSTANTS
  Parts,
  Transcript, MaxScans, MaxRenames,                             \* SessionHistory
  WtChat, HomeChat, MaxAdds, MaxRemovals,                       \* Worktrees
  Project, HomeProject, Provider, KeyName, FirstKey, MaxSteps,  \* ProjectModels
  ListedModel, RuntimeBase, MaxSaves,                           \* ModelsConfig
  Checkout, LinkedCheckout, OtherDir, NoDir, Scan, MaxKept, MaxEvents, \* ProjectList
  FormProvider, FirstProvider, FirstListed, MaxFormSteps,       \* ModelsConfig, its form
  SetupTab, ProbeTTL, ConfigTTL, MaxSetupSteps                  \* Setup

ASSUME AdminBounds ==
  /\ MaxScans \in Nat /\ MaxRenames \in Nat
  /\ HomeChat \in WtChat /\ MaxAdds \in Nat /\ MaxRemovals \in Nat
  /\ HomeProject \in Project /\ FirstKey \in KeyName /\ MaxSteps \in Nat
  /\ "none" \notin Project \cup Provider \cup KeyName
  /\ MaxSaves \in Nat /\ "none" \notin FormProvider /\ MaxFormSteps \in Nat
  /\ ProbeTTL \in Nat /\ ConfigTTL \in 0..ProbeTTL /\ MaxSetupSteps \in Nat

VARIABLES part,
  onDisk, held, streamingIn, openings, deletion, scans, listCache, shownList, named,
  titled, renames, deleted, crossedScan, late,
  present, locked, dirty, openChats, place, running, activeIn, adding, sawBranch,
  removing, adds, removals, lostWork, closedDirty, killedAsked, killedLate, closedRefused,
  keys, activeKey, pinnedKey, pinnedModel, inProject, modelOf, usedChats, handler, steps,
  overlapped, chosenModel, overwritten,
  entry, refreshing, waitsForList, saves, typed, byHand, headersByHand, keyTyped,
  baseTyped, overtaken,
  saved, tombs, lastCwd, here, written, gone, scan, shown, nested, listing, asks, events,
  wanted, restored, visited, outrun,
  formSaved, open, draft, fetching, fetchReqId, handled, message, result, probes,
  answers, formTyped, again, strayed, formSteps,
  onPath, keyed, quiet, probe, checked, runs, up, pages, troubled, happened

Dirs == {Checkout, LinkedCheckout, OtherDir}
Folded == [d \in Dirs |-> d]
MainCheckouts == [d \in Dirs |-> IF d = OtherDir THEN NoDir ELSE Checkout]

(* Each provider of the form offers a model of its own.                     *)
FormOffers == [p \in FormProvider |->
                 IF p = FirstProvider THEN {FirstListed} ELSE ListedModel \ {FirstListed}]

Hist   == INSTANCE SessionHistory
Wt     == INSTANCE Worktrees
Models == INSTANCE ProjectModels
Config == INSTANCE ModelsConfig WITH
            Provider <- FormProvider, Offers <- FormOffers, saved <- formSaved
List   == INSTANCE ProjectList WITH
            Dir <- Dirs, KeyOf <- Folded, MainOf <- MainCheckouts, DefaultDir <- Checkout,
            overtaken <- outrun
Setup  == INSTANCE Setup WITH Tab <- SetupTab

histVars == <<onDisk, held, streamingIn, openings, deletion, scans, listCache, shownList,
              named, titled, renames, deleted, crossedScan, late>>
wtVars == <<present, locked, dirty, openChats, place, running, activeIn, adding,
            sawBranch, removing, adds, removals, lostWork, closedDirty, killedAsked,
            killedLate, closedRefused>>
modelVars == <<keys, activeKey, pinnedKey, pinnedModel, inProject, modelOf, usedChats,
               handler, steps, overlapped, chosenModel, overwritten>>
configVars == <<entry, refreshing, waitsForList, saves, typed, byHand, headersByHand,
                keyTyped, baseTyped, overtaken>>
projVars == <<saved, tombs, lastCwd, here, written, gone, scan, shown, nested, listing,
              asks, events, wanted, restored, visited, outrun>>
formVars == <<formSaved, open, draft, fetching, fetchReqId, handled, message, result,
              probes, answers, formTyped, again, strayed, formSteps>>
setupVars == <<onPath, keyed, quiet, probe, checked, runs, up, pages, troubled,
               happened>>

vars == <<part, histVars, wtVars, modelVars, configVars, projVars, formVars, setupVars>>

Init ==
  /\ part \in Parts
  /\ Hist!HistInit
  /\ Wt!WtInit /\ (part # "worktrees" => present)
  /\ Models!ModelInit
  /\ Config!ConfigInit
  /\ List!ProjInit
  /\ Config!FormInit
  /\ part # "form" =>
       formSaved = [p \in FormProvider |-> [m \in ListedModel |-> "none"]]
  /\ Setup!SetupInit /\ (part # "setup" => onPath)

(* The parts a behaviour does not exercise stay as they are.                *)
Rest ==
  /\ part' = part
  /\ IF part = "history" THEN TRUE ELSE UNCHANGED histVars
  /\ IF part = "worktrees" THEN TRUE ELSE UNCHANGED wtVars
  /\ IF part = "models" THEN TRUE ELSE UNCHANGED modelVars
  /\ IF part = "config" THEN TRUE ELSE UNCHANGED configVars
  /\ IF part = "projects" THEN TRUE ELSE UNCHANGED projVars
  /\ IF part = "form" THEN TRUE ELSE UNCHANGED formVars
  /\ IF part = "setup" THEN TRUE ELSE UNCHANGED setupVars

Next ==
  \/ part = "history" /\ Hist!HistNext /\ Rest
  \/ part = "worktrees" /\ Wt!WtNext /\ Rest
  \/ part = "models" /\ Models!ModelNext /\ Rest
  \/ part = "config" /\ Config!ConfigNext /\ Rest
  \/ part = "projects" /\ List!ProjNext /\ Rest
  \/ part = "form" /\ Config!FormNext /\ Rest
  \/ part = "setup" /\ Setup!SetupNext /\ Rest

Spec == Init /\ [][Next]_vars

-----------------------------------------------------------------------------
(* SessionHistory: no transcript is deleted under an open chat, a deleted   *)
(* one is not listed again, and the title of a chat is the name of its      *)
(* transcript.                                                              *)
HistoryKept ==
  part = "history" => /\ Hist!HistTypeOK
                      /\ Hist!NotUnderAChat
                      /\ Hist!DeletedStaysGone
                      /\ Hist!TitleIsName

(* Worktrees: uncommitted work stays, a removal that finds changes closes   *)
(* no chat, and no run that was on is cut without being asked about.        *)
WorktreesSafe ==
  part = "worktrees" => /\ Wt!WtTypeOK
                        /\ Wt!WorkKept
                        /\ Wt!CheckedBeforeClosed
                        /\ Wt!AskedRunsStay

(* ProjectModels, ModelsConfig and its form: the keys pinned to a project   *)
(* are active in it, a used chat keeps its model, a project remembers the   *)
(* model chosen last; what was written by hand or typed survives saves,     *)
(* refreshes and fetches, no built-in base URL is pinned, and a fetch ends  *)
(* and fills its own provider.                                              *)
ModelsKept ==
  /\ part = "models" => /\ Models!ModelTypeOK
                        /\ Models!PinnedKeysHold
                        /\ Models!UsedChatKeepsModel
                        /\ Models!ChosenIsRemembered
  /\ part = "config" => /\ Config!ConfigTypeOK
                        /\ Config!HandWrittenKept
                        /\ Config!TypedNameKept
                        /\ Config!OverlayKept
  /\ part = "form" => /\ Config!FormTypeOK
                      /\ Config!TypedIsKept
                      /\ Config!FetchComesBack
                      /\ Config!FillsItsOwn

(* ProjectList: a removed project is hidden, an opened one is shown, a      *)
(* worktree under its repository, and only what was opened becomes a        *)
(* project.                                                                 *)
ProjectsShown ==
  part = "projects" => /\ List!ProjTypeOK
                       /\ List!RemovedHidden
                       /\ List!OpenedShown
                       /\ List!WorktreesFold
                       /\ List!OnlyOpened

(* Setup: the spinner turns only while something is installed, what the     *)
(* visitor just did shows at once, and what was done elsewhere once the     *)
(* caches are old.                                                          *)
SetupTells ==
  /\ [](part = "setup" => Setup!SetupTypeOK /\ Setup!SpinnerMeansWork)
  /\ Setup!TellsAtOnce
  /\ Setup!TellsInTime

-----------------------------------------------------------------------------
(* ModelsConfig: a save without a key keeps the old one.                    *)
KeyKept == Config!KeyKept
(* The form: the same as FetchComesBack without its condition: every fetch  *)
(* is applied once, as the comment over the effect has it.                  *)
EveryFetchApplies == Config!EveryFetchApplies
=============================================================================
