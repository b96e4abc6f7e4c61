--------------------------- MODULE ProjectModels ---------------------------
(***************************************************************************)
(* Models and API keys by project.  The keys of the providers are kept     *)
(* once for the server (provider-keys.json), one of each active; the store *)
(* pins to every project of a client the key and the model used there      *)
(* last, and entering a project restores both.  The handlers wait for the  *)
(* model runtime in between, and read the current project when they go on. *)
(* Of the chats of a project the active one is followed; a provider has one*)
(* model, named by it.                                                     *)
(***************************************************************************)
EXTENDS Naturals, FiniteSets

CONSTANTS
  Project, HomeProject,   \* projects; where the client starts
  Provider,
  KeyName,                \* names of keys of a provider
  FirstKey,               \* the one each provider has at first
  MaxSteps                \* bound: operations and switches

None == "none"
Slot == 1 .. 2            \* handlers in flight

VARIABLES
  keys,         \* provider -> names of its keys
  activeKey,    \* provider -> the active one
  pinnedKey,    \* project -> provider -> projectProviderKeys
  pinnedModel,  \* project -> projectModels
  inProject,    \* ClientSession.cwd
  modelOf,      \* project -> model of its active chat
  usedChats,    \* projects whose active chat has messages
  handler,      \* slot -> a handler that waits
  steps,
  overlapped,   \* a handler waited while another one, or a switch, went on
  chosenModel,  \* project -> model the user chose there last
  overwritten   \* the model of a used chat was replaced by a restore

modelVars == <<keys, activeKey, pinnedKey, pinnedModel, inProject, modelOf, usedChats,
               handler, steps, overlapped, chosenModel, overwritten>>

NoHandler == [kind |-> None, project |-> None, provider |-> None, key |-> None,
              todo |-> [p \in Provider |-> None]]

ModelTypeOK ==
  /\ keys \in [Provider -> SUBSET KeyName]
  /\ \A p \in Provider : IF keys[p] = {} THEN activeKey[p] = None
                                         ELSE activeKey[p] \in keys[p]
  /\ pinnedKey \in [Project -> [Provider -> KeyName \cup {None}]]
  /\ pinnedModel \in [Project -> Provider \cup {None}]
  /\ inProject \in Project /\ usedChats \subseteq Project
  /\ modelOf \in [Project -> Provider \cup {None}]
  /\ chosenModel \in [Project -> Provider \cup {None}]
  /\ \A i \in Slot : handler[i].kind \in {None, "restore", "restoreModel", "choose",
                                          "chosen", "activate", "remove", "clear"}
  /\ steps \in 0 .. MaxSteps /\ {overlapped, overwritten} \subseteq BOOLEAN

ModelInit ==
  /\ keys = [p \in Provider |-> {FirstKey}] /\ activeKey = [p \in Provider |-> FirstKey]
  /\ pinnedKey = [j \in Project |-> [p \in Provider |-> None]]
  /\ pinnedModel = [j \in Project |-> None] /\ chosenModel = pinnedModel
  /\ inProject = HomeProject /\ modelOf = pinnedModel /\ usedChats = {}
  /\ handler = [i \in Slot |-> NoHandler] /\ steps = 0
  /\ overlapped = FALSE /\ overwritten = FALSE

-----------------------------------------------------------------------------
Calm == \A i \in Slot : handler[i] = NoHandler
(* A step of the user: it overlaps the handlers that wait.                  *)
UserStep ==
  /\ steps < MaxSteps /\ steps' = steps + 1
  /\ overlapped' = (overlapped \/ ~Calm)
Free(i) == handler[i] = NoHandler
Waits(i, h) == handler' = [handler EXCEPT ![i] = h]

(* applyActiveKey: auth.json and the runtime follow, then the handler waits *)
(* for the catalog.                                                         *)
Activate(p, k) == activeKey' = [activeKey EXCEPT ![p] = k]

(* restoreProjectModelForCwd, whose chat is the active one when it is       *)
(* reached: not for a chat that has messages, in which the user may have    *)
(* switched.                                                                *)
MutRestoresAny(j) == pinnedModel[j] # None
Restores(j) == pinnedModel[j] # None /\ inProject \notin usedChats

(* restoreProjectProviderKeysForCwd: each pinned key that is not active is  *)
(* activated, and waited for.                                               *)
Needed(todo) == {p \in Provider : todo[p] \in keys[p] /\ todo[p] # activeKey[p]}
RestoresKey(i, j, todo) ==
  \E p \in Needed(todo) :
    /\ Activate(p, todo[p])
    /\ Waits(i, [NoHandler EXCEPT !.kind = "restore", !.project = j,
                                  !.todo = [todo EXCEPT ![p] = None]])

(* Then the model of the project, with the key pinned for its provider.     *)
RestoreGoesOn(i) ==
  /\ handler[i].kind = "restore"
  /\ LET h == handler[i]
         m == pinnedModel[h.project] IN
       \/ RestoresKey(i, h.project, h.todo)
       \/ /\ Needed(h.todo) = {} /\ ~Restores(h.project)
          /\ Waits(i, NoHandler) /\ UNCHANGED activeKey
       \/ /\ Needed(h.todo) = {} /\ Restores(h.project)
          /\ Waits(i, IF modelOf[inProject] = m THEN NoHandler
                      ELSE [NoHandler EXCEPT !.kind = "restoreModel", !.provider = m])
          /\ IF pinnedKey[h.project][m] \in keys[m]
             THEN Activate(m, pinnedKey[h.project][m]) ELSE UNCHANGED activeKey
  /\ UNCHANGED <<keys, pinnedKey, pinnedModel, inProject, modelOf, usedChats, steps,
                 overlapped, chosenModel, overwritten>>

(* this.session.setModel, of the chat that is active by now.                *)
RestoreModel(i) ==
  /\ handler[i].kind = "restoreModel"
  /\ modelOf' = [modelOf EXCEPT ![inProject] = handler[i].provider]
  /\ overwritten' = (overwritten \/ (inProject \in usedChats /\ modelOf # modelOf'))
  /\ Waits(i, NoHandler)
  /\ UNCHANGED <<keys, activeKey, pinnedKey, pinnedModel, inProject, usedChats, steps,
                 overlapped, chosenModel>>

(* Another project: the chat that was active there, another one with        *)
(* messages or a blank one is active, and the defaults of the project are   *)
(* restored; a pinned key that is gone is dropped.                          *)
SwitchProject(i, j) ==
  /\ Free(i) /\ j # inProject /\ UserStep
  /\ inProject' = j
  /\ \/ RestoresKey(i, j, pinnedKey[j])
     \/ /\ Needed(pinnedKey[j]) = {} /\ UNCHANGED activeKey
        /\ Waits(i, IF pinnedModel[j] = None THEN NoHandler
                    ELSE [NoHandler EXCEPT !.kind = "restore", !.project = j])
  /\ pinnedKey' = [pinnedKey EXCEPT ![j] =
                     [p \in Provider |-> IF @[p] \in keys[p] THEN @[p] ELSE None]]
  /\ \/ UNCHANGED <<modelOf, usedChats>>
     \/ /\ \E m \in Provider : modelOf' = [modelOf EXCEPT ![j] = m]
        /\ usedChats' = usedChats \cup {j}
     \/ /\ modelOf' = [modelOf EXCEPT ![j] = None]
        /\ usedChats' = usedChats \ {j}
  /\ UNCHANGED <<keys, pinnedModel, chosenModel, overwritten>>

UseChat ==
  /\ usedChats' = usedChats \cup {inProject}
  /\ overlapped' = (overlapped \/ ~Calm)
  /\ UNCHANGED <<keys, activeKey, pinnedKey, pinnedModel, inProject, modelOf, handler,
                 steps, chosenModel, overwritten>>

-----------------------------------------------------------------------------
(* setModel: the session first.                                             *)
ChooseModel(i, m) ==
  /\ Free(i) /\ UserStep
  /\ modelOf' = [modelOf EXCEPT ![inProject] = m]
  /\ chosenModel' = [chosenModel EXCEPT ![inProject] = m]
  /\ Waits(i, [NoHandler EXCEPT !.kind = "choose", !.project = inProject, !.provider = m])
  /\ UNCHANGED <<keys, activeKey, pinnedKey, pinnedModel, inProject, usedChats,
                 overwritten>>
(* restoreKeyForModel, of the current project.                              *)
ChooseKey(i) ==
  /\ handler[i].kind = "choose"
  /\ LET p == handler[i].provider
         k == pinnedKey[inProject][p] IN
       /\ IF k \in keys[p] /\ k # activeKey[p] THEN Activate(p, k) ELSE UNCHANGED activeKey
       /\ pinnedKey' = IF k \in keys[p] THEN pinnedKey
                       ELSE [pinnedKey EXCEPT ![inProject][p] = None]
  /\ Waits(i, [handler[i] EXCEPT !.kind = "chosen"])
  /\ UNCHANGED <<keys, pinnedModel, inProject, modelOf, usedChats, steps, overlapped,
                 chosenModel, overwritten>>
MutAfterATurn(m) == IF inProject \in usedChats THEN [pinnedModel EXCEPT ![inProject] = m]
                    ELSE pinnedModel
(* rememberProjectModel, for the current project, at once.                  *)
WithModel(m) == [pinnedModel EXCEPT ![inProject] = m]

Remembered(i) ==
  /\ handler[i].kind = "chosen"
  /\ LET p == handler[i].provider IN
       /\ pinnedModel' = WithModel(p)
       /\ pinnedKey' = IF activeKey[p] = None THEN pinnedKey
                       ELSE [pinnedKey EXCEPT ![inProject][p] = activeKey[p]]
  /\ Waits(i, NoHandler)
  /\ UNCHANGED <<keys, activeKey, inProject, modelOf, usedChats, steps, overlapped,
                 chosenModel, overwritten>>

(* addProviderKey: the first key of a provider becomes active.              *)
AddKey(i, p, k) ==
  /\ Free(i) /\ UserStep /\ k \notin keys[p]
  /\ keys' = [keys EXCEPT ![p] = @ \cup {k}]
  /\ IF keys[p] = {} THEN Activate(p, k) ELSE UNCHANGED activeKey
  /\ Waits(i, [NoHandler EXCEPT !.kind = "activate", !.project = inProject,
                                !.provider = p, !.key = activeKey'[p]])
  /\ UNCHANGED <<pinnedKey, pinnedModel, inProject, modelOf, usedChats, chosenModel,
                 overwritten>>
(* activateProviderKey, by hand.                                            *)
ActivateKey(i, p, k) ==
  /\ Free(i) /\ UserStep /\ k \in keys[p]
  /\ Activate(p, k)
  /\ Waits(i, [NoHandler EXCEPT !.kind = "activate", !.project = inProject,
                                !.provider = p, !.key = k])
  /\ UNCHANGED <<keys, pinnedKey, pinnedModel, inProject, modelOf, usedChats,
                 chosenModel, overwritten>>
Activated(i) ==
  /\ handler[i].kind = "activate"
  /\ pinnedKey' = [pinnedKey EXCEPT ![inProject][handler[i].provider] = handler[i].key]
  /\ Waits(i, NoHandler)
  /\ UNCHANGED <<keys, activeKey, pinnedModel, inProject, modelOf, usedChats, steps,
                 overlapped, chosenModel, overwritten>>

(* removeProviderKey: when it was active, the first key left takes over.    *)
RemoveKey(i, p, k) ==
  /\ Free(i) /\ UserStep /\ k \in keys[p]
  /\ keys' = [keys EXCEPT ![p] = @ \ {k}]
  /\ IF activeKey[p] # k THEN UNCHANGED activeKey
     ELSE IF keys[p] = {k} THEN Activate(p, None)
     ELSE \E first \in keys[p] \ {k} : Activate(p, first)
  /\ Waits(i, [NoHandler EXCEPT !.kind = "remove", !.provider = p, !.key = k])
  /\ UNCHANGED <<pinnedKey, pinnedModel, inProject, modelOf, usedChats, chosenModel,
                 overwritten>>

MutHereOnly(p, k, now) == IF pinnedKey[inProject][p] = k
                          THEN [pinnedKey EXCEPT ![inProject][p] = now] ELSE pinnedKey
(* repointDeletedKeyEverywhere.                                             *)
Repointed(p, k, now) ==
  [j \in Project |-> IF pinnedKey[j][p] = k THEN [pinnedKey[j] EXCEPT ![p] = now]
                                            ELSE pinnedKey[j]]
Removed(i) ==
  /\ handler[i].kind = "remove"
  /\ pinnedKey' = Repointed(handler[i].provider, handler[i].key,
                            activeKey[handler[i].provider])
  /\ Waits(i, NoHandler)
  /\ UNCHANGED <<keys, activeKey, pinnedModel, inProject, modelOf, usedChats, steps,
                 overlapped, chosenModel, overwritten>>

(* clearProviderApiKey, then deleteProviderEverywhere.                      *)
ClearKeys(i, p) ==
  /\ Free(i) /\ UserStep /\ keys[p] # {}
  /\ keys' = [keys EXCEPT ![p] = {}] /\ Activate(p, None)
  /\ Waits(i, [NoHandler EXCEPT !.kind = "clear", !.provider = p])
  /\ UNCHANGED <<pinnedKey, pinnedModel, inProject, modelOf, usedChats, chosenModel,
                 overwritten>>
Cleared(i) ==
  /\ handler[i].kind = "clear"
  /\ pinnedKey' = [j \in Project |-> [pinnedKey[j] EXCEPT ![handler[i].provider] = None]]
  /\ Waits(i, NoHandler)
  /\ UNCHANGED <<keys, activeKey, pinnedModel, inProject, modelOf, usedChats, steps,
                 overlapped, chosenModel, overwritten>>

ModelNext ==
  \/ \E i \in Slot :
       \/ RestoreGoesOn(i) \/ RestoreModel(i) \/ ChooseKey(i) \/ Remembered(i)
       \/ Activated(i) \/ Removed(i) \/ Cleared(i)
       \/ \E j \in Project : SwitchProject(i, j)
       \/ \E p \in Provider : \/ ChooseModel(i, p) \/ ClearKeys(i, p)
                              \/ \E k \in KeyName : \/ AddKey(i, p, k) \/ ActivateKey(i, p, k)
                                                    \/ RemoveKey(i, p, k)
  \/ UseChat

-----------------------------------------------------------------------------
(* Once nothing waits, and if nothing overlapped, entering a project has    *)
(* made the keys active that are pinned to it, and no project is pinned to  *)
(* a key that is gone (restoreProjectDefaults, repointDeletedKeyEverywhere).*)
PinnedKeysHold ==
  Calm /\ ~overlapped =>
    /\ \A p \in Provider : pinnedKey[inProject][p] \in {None, activeKey[p]}
    /\ \A j \in Project, p \in Provider : pinnedKey[j][p] \in keys[p] \cup {None}

(* The model of a chat that has messages is its own: a restore of the       *)
(* project's model leaves it alone (restoreProjectModelForCwd), if nothing  *)
(* overlapped.                                                              *)
UsedChatKeepsModel == ~overlapped => ~overwritten

(* A model chosen in a project is the one it comes back with.               *)
ChosenIsRemembered ==
  Calm /\ ~overlapped => \A j \in Project : pinnedModel[j] = chosenModel[j]

(* The same when handlers overlap.                                          *)
PinnedKeysHoldAlways ==
  Calm => \A p \in Provider : pinnedKey[inProject][p] \in {None, activeKey[p]}
UsedChatKeepsModelAlways == ~overwritten
ChosenIsRememberedAlways == Calm => \A j \in Project : pinnedModel[j] = chosenModel[j]
=============================================================================
