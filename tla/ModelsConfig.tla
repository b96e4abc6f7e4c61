---------------------------- MODULE ModelsConfig ----------------------------
(***************************************************************************)
(* One provider in models.json: saved from the form of the browser,        *)
(* edited by hand, deleted, and refreshed, which reads the entry, waits    *)
(* for the provider's list of models and saves what it merged.  Of a model *)
(* there is its name, which the form has, and its cost, which stands for   *)
(* the fields only written by hand; of the provider its key and base URL,  *)
(* and the headers, which the browser never sees.  The second part is the  *)
(* form itself: a draft of a saved provider is edited, filled with what    *)
(* the endpoint of the provider offers, and saved.  A probe of an endpoint *)
(* is asked with a number and answered in its own time; the store of the   *)
(* page keeps the last answer, the form takes each number once.            *)
(***************************************************************************)
EXTENDS Naturals, Sequences, FiniteSets

CONSTANTS
  ListedModel,   \* models of the provider
  RuntimeBase,   \* the runtime knows a base URL for it (a built-in provider)
  MaxSaves       \* bound: saves, edits, deletions and refreshes

VARIABLES
  entry,         \* the entry of the provider
  refreshing,    \* a refresh that waits: what it read, or NoEntry
  waitsForList,
  saves,
  typed,         \* model -> name in the last form that was saved
  byHand,        \* models whose cost was written by hand
  headersByHand,
  keyTyped,      \* the key of the last form or edit
  baseTyped,     \* the base URL, too
  overtaken      \* the entry changed while a refresh waited

configVars == <<entry, refreshing, waitsForList, saves, typed, byHand, headersByHand,
                keyTyped, baseTyped, overtaken>>

Name == {"", "typed", "listed"}
NoModel == [is |-> FALSE, name |-> "", cost |-> FALSE]
NoEntry == [is |-> FALSE, key |-> FALSE, base |-> FALSE, headers |-> FALSE,
            models |-> [m \in ListedModel |-> NoModel]]
Entry == [is : BOOLEAN, key : BOOLEAN, base : BOOLEAN, headers : BOOLEAN,
          models : [ListedModel -> [is : BOOLEAN, name : Name, cost : BOOLEAN]]]

ConfigTypeOK ==
  /\ entry \in Entry /\ refreshing \in Entry /\ waitsForList \in BOOLEAN
  /\ saves \in 0 .. MaxSaves /\ typed \in [ListedModel -> Name]
  /\ byHand \subseteq ListedModel
  /\ {headersByHand, keyTyped, baseTyped, overtaken} \subseteq BOOLEAN

ConfigInit ==
  /\ entry = NoEntry /\ refreshing = NoEntry /\ waitsForList = FALSE /\ saves = 0
  /\ typed = [m \in ListedModel |-> ""] /\ byHand = {} /\ headersByHand = FALSE
  /\ keyTyped = FALSE /\ baseTyped = FALSE /\ overtaken = FALSE

-----------------------------------------------------------------------------
MutRebuilds(prev, config) ==
  [config EXCEPT !.models = [m \in ListedModel |-> [config.models[m] EXCEPT !.cost = FALSE]]]
(* mergeProviderConfigEntry: the fields of the form replace those of the    *)
(* entry, or delete them; the others stay.  Models that are not in the form *)
(* go.                                                                      *)
Merged(prev, config) ==
  [is |-> TRUE, key |-> config.key, base |-> config.base, headers |-> prev.headers,
   models |-> [m \in ListedModel |->
                 IF ~config.models[m].is THEN NoModel
                 ELSE [is |-> TRUE, name |-> config.models[m].name,
                       cost |-> prev.models[m].cost \/ config.models[m].cost]]]

SaveStep == saves < MaxSaves /\ saves' = saves + 1
Changed == overtaken' = (overtaken \/ waitsForList)

(* saveModelConfig, of a form with at least one model.                      *)
SaveForm(models, names, key, base) ==
  /\ SaveStep /\ models # {} /\ Changed
  /\ LET config == [is |-> TRUE, key |-> key, base |-> base, headers |-> FALSE,
                    models |-> [m \in ListedModel |->
                       [is |-> m \in models,
                        name |-> IF m \in models \cap names THEN "typed" ELSE "",
                        cost |-> FALSE]]] IN
       /\ entry' = Merged(entry, config)
       /\ typed' = [m \in ListedModel |-> config.models[m].name]
  /\ byHand' = byHand \cap models
  /\ keyTyped' = key /\ baseTyped' = base
  /\ UNCHANGED <<refreshing, waitsForList, headersByHand>>

(* models.json in an editor.                                                *)
HandEdit(m) ==
  /\ SaveStep /\ entry.is /\ entry.models[m].is /\ Changed
  /\ entry' = [entry EXCEPT !.headers = TRUE, !.models[m].cost = TRUE]
  /\ headersByHand' = TRUE /\ byHand' = byHand \cup {m}
  /\ UNCHANGED <<refreshing, waitsForList, typed, keyTyped, baseTyped>>

(* deleteModelConfig.                                                       *)
DeleteProvider ==
  /\ SaveStep /\ entry.is /\ Changed
  /\ entry' = NoEntry
  /\ typed' = [m \in ListedModel |-> ""] /\ byHand' = {} /\ headersByHand' = FALSE
  /\ keyTyped' = FALSE /\ baseTyped' = FALSE
  /\ UNCHANGED <<refreshing, waitsForList>>

-----------------------------------------------------------------------------
(* refreshProviderModels: the saved entry, with a base URL of its own or of *)
(* the runtime; then the list is fetched.                                   *)
Refresh ==
  /\ SaveStep /\ ~waitsForList
  /\ entry.is /\ (entry.base \/ RuntimeBase)
  /\ refreshing' = entry /\ waitsForList' = TRUE
  /\ UNCHANGED <<entry, typed, byHand, headersByHand, keyTyped, baseTyped, overtaken>>

MutKnownBase == refreshing.base \/ RuntimeBase
(* The base URL that is saved is the one of the entry that was read.        *)
SavedBase == refreshing.base
MutListWins(cur, listed) == [cur EXCEPT !.name = "listed"]
(* { ...f, ...cur }: what the entry has wins over the list.                 *)
WithListed(cur, listed) == IF cur.name = "" THEN [cur EXCEPT !.name = listed] ELSE cur

(* The list is merged into the entry that was read, and saved as a form     *)
(* would be, without the key.                                               *)
RefreshEnds(listed) ==
  /\ waitsForList /\ waitsForList' = FALSE /\ refreshing' = NoEntry
  /\ LET config ==
           [is |-> TRUE, key |-> FALSE, base |-> SavedBase, headers |-> FALSE,
            models |-> [m \in ListedModel |->
              LET cur == refreshing.models[m] IN
                IF m \notin listed THEN cur
                ELSE IF cur.is THEN WithListed(cur, "listed")
                ELSE [is |-> TRUE, name |-> "listed", cost |-> FALSE]]] IN
       entry' = Merged(entry, config)
  /\ UNCHANGED <<saves, typed, byHand, headersByHand, keyTyped, baseTyped, overtaken>>

RefreshFails ==
  /\ waitsForList /\ waitsForList' = FALSE /\ refreshing' = NoEntry
  /\ UNCHANGED <<entry, saves, typed, byHand, headersByHand, keyTyped, baseTyped,
                 overtaken>>

ConfigNext ==
  \/ \E models, names \in SUBSET ListedModel, key, base \in BOOLEAN :
       SaveForm(models, names, key, base)
  \/ \E m \in ListedModel : HandEdit(m)
  \/ DeleteProvider \/ Refresh \/ RefreshFails
  \/ \E listed \in SUBSET ListedModel : RefreshEnds(listed)

-----------------------------------------------------------------------------
(* What was written by hand stays through saves of the form and refreshes   *)
(* (mergeProviderConfigEntry); the costs of a model only unless the entry   *)
(* changed under a refresh.                                                 *)
HandWrittenKept ==
  /\ headersByHand => entry.headers
  /\ ~overtaken => \A m \in byHand : entry.models[m].cost

(* The same for the models, whatever overtakes: violated, a refresh saves   *)
(* the models it read before it waited.                                     *)
HandWrittenKeptAlways == \A m \in byHand : entry.models[m].cost

(* A name typed in the form stays through refreshes of the list, unless one *)
(* was waiting when the form was saved.                                     *)
TypedNameKept ==
  ~overtaken => \A m \in ListedModel : typed[m] = "typed" => entry.models[m].name = "typed"

(* model-admin.ts: "注意只拿来探测用，不写回磁盘：保持条目仍是纯覆盖": the base    *)
(* URL the runtime knows is used to fetch the list and never written.       *)
OverlayKept == ~overtaken /\ entry.base => baseTyped

(* model-admin.ts: "apiKey/headers 不回传浏览器——saveModelConfig 会保留旧值":    *)
(* a refresh keeps the key of the entry.                                    *)
KeyKept == entry.is /\ keyTyped => entry.key

-----------------------------------------------------------------------------
(* The form.                                                                *)
CONSTANTS
  Provider,      \* the custom providers that are saved
  Offers,        \* what the endpoint of a provider lists
  MaxFormSteps   \* bound: what the user does

VARIABLES
  saved,      \* models.json: the rows of each provider
  open,       \* the modal is mounted
  draft,      \* editing: [provider, rows], NoDraft when no form is open
  fetching, fetchReqId, handled,
  message,    \* fetchMsg: "none", "ok" or "error"
  result,     \* fetchModelsResult of the store, NoResult before the first
  probes,     \* of the server: [req, provider]
  answers,    \* on their way to the page
  formTyped,  \* history: the rows of the draft that the user typed in
  again,      \* history: an earlier mount had asked for models
  strayed,    \* history: another draft was opened while a probe was under way
  formSteps

formVars == <<saved, open, draft, fetching, fetchReqId, handled, message, result, probes, answers,
              formTyped, again, strayed, formSteps>>

(* A row is absent, holds an id alone, a name as well, or what the endpoint *)
(* told of it.                                                              *)
Rows == [ListedModel -> {"none", "bare", "named", "filled"}]
NoDraft == [provider |-> "none", rows |-> [m \in ListedModel |-> "none"]]
NoResult == [req |-> 0, provider |-> "none", ok |-> FALSE]
FormTypeOK ==
  /\ saved \in [Provider -> Rows] /\ draft.provider \in Provider \cup {"none"}
  /\ draft.rows \in Rows /\ {open, fetching, again, strayed} \subseteq BOOLEAN
  /\ fetchReqId \in Nat /\ handled \in Nat /\ message \in {"none", "ok", "error"}
  /\ \A p \in probes : p.req \in Nat /\ p.provider \in Provider
  /\ formTyped \subseteq ListedModel /\ formSteps \in 0 .. MaxFormSteps

FormInit ==
  /\ saved \in [Provider -> {[m \in ListedModel |-> "none"], [m \in ListedModel |-> "named"]}]
  /\ open = FALSE /\ draft = NoDraft /\ fetching = FALSE /\ fetchReqId = 0 /\ handled = 0
  /\ message = "none" /\ result = NoResult /\ probes = {} /\ answers = <<>> /\ formTyped = {}
  /\ again = FALSE /\ strayed = FALSE /\ formSteps = 0

FormStep == formSteps < MaxFormSteps /\ formSteps' = formSteps + 1
net == <<probes, answers>>

(* The rows of a draft with what was fetched: fields the user left empty    *)
(* are filled, ids the form lacks are added.                                *)
MutOverwrites(rows, offered) == [m \in ListedModel |-> IF m \in offered THEN "filled" ELSE rows[m]]
FilledIn(rows, offered) ==
  [m \in ListedModel |-> IF m \in offered /\ rows[m] \in {"none", "bare"} THEN "filled" ELSE rows[m]]

(* The effect of an answer, run when it changes and when the modal mounts.  *)
Applies(r) ==
  IF r.req = 0 \/ r.req = handled THEN UNCHANGED <<draft, fetching, handled, message>>
  ELSE /\ handled' = r.req /\ fetching' = FALSE
       /\ message' = IF r.ok THEN "ok" ELSE "error"
       /\ draft' = IF r.ok /\ draft # NoDraft
                   THEN [draft EXCEPT !.rows = FilledIn(@, Offers[r.provider])] ELSE draft

-----------------------------------------------------------------------------
(* The modal is mounted: its state is new, the answer in the store is not.  *)
Mount ==
  /\ FormStep /\ ~open /\ open' = TRUE /\ fetchReqId' = 0 /\ fetching' = FALSE
  /\ draft' = NoDraft /\ handled' = result.req
  /\ message' = (IF result.req = 0 THEN "none" ELSE IF result.ok THEN "ok" ELSE "error")
  /\ UNCHANGED <<saved, result, net, formTyped, again, strayed>>
Unmount ==
  /\ open' = FALSE /\ draft' = NoDraft /\ fetching' = FALSE /\ formTyped' = {}
  /\ again' = (again \/ fetchReqId # 0)
  /\ UNCHANGED <<fetchReqId, handled, message, result, net, strayed>>
Close == FormStep /\ open /\ Unmount /\ UNCHANGED saved

(* The form of a saved provider is opened, or left without saving; a probe  *)
(* that is under way goes on.                                               *)
MutDraftOf(p) ==
  [provider |-> p, rows |-> IF result.ok THEN FilledIn(saved[p], Offers[result.provider]) ELSE saved[p]]
DraftOf(p) == [provider |-> p, rows |-> saved[p]]
Edit(p) ==
  /\ FormStep /\ open /\ draft = NoDraft /\ draft' = DraftOf(p)
  /\ formTyped' = {m \in ListedModel : saved[p][m] = "named"} /\ strayed' = (strayed \/ fetching)
  /\ UNCHANGED <<saved, open, fetching, fetchReqId, handled, message, result, net, again>>
Cancel ==
  /\ FormStep /\ draft # NoDraft /\ draft' = NoDraft /\ formTyped' = {}
  /\ UNCHANGED <<saved, open, fetching, fetchReqId, handled, message, result, net, again, strayed>>
EditRow(m, what) ==
  /\ FormStep /\ draft # NoDraft /\ what \in {"none", "bare", "named"} /\ draft.rows[m] # what
  /\ draft' = [draft EXCEPT !.rows[m] = what]
  /\ formTyped' = (IF what = "named" THEN formTyped \cup {m} ELSE formTyped \ {m})
  /\ UNCHANGED <<saved, open, fetching, fetchReqId, handled, message, result, net, again, strayed>>

MutNextReq(n) == 1
NextReq(n) == n + 1
FetchModels ==
  /\ FormStep /\ draft # NoDraft /\ ~fetching /\ fetching' = TRUE /\ message' = "none"
  /\ fetchReqId' = NextReq(fetchReqId)
  /\ probes' = probes \cup {[req |-> NextReq(fetchReqId), provider |-> draft.provider]}
  /\ UNCHANGED <<saved, open, draft, handled, result, answers, formTyped, again, strayed>>

(* A form is saved with at least one model.                                 *)
Save ==
  /\ FormStep /\ draft # NoDraft /\ (\E m \in ListedModel : draft.rows[m] # "none")
  /\ saved' = [saved EXCEPT ![draft.provider] = draft.rows] /\ Unmount

-----------------------------------------------------------------------------
(* The endpoint answers, refuses or times out.                              *)
ProbeEnds(p, ok) ==
  /\ p \in probes /\ probes' = probes \ {p}
  /\ answers' = Append(answers, [req |-> p.req, provider |-> p.provider, ok |-> ok])
  /\ UNCHANGED <<saved, open, draft, fetching, fetchReqId, handled, message, result, formTyped, again,
                 strayed, formSteps>>

Arrive ==
  /\ answers # <<>> /\ answers' = Tail(answers) /\ result' = Head(answers)
  /\ IF open THEN Applies(Head(answers)) ELSE UNCHANGED <<draft, fetching, handled, message>>
  /\ UNCHANGED <<saved, open, fetchReqId, probes, formTyped, again, strayed, formSteps>>

FormNext ==
  \/ Mount \/ Close \/ Cancel \/ FetchModels \/ Save \/ Arrive
  \/ \E p \in Provider : Edit(p)
  \/ \E m \in ListedModel : \E what \in {"none", "bare", "named"} : EditRow(m, what)
  \/ \E p \in probes : \E ok \in BOOLEAN : ProbeEnds(p, ok)

-----------------------------------------------------------------------------
Awaited == {p.req : p \in probes} \cup {answers[i].req : i \in DOMAIN answers}

(* What the user typed is not overwritten by what an endpoint says.         *)
TypedIsKept == draft # NoDraft => \A m \in formTyped : draft.rows[m] = "named"

(* The form waits only for an answer that it will take: the button that     *)
(* fetches comes back, in a modal that is opened for the first time.        *)
FetchComesBack == fetching /\ ~again => fetchReqId \in Awaited /\ fetchReqId # handled

(* "Apply the server's fetch_models_result to the draft once per request"   *)
(* (ModelConfigModal.tsx:192), whichever time the modal is open.            *)
EveryFetchApplies == fetching => fetchReqId # handled

(* An endpoint fills the form of its own provider, as long as the form is   *)
(* not left for another while it is asked.                                  *)
Offered(p) == Offers[p] \cup {m \in ListedModel : saved[p][m] = "filled"}
FillsItsOwn ==
  draft # NoDraft /\ ~strayed /\ ~again =>
    \A m \in ListedModel : draft.rows[m] = "filled" => m \in Offered(draft.provider)
AlwaysItsOwn ==
  draft # NoDraft => \A m \in ListedModel : draft.rows[m] = "filled" => m \in Offered(draft.provider)
=============================================================================
