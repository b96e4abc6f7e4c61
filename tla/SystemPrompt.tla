---------------------------- MODULE SystemPrompt ----------------------------
(***************************************************************************)
(* The system prompt of a run (server/prompt-composer.ts and its host in   *)
(* server/agent-service.ts).  With a template or an override set, every    *)
(* run is sent a prompt put together from sections, most of them taken     *)
(* from the run itself; SYSTEM.md and APPEND_SYSTEM.md however are what    *)
(* the client saw at the last load of any chat.  Without either the SDK    *)
(* puts it together alone.  Skills named for it are pasted in full as far  *)
(* as a budget of bytes goes.                                              *)
(***************************************************************************)
EXTENDS Integers, Sequences
LOCAL INSTANCE SequencesExt

CONSTANTS Chat,           \* the open chats
          Home,           \* chat -> its workspace
          FileCap,        \* a skill's file may have this many bytes
          TotalCap,       \* and all of them together this many
          SkillSize,      \* sizes of skill files, in bytes
          CharWidth,      \* bytes a character of theirs takes
          MaxSkills,      \* bound: skills a runtime has found
          MaxPromptSteps  \* bound: edits, loads and runs

VARIABLES system,    \* workspaces with a SYSTEM.md
          appendix,  \* workspaces with an APPEND_SYSTEM.md
          loaded,    \* chat -> what its runtime found at its last load
          lastBase,  \* lastBaseSystemPrompt: the workspace it came from
          lastAdded, \* lastSdkAppendFiles: the workspaces they came from
          lastLoad,  \* the chat that loaded last, for the properties
          template,  \* promptTemplate: a sequence of items
          overrides, \* promptOverrides: the tokens with a text of the user's
          pasted,    \* what the last look at the skills pasted of each
          active,    \* the chat on the screen
          sent,      \* the prompt of the last run
          edited     \* steps taken, a bound only

promptVars == <<system, appendix, loaded, lastBase, lastAdded, lastLoad,
                template, overrides, pasted, active, sent, edited>>

Workspace == {Home[c] : c \in Chat}
Tokens == <<"soul", "tools", "guidelines", "pi_docs", "append", "persona",
            "terminal", "context", "skills", "cwd">>
Known == ToSet(Tokens)
Templates == {<< >>, <<"own words", "soul", "mistyped", "context">>}
BuiltIn == "built in"

Piece(t, from) == [token |-> t, from |-> from]

(* resolveSectionTexts for a run of chat c, by composeInputs: the context, *)
(* the skills and the directory are the run's, soul and append are of the  *)
(* client                                                                  *)
RunSections == {"context", "skills", "cwd"}

MutOnScreen(c) == Home[active]
RunSource(c) == Home[c]

Auto(c, t) ==
  CASE t = "soul"   -> Piece(t, IF lastBase = {} THEN {BuiltIn} ELSE lastBase)
    [] t = "append" -> Piece(t, lastAdded)
    [] t \in RunSections -> Piece(t, {RunSource(c)})
    [] OTHER        -> Piece(t, {BuiltIn})

(* renderPromptTemplate: an override with a text wins, a token nobody      *)
(* knows stays as it is, and an empty template is the default one          *)
EffectiveTemplate(tpl) == IF tpl = << >> THEN Tokens ELSE tpl

Expanded(c, item) ==
  IF item \in overrides THEN Piece(item, {"the user"})
  ELSE IF item \in Known THEN Auto(c, item)
  ELSE Piece(item, {"as written"})

Rendered(c) == [k \in DOMAIN EffectiveTemplate(template) |->
                  Expanded(c, EffectiveTemplate(template)[k])]

(* The SDK alone: its own default for the soul, because the hook hands it  *)
(* none, and what the chat's own runtime has found                         *)
SdkPrompt(c) ==
  [k \in DOMAIN Tokens |->
     LET t == Tokens[k]
     IN CASE t = "append" -> Piece(t, loaded[c].appendix)
          [] t \in RunSections -> Piece(t, {Home[c]})
          [] OTHER        -> Piece(t, {BuiltIn})]

Composed(c) == IF template = << >> /\ overrides = {} THEN SdkPrompt(c)
                                                     ELSE Rendered(c)

(* fillSkillContents, in order: a file over the cap stays a line of the    *)
(* list, one past the budget is cut, and the budget loses the characters   *)
(* that were read                                                          *)
Chars(s, bytes) == (bytes + s.width - 1) \div s.width

MutSpendsNothing(found) ==
  LET Take(out, s) ==
        LET bytes == IF s.wanted /\ s.size <= FileCap THEN s.size ELSE 0
        IN Append(out, [bytes |-> bytes, chars |-> Chars(s, bytes)])
  IN FoldLeft(Take, << >>, found)
Filled(found) ==
  LET Least(a, b) == IF a < b THEN a ELSE b
      Take(acc, s) ==
        LET bytes == Least(s.size, acc.budget)
        IN IF s.wanted /\ acc.budget > 0 /\ s.size <= FileCap
           THEN [budget |-> acc.budget - Chars(s, bytes),
                 out |-> Append(acc.out, [bytes |-> bytes,
                                          chars |-> Chars(s, bytes)])]
           ELSE [acc EXCEPT !.out = Append(@, [bytes |-> 0, chars |-> 0])]
  IN FoldLeft(Take, [budget |-> TotalCap, out |-> << >>], found).out

PromptInit ==
  /\ system \in SUBSET Workspace
  /\ appendix \in SUBSET Workspace
  /\ loaded = [c \in Chat |-> [up |-> FALSE, system |-> {}, appendix |-> {}]]
  /\ lastBase = {} /\ lastAdded = {} /\ lastLoad = {}
  /\ template = << >> /\ overrides = {}
  /\ pasted = << >>
  /\ active \in Chat
  /\ sent = << >>
  /\ edited = 0

Step == edited < MaxPromptSteps /\ edited' = edited + 1

(* The user writes or removes one of the two files of a workspace          *)
Toggle(files, w) == IF w \in files THEN files \ {w} ELSE files \cup {w}

EditFiles ==
  /\ Step
  /\ \E w \in Workspace :
        \/ system' = Toggle(system, w) /\ UNCHANGED appendix
        \/ appendix' = Toggle(appendix, w) /\ UNCHANGED system
  /\ UNCHANGED <<loaded, lastBase, lastAdded, lastLoad, template, overrides,
                 pasted, active, sent>>

(* The resource loader of chat c runs, at its creation and at /reload: the *)
(* hooks note what they are handed, a SYSTEM.md only when there is one     *)
MutFirstStays(c) == IF lastBase = {} THEN {Home[c]} \cap system ELSE lastBase
Noted(c) == IF Home[c] \in system THEN {Home[c]} ELSE lastBase
MutOnlyIfAny(c) == IF Home[c] \in appendix THEN {Home[c]} ELSE lastAdded
NotedAdded(c) == {Home[c]} \cap appendix

Load(c) ==
  /\ Step
  /\ lastBase' = Noted(c)
  /\ lastAdded' = NotedAdded(c)
  /\ loaded' = [loaded EXCEPT ![c] = [up |-> TRUE,
                                      system |-> {Home[c]} \cap system,
                                      appendix |-> {Home[c]} \cap appendix]]
  /\ lastLoad' = {c}
  /\ UNCHANGED <<system, appendix, template, overrides, pasted, active, sent>>

(* update_settings: the template and the overrides are read at every run   *)
Compose ==
  /\ Step
  /\ \/ \E tpl \in Templates : template' = tpl /\ UNCHANGED overrides
     \/ \E t \in {"soul", "guidelines", "append"} :
           overrides' = Toggle(overrides, t) /\ UNCHANGED template
  /\ UNCHANGED <<system, appendix, loaded, lastBase, lastAdded, lastLoad,
                 pasted, active, sent>>

Switch == /\ Step
          /\ \E c \in Chat \ {active} : active' = c
          /\ UNCHANGED <<system, appendix, loaded, lastBase, lastAdded,
                         lastLoad, template, overrides, pasted, sent>>

(* before_agent_start of a run of chat c, which need not be on the screen  *)
Run(c) ==
  /\ loaded[c].up
  /\ sent' = <<[chat |-> c, prompt |-> Composed(c),
                fresh |-> lastLoad = {c}, found |-> loaded[c]]>>
  /\ UNCHANGED <<system, appendix, loaded, lastBase, lastAdded, lastLoad,
                 template, overrides, pasted, active, edited>>

(* A look at the skills of a runtime, for a run or for the preview; it     *)
(* depends on nothing else, so here it comes alone                         *)
LookAtSkills ==
  /\ edited = 0 /\ edited' = MaxPromptSteps
  /\ \E n \in 1..MaxSkills :
       \E found \in [1..n -> [size : SkillSize, width : CharWidth,
                              wanted : BOOLEAN]] : pasted' = Filled(found)
  /\ UNCHANGED <<system, appendix, loaded, lastBase, lastAdded, lastLoad,
                 template, overrides, active, sent>>

PromptNext == \/ EditFiles \/ Compose \/ Switch \/ LookAtSkills
              \/ \E c \in Chat : Load(c) \/ Run(c)

-----------------------------------------------------------------------------
PromptTypeOK ==
  /\ system \subseteq Workspace /\ appendix \subseteq Workspace
  /\ loaded \in [Chat -> [up : BOOLEAN, system : SUBSET Workspace,
                       appendix : SUBSET Workspace]]
  /\ lastBase \subseteq Workspace /\ lastAdded \subseteq Workspace
  /\ overrides \subseteq Known /\ template \in Templates
  /\ active \in Chat

Of(t) == {sent[1].prompt[k].from : k \in {j \in DOMAIN sent[1].prompt :
                                            sent[1].prompt[j].token = t}}

(* A run is told its own directory, context files and skills, whichever    *)
(* chat is on the screen when it starts.                                   *)
OwnContext ==
  sent # << >> => \A t \in RunSections :
                    Of(t) \subseteq {{Home[sent[1].chat]}}

(* A run composed while its chat is the one that loaded last speaks with   *)
(* the SYSTEM.md its load has found, when it found one, and appends the    *)
(* files it found and no others.                                           *)
FreshSpeaksOwn ==
  sent # << >> /\ sent[1].fresh /\ Of("soul") # {{BuiltIn}} =>
    /\ sent[1].found.system # {} =>
         Of("soul") \subseteq {sent[1].found.system, {"the user"}}
    /\ Of("append") \subseteq {sent[1].found.appendix, {"the user"}}

(* Overriding one section leaves the others what the SDK puts there, as    *)
(* long as no SYSTEM.md was ever seen and no other chat has loaded since.  *)
OthersUntouched ==
  \A c \in Chat :
    loaded[c].up /\ lastLoad = {c} /\ lastBase = {} /\ template = << >> =>
      \A k \in DOMAIN Tokens : Tokens[k] \notin overrides =>
                                Rendered(c)[k] = SdkPrompt(c)[k]

(* The cap on skills pasted in full holds when characters are counted, and *)
(* no skill over the cap of one file is pasted.                            *)
Total(out, f) == FoldLeft(LAMBDA n, s : n + s[f], 0, out)
CapInCharacters ==
  /\ Total(pasted, "chars") <= TotalCap
  /\ \A k \in DOMAIN pasted : pasted[k].bytes <= FileCap

(* The comment on fillSkillContents counts the cap in bytes (8 KB a file,  *)
(* 32 KB in all): files of wide characters go past it.                     *)
CapInBytes == Total(pasted, "bytes") <= TotalCap

(* prompt-composer.ts on the default template: composed with it and with   *)
(* no override, a prompt is what the SDK would have put together.  A       *)
(* SYSTEM.md of any workspace breaks it.                                   *)
DefaultChangesNothing ==
  \A c \in Chat : loaded[c].up /\ template = << >> /\ overrides = {} =>
                    Rendered(c) = SdkPrompt(c)

(* {{soul}} is the SYSTEM.md of the project the run is in, when it has one *)
(* and its runtime has loaded it.                                          *)
SoulOfProject ==
  sent # << >> => Of("soul") \subseteq {{BuiltIn}, {"the user"},
                                        {Home[sent[1].chat]}}
=============================================================================
