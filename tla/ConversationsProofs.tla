------------------------ MODULE ConversationsProofs ------------------------
(***************************************************************************)
(* Theorems about the conversation table, for any number of handlers in    *)
(* flight, conversations, projects and transcripts.                        *)
(***************************************************************************)
EXTENDS Conversations, FiniteSetTheorems, TLAPS

(* What the handlers in flight know: the conversation they act on is one    *)
(* that was allocated, a dismissal has a target, and no two of them create  *)
(* the same conversation.                                                   *)
Making(s) == task[s].op \in {"boot", "bind"}

TasksOK ==
  /\ \A s \in Slot : Making(s) => task[s].conv \in 1..convSeq
  /\ \A s \in Slot : task[s].op \in {"prompt", "prompted", "abort", "settle"}
                       => task[s].conv \in Conv
  /\ \A s \in Slot : task[s].op \in {"vacate", "drop"} => task[s].target \in Conv
  /\ \A s, x \in Slot : Making(s) /\ Making(x) /\ s # x => task[s].conv # task[x].conv

IInv == TypeOK /\ activeId \in convs /\ convs \subseteq 1..convSeq /\ TasksOK

LEMMA IdleTask == Idle \in Task /\ Idle.op = "idle"
  BY ConstantsAssumption DEF Idle, Task, Kind, None

LEMMA InitIInv == Init => IInv
<1> SUFFICES ASSUME Init PROVE IInv
  OBVIOUS
<1>1. 1 \in Conv /\ None \notin History /\ Conv \subseteq File /\ History \subseteq File
  BY ConstantsAssumption DEF Conv, None, File
<1>2. recent \in [Cwd -> File \cup {None}]
  BY <1>1 DEF Init
<1>3. file \in [Conv -> File]
  <2>1. ContinueRecent(StartCwd, 1) \in File
    BY <1>1, <1>2, ConstantsAssumption DEF ContinueRecent
  <2>2. QED BY <1>1, <2>1 DEF Init
<1>4. task \in [Slot -> Task] /\ TasksOK
  BY IdleTask DEF Init, TasksOK, Making
<1>5. TypeOK
  <2>1. /\ convSeq \in Conv /\ convs \in SUBSET Conv /\ activeId \in Conv /\ cwd \in Cwd
        /\ home \in [Conv -> Cwd] /\ listed \in SUBSET Conv /\ prompted \in SUBSET Conv
        /\ msgs \in SUBSET Conv /\ run \in [Conv -> RunState]
    BY <1>1, ConstantsAssumption DEF Init, RunState
  <2>2. /\ term \in [Conv -> {"none", "live", "exited"}]
        /\ bound \in SUBSET Conv /\ live \in SUBSET Conv /\ saved \in SUBSET File
        /\ booting \in SUBSET Conv /\ reset \in [Conv -> {"no", "dispose", "boot"}]
        /\ rebinding \in SUBSET Conv /\ quiesced \in BOOLEAN
    BY <1>1 DEF Init
  <2>3. QED BY <1>2, <1>3, <1>4, <2>1, <2>2 DEF TypeOK
<1>6. QED BY <1>4, <1>5 DEF Init, IInv

(* Steps that leave the table alone and take one handler to a task that     *)
(* creates nothing.                                                         *)
LEMMA ThenTask ==
  ASSUME TypeOK, TasksOK, NEW s \in Slot, NEW target \in Conv \cup {None}, Then(s, target)
  PROVE  /\ task' \in [Slot -> Task]
         /\ \A x \in Slot : x # s => task'[x] = task[x]
         /\ task'[s].op \in {"idle", "drop"}
         /\ task'[s].op = "drop" => task'[s].target \in Conv
  BY ConstantsAssumption, IdleTask DEF Then, TypeOK, Task, Idle, None, Kind

LEMMA CloseTypes ==
  ASSUME TypeOK, NEW gone, NEW started \in SUBSET Conv,
         NEW l \in SUBSET Conv, NEW m \in SUBSET Conv, Close(gone, started, l, m)
  PROVE  /\ listed' \in SUBSET Conv /\ prompted' \in SUBSET Conv
         /\ run' \in [Conv -> RunState] /\ term' \in [Conv -> {"none", "live", "exited"}]
         /\ bound' \in SUBSET Conv /\ live' \in SUBSET Conv /\ msgs' \in SUBSET Conv
  BY DEF Close, TypeOK, RunState

LEMMA SwitchTable ==
  ASSUME IInv, NEW c \in convs, SwitchTo(c)
  PROVE  /\ activeId' \in convs' /\ convs' \subseteq convs /\ cwd' \in Cwd
         /\ activeId' \in Conv
         /\ listed' \in SUBSET Conv /\ prompted' \in SUBSET Conv
         /\ run' \in [Conv -> RunState] /\ term' \in [Conv -> {"none", "live", "exited"}]
         /\ bound' \in SUBSET Conv /\ live' \in SUBSET Conv /\ msgs' \in SUBSET Conv
<1> DEFINE gone == Removable(Displaced, c)
<1>1. c \in Conv BY DEF IInv, TypeOK
<1>2. Promoted \in SUBSET Conv /\ prompted \ {c} \in SUBSET Conv
  BY DEF IInv, TypeOK, Promoted
<1>3. Close(gone, {}, Promoted, prompted \ {c}) BY DEF SwitchTo
<1>4. /\ listed' \in SUBSET Conv /\ prompted' \in SUBSET Conv
      /\ run' \in [Conv -> RunState] /\ term' \in [Conv -> {"none", "live", "exited"}]
      /\ bound' \in SUBSET Conv /\ live' \in SUBSET Conv /\ msgs' \in SUBSET Conv
  BY <1>2, <1>3, CloseTypes DEF IInv
<1>5. QED BY <1>1, <1>4 DEF SwitchTo, Removable, IInv, TypeOK

(* A handler that goes on to a task creating nothing keeps TasksOK.         *)
LEMMA KeptTasks ==
  ASSUME TasksOK, NEW s \in Slot, convSeq' = convSeq,
         \A x \in Slot : x # s => task'[x] = task[x],
         task'[s].op \in {"idle", "resolve", "resolveNew", "thenNew", "vacate", "drop"},
         task'[s].op \in {"vacate", "drop"} => task'[s].target \in Conv
  PROVE  TasksOK'
<1>1. ASSUME NEW x \in Slot PROVE x = s => ~Making(x)'
  BY DEF Making
<1>2. \A x \in Slot : x # s => Making(x)' = Making(x)
  BY DEF Making
<1>3. QED BY <1>1, <1>2 DEF TasksOK

LEMMA BootTask ==
  ASSUME IInv, NEW s \in Slot, NEW kind \in Kind, NEW w \in Cwd, NEW f \in File \cup {NextId},
         NEW gone \in Conv \cup {None}, NEW up \in Conv \cup {None},
         NEW target \in Conv \cup {None}, NEW flag \in BOOLEAN,
         StartBoot(s, kind, w, f, gone, up, target, flag)
  PROVE  /\ convSeq' \in Conv /\ convSeq <= convSeq'
         /\ home' \in [Conv -> Cwd] /\ file' \in [Conv -> File]
         /\ booting' \in SUBSET Conv
         /\ task' \in [Slot -> Task] /\ TasksOK'
<1>1. CASE convSeq < MaxConvs
  <2>1. NextId \in Conv /\ NextId \in File
    BY <1>1, ConstantsAssumption DEF NextId, Conv, File, IInv, TypeOK
  <2> DEFINE t == [op |-> "boot", kind |-> kind, conv |-> NextId, gone |-> gone,
                   up |-> up, target |-> target, dir |-> w, flag |-> flag]
  <2>2. /\ convSeq' = NextId /\ home' = [home EXCEPT ![NextId] = w]
        /\ file' = [file EXCEPT ![NextId] = f]
        /\ booting' = IF kind = "session" THEN booting \cup {NextId} ELSE booting
        /\ task' = [task EXCEPT ![s] = t]
    <3>1. convSeq # MaxConvs
      BY <1>1, ConstantsAssumption DEF IInv, TypeOK, Conv
    <3>2. QED BY <3>1 DEF StartBoot
  <2>3. t \in Task
    BY <2>1 DEF Task, Conv, None
  <2>4. task' \in [Slot -> Task] /\ task'[s] = t /\ \A x \in Slot : x # s => task'[x] = task[x]
    BY <2>2, <2>3 DEF IInv, TypeOK
  <2>5. convSeq \in Nat /\ convSeq' = convSeq + 1 /\ convSeq' \in Conv
    BY <2>1, <2>2 DEF IInv, TypeOK, Conv, NextId
  <2>6. TasksOK'
    <3>1. ASSUME NEW x \in Slot
          PROVE  /\ Making(x)' => task'[x].conv \in 1..convSeq'
                 /\ task'[x].op \in {"prompt", "prompted", "abort", "settle"}
                      => task'[x].conv \in Conv
      BY <2>4, <2>5 DEF IInv, TasksOK, Making, NextId
    <3>2. ASSUME NEW x \in Slot, task'[x].op \in {"vacate", "drop"}
          PROVE  task'[x].target \in Conv
      BY <3>2, <2>4 DEF IInv, TasksOK
    <3>3. ASSUME NEW x \in Slot, NEW y \in Slot, Making(x)', Making(y)', x # y
          PROVE  task'[x].conv # task'[y].conv
      <4>1. \A z \in Slot : Making(z) => task[z].conv \in 1..convSeq
        BY DEF IInv, TasksOK, Making
      <4>2. CASE x = s
        BY <3>3, <4>1, <4>2, <2>4, <2>5 DEF Making, NextId
      <4>3. CASE y = s
        BY <3>3, <4>1, <4>3, <2>4, <2>5 DEF Making, NextId
      <4>4. CASE x # s /\ y # s
        BY <3>3, <4>4, <2>4 DEF IInv, TasksOK, Making
      <4>5. QED BY <4>2, <4>3, <4>4
    <3>4. QED BY <3>1, <3>2, <3>3 DEF TasksOK
  <2>7. home' \in [Conv -> Cwd] /\ file' \in [Conv -> File] /\ booting' \in SUBSET Conv
    <3>1. f \in File BY <2>1
    <3>2. QED BY <3>1, <2>1, <2>2 DEF IInv, TypeOK
  <2>8. QED BY <2>4, <2>5, <2>6, <2>7
<1>2. CASE convSeq = MaxConvs
  <2>1. Then(s, target) /\ UNCHANGED <<records, booting>>
    BY <1>2, ConstantsAssumption DEF StartBoot, IInv, TypeOK, Conv
  <2>2. /\ convSeq' = convSeq /\ home' = home /\ file' = file /\ booting' = booting
    BY <2>1 DEF records
  <2>3. /\ task' \in [Slot -> Task]
        /\ \A x \in Slot : x # s => task'[x] = task[x]
        /\ task'[s].op \in {"idle", "drop"}
        /\ task'[s].op = "drop" => task'[s].target \in Conv
    BY <2>1, ThenTask DEF IInv
  <2>4. TasksOK'
    BY <2>2, <2>3, KeptTasks DEF IInv
  <2>5. QED BY <2>2, <2>3, <2>4 DEF IInv, TypeOK, Conv
<1>3. QED BY <1>1, <1>2, ConstantsAssumption DEF IInv, TypeOK, Conv

(* Any handler step that creates no new conversation.                       *)
LEMMA StepTasks ==
  ASSUME TasksOK, NEW s \in Slot, convSeq' = convSeq,
         \A x \in Slot : x # s => task'[x] = task[x],
         task'[s].op \in {"prompt", "prompted", "abort", "settle"}
           => task'[s].conv \in Conv,
         task'[s].op \in {"vacate", "drop"} => task'[s].target \in Conv,
         task'[s].op \in {"boot", "bind"}
           => task[s].op \in {"boot", "bind"} /\ task'[s].conv = task[s].conv
  PROVE  TasksOK'
<1>1. ASSUME NEW x \in Slot, NEW y \in Slot, Making(x)', Making(y)', x # y
      PROVE  task'[x].conv # task'[y].conv
  <2>1. \A z \in Slot : Making(z)' => Making(z) /\ task'[z].conv = task[z].conv
    BY DEF Making
  <2>2. QED BY <1>1, <2>1 DEF TasksOK
<1>2. QED BY <1>1 DEF TasksOK, Making

LEMMA NewChatCoreIInv ==
  ASSUME IInv, NEW s \in Slot, NEW target \in Conv \cup {None}, NewChatCore(s, target),
         UNCHANGED <<storage, resets, quiesced>>
  PROVE  IInv'
<1> DEFINE blanks == {c \in convs : c # activeId /\ home[c] = cwd /\ IsBlank(c)}
<1> DEFINE settled == quiesced \/ IsBlank(activeId) \/ (blanks = {} /\ Full(cwd, {}))
<1>0. /\ saved' = saved /\ recent' = recent /\ reset' = reset
      /\ rebinding' = rebinding /\ quiesced' = quiesced
  BY DEF storage, resets
<1>1. CASE /\ Then(s, target)
           /\ UNCHANGED <<table, marks, records, sessions, booting>>
  <2>1. /\ task' \in [Slot -> Task]
        /\ \A x \in Slot : x # s => task'[x] = task[x]
        /\ task'[s].op \in {"idle", "drop"}
        /\ task'[s].op = "drop" => task'[s].target \in Conv
    BY <1>1, ThenTask DEF IInv
  <2>2. TasksOK'
    BY <1>1, <2>1, KeptTasks DEF IInv, records
  <2>3. QED
    BY <1>0, <1>1, <2>1, <2>2 DEF IInv, TypeOK, table, marks, records, sessions
<1>2. CASE /\ \E c \in blanks : SwitchTo(c)
           /\ Then(s, target)
           /\ UNCHANGED <<records, booting>>
  <2>1. PICK c \in convs : SwitchTo(c)
    BY <1>2
  <2>2. /\ task' \in [Slot -> Task]
        /\ \A x \in Slot : x # s => task'[x] = task[x]
        /\ task'[s].op \in {"idle", "drop"}
        /\ task'[s].op = "drop" => task'[s].target \in Conv
    BY <1>2, ThenTask DEF IInv
  <2>3. TasksOK'
    BY <1>2, <2>2, KeptTasks DEF IInv, records
  <2>4. QED
    BY <1>0, <1>2, <2>1, <2>2, <2>3, SwitchTable DEF IInv, TypeOK, records
<1>3. CASE /\ listed' = Promoted
           /\ StartBoot(s, "newChat", cwd, NextId, Displaced, None, target, FALSE)
           /\ UNCHANGED <<table, prompted, sessions>>
  <2>1. Displaced \in Conv \cup {None} /\ cwd \in Cwd /\ "newChat" \in Kind
    BY DEF Displaced, IInv, TypeOK, Kind
  <2>2. /\ convSeq' \in Conv /\ convSeq <= convSeq'
        /\ home' \in [Conv -> Cwd] /\ file' \in [Conv -> File]
        /\ booting' \in SUBSET Conv
        /\ task' \in [Slot -> Task] /\ TasksOK'
    BY <1>3, <2>1, BootTask
  <2>3. listed' \in SUBSET Conv
    BY <1>3 DEF Promoted, IInv, TypeOK
  <2>4. 1..convSeq \subseteq 1..convSeq'
    BY <2>2 DEF IInv, TypeOK, Conv
  <2>5. QED
    BY <1>0, <1>3, <2>2, <2>3, <2>4 DEF IInv, TypeOK, table, sessions
<1>4. QED BY <1>1, <1>2, <1>3 DEF NewChatCore

LEMMA NewChatIInv ==
  ASSUME IInv, NEW s \in Slot, NEW target \in Conv \cup {None}, NewChatAdmitted(s, target),
         UNCHANGED <<storage, resets, quiesced>>
  PROVE  IInv'
<1>1. CASE Then(s, target) /\ UNCHANGED <<table, marks, records, sessions, booting>>
  <2>1. /\ task' \in [Slot -> Task]
        /\ \A x \in Slot : x # s => task'[x] = task[x]
        /\ task'[s].op \in {"idle", "drop"}
        /\ task'[s].op = "drop" => task'[s].target \in Conv
    BY <1>1, ThenTask DEF IInv
  <2>2. TasksOK'
    BY <1>1, <2>1, KeptTasks DEF IInv, records
  <2>3. QED
    BY <1>1, <2>1, <2>2
    DEF IInv, TypeOK, table, marks, records, sessions, storage, resets
<1>2. CASE NewChatCore(s, target)
  BY <1>2, NewChatCoreIInv
<1>3. QED BY <1>1, <1>2 DEF NewChatAdmitted

LEMMA VacateIInv ==
  ASSUME IInv, NEW s \in Slot, NEW c \in Conv, Vacate(s, c),
         UNCHANGED <<storage, resets, quiesced>>
  PROVE  IInv'
<1>0. /\ saved' = saved /\ recent' = recent /\ reset' = reset
      /\ rebinding' = rebinding /\ quiesced' = quiesced
  BY DEF storage, resets
<1>1. CASE /\ c # activeId
           /\ convs' = convs \ {c}
           /\ Close({c} \cap convs, {}, listed, prompted)
           /\ task' = [task EXCEPT ![s] = Idle]
           /\ UNCHANGED <<activeId, cwd, records, booting>>
  <2>1. /\ listed' \in SUBSET Conv /\ prompted' \in SUBSET Conv
        /\ run' \in [Conv -> RunState] /\ term' \in [Conv -> {"none", "live", "exited"}]
        /\ bound' \in SUBSET Conv /\ live' \in SUBSET Conv /\ msgs' \in SUBSET Conv
    BY <1>1, CloseTypes DEF IInv, TypeOK
  <2>2. /\ task' \in [Slot -> Task]
        /\ \A x \in Slot : x # s => task'[x] = task[x]
        /\ task'[s].op = "idle"
    BY <1>1, IdleTask DEF IInv, TypeOK
  <2>3. TasksOK'
    BY <1>1, <2>2, KeptTasks DEF IInv, records
  <2>4. QED BY <1>0, <1>1, <2>1, <2>2, <2>3 DEF IInv, TypeOK, records
<1>2. CASE /\ c = activeId
           /\ \E o \in {o \in convs : o # c /\ o \in listed} : SwitchTo(o)
           /\ Then(s, c)
           /\ UNCHANGED <<records, booting>>
  <2>1. PICK o \in convs : SwitchTo(o)
    BY <1>2
  <2>2. /\ task' \in [Slot -> Task]
        /\ \A x \in Slot : x # s => task'[x] = task[x]
        /\ task'[s].op \in {"idle", "drop"}
        /\ task'[s].op = "drop" => task'[s].target \in Conv
    BY <1>2, ThenTask DEF IInv
  <2>3. TasksOK'
    BY <1>2, <2>2, KeptTasks DEF IInv, records
  <2>4. QED BY <1>0, <1>2, <2>1, <2>2, <2>3, SwitchTable DEF IInv, TypeOK, records
<1>3. CASE NewChatAdmitted(s, c)
  BY <1>3, NewChatIInv
<1>4. QED BY <1>1, <1>2, <1>3 DEF Vacate

LEMMA CommandIInv ==
  ASSUME IInv, NEW s \in Slot, Command(s)
  PROVE  IInv'
<1> USE DEF Accepts, Free
<1>1. CASE NewChat(s)
  BY <1>1, NewChatIInv DEF NewChat
<1>2. CASE Prompt(s)
  <2>1. /\ task' \in [Slot -> Task]
        /\ \A x \in Slot : x # s => task'[x] = task[x]
        /\ task'[s].op = "prompt" /\ task'[s].conv = activeId
    BY <1>2, IdleTask DEF Prompt, IInv, TypeOK, Task, Idle
  <2>2. TasksOK'
    BY <1>2, <2>1, StepTasks DEF Prompt, IInv, TypeOK, records
  <2>3. QED
    BY <1>2, <2>1, <2>2 DEF Prompt, IInv, TypeOK, table, marks, records, sessions, storage, resets
<1>3. CASE Stop(s)
  <2>1. /\ task' \in [Slot -> Task]
        /\ \A x \in Slot : x # s => task'[x] = task[x]
        /\ task'[s].op = "abort" /\ task'[s].conv = activeId
    BY <1>3, IdleTask DEF Stop, IInv, TypeOK, Task, Idle
  <2>2. TasksOK'
    BY <1>3, <2>1, StepTasks DEF Stop, IInv, TypeOK, records
  <2>3. QED
    BY <1>3, <2>1, <2>2 DEF Stop, IInv, TypeOK, table, marks, records, sessions, storage, resets
<1>4. CASE OpenTerminal(s)
  BY <1>4 DEF OpenTerminal, IInv, TypeOK, TasksOK, Making, table, marks, records, storage, resets
<1>5. CASE \E w \in Cwd : NewChatIn(s, w) \/ SetCwd(s, w)
  <2>1. PICK w \in Cwd : NewChatIn(s, w) \/ SetCwd(s, w)
    BY <1>5
  <2>2. /\ task' \in [Slot -> Task]
        /\ \A x \in Slot : x # s => task'[x] = task[x]
        /\ task'[s].op \in {"resolve", "resolveNew"}
    <3>1. CASE NewChatIn(s, w)
      BY <3>1, IdleTask DEF NewChatIn, IInv, TypeOK, Task, Idle
    <3>2. CASE SetCwd(s, w)
      BY <3>2, IdleTask DEF SetCwd, IInv, TypeOK, Task, Idle
    <3>3. QED BY <2>1, <3>1, <3>2
  <2>3. UNCHANGED <<table, marks, records, sessions, storage, resets, booting, quiesced>>
    BY <2>1 DEF NewChatIn, SetCwd
  <2>4. TasksOK'
    BY <2>2, <2>3, KeptTasks DEF IInv, records
  <2>5. QED
    BY <2>2, <2>3, <2>4 DEF IInv, TypeOK, table, marks, records, sessions, storage, resets
<1>6. CASE \E f \in File : SwitchSession(s, f)
  <2>1. PICK f \in File : SwitchSession(s, f)
    BY <1>6
  <2>2. CASE (\E c \in Holders(f) \ {activeId} : SwitchTo(c)) /\ UNCHANGED <<records, booting, task>>
    <3>1. PICK c \in convs : SwitchTo(c)
      BY <2>2 DEF Holders
    <3>2. QED
      BY <2>1, <2>2, <3>1, SwitchTable
      DEF SwitchSession, IInv, TypeOK, TasksOK, Making, records, storage, resets
  <2>3. CASE /\ StartBoot(s, "session", FileCwd(f), f, None, None, None, FALSE)
             /\ UNCHANGED <<table, marks, sessions>>
    <3>1. FileCwd(f) \in Cwd /\ "session" \in Kind
      BY ConstantsAssumption DEF FileCwd, IInv, TypeOK, File, Kind
    <3>2. /\ convSeq' \in Conv /\ convSeq <= convSeq'
          /\ home' \in [Conv -> Cwd] /\ file' \in [Conv -> File]
          /\ booting' \in SUBSET Conv
          /\ task' \in [Slot -> Task] /\ TasksOK'
      BY <2>3, <3>1, BootTask
    <3>3. 1..convSeq \subseteq 1..convSeq'
      BY <3>2 DEF IInv, TypeOK, Conv
    <3>4. QED
      BY <2>1, <2>3, <3>2, <3>3
      DEF SwitchSession, IInv, TypeOK, table, marks, sessions, storage, resets
  <2>4. QED BY <2>1, <2>2, <2>3 DEF SwitchSession
<1>7. CASE \E c \in Conv : SwitchConversation(s, c)
  <2>1. PICK c \in convs : SwitchConversation(s, c)
    BY <1>7 DEF SwitchConversation
  <2>2. QED
    BY <2>1, SwitchTable
    DEF SwitchConversation, IInv, TypeOK, TasksOK, Making, records, storage, resets
<1>8. CASE \E c \in Conv : Dismiss(s, c)
  BY <1>8, VacateIInv DEF Dismiss
<1>9. CASE \E c \in Conv : ForceDismiss(s, c)
  <2>1. PICK c \in Conv : ForceDismiss(s, c)
    BY <1>9
  <2>2. CASE Vacate(s, c)
    BY <2>1, <2>2, VacateIInv DEF ForceDismiss
  <2>3. CASE /\ task' = [task EXCEPT ![s] =
                      [Idle EXCEPT !.op = "abort", !.conv = c, !.target = c]]
             /\ UNCHANGED <<table, marks, records, sessions, booting>>
    <3>1. /\ task' \in [Slot -> Task]
          /\ \A x \in Slot : x # s => task'[x] = task[x]
          /\ task'[s].op = "abort" /\ task'[s].conv = c
      BY <2>3, IdleTask DEF IInv, TypeOK, Task, Idle
    <3>2. TasksOK'
      BY <2>3, <3>1, StepTasks DEF IInv, records
    <3>3. QED
      BY <2>1, <2>3, <3>1, <3>2
      DEF ForceDismiss, IInv, TypeOK, table, marks, records, sessions, storage, resets
  <2>4. QED BY <2>1, <2>2, <2>3 DEF ForceDismiss
<1>10. QED
  BY <1>1, <1>2, <1>3, <1>4, <1>5, <1>6, <1>7, <1>8, <1>9 DEF Command

LEMMA ActsOn ==
  ASSUME IInv, NEW s \in Slot,
         task[s].op \in {"boot", "bind", "prompt", "prompted", "abort", "settle"}
  PROVE  /\ task[s].conv \in Conv
         /\ task[s].op \in {"boot", "bind"} => task[s].conv \in 1..convSeq
<1>1. 1..convSeq \subseteq Conv
  BY ConstantsAssumption DEF IInv, TypeOK, Conv
<1>2. QED BY <1>1 DEF IInv, TasksOK, Making

(* The handlers that make a conversation active.                            *)
LEMMA BootIInv ==
  ASSUME IInv, NEW s \in Slot,
         Booted(s) \/ SessionBooted(s) \/ BootFails(s) \/ Bound(s)
  PROVE  IInv'
<1> DEFINE t == task[s]
<1>1. CASE Booted(s)
  <2>1. t.conv \in 1..convSeq /\ t.conv \in Conv
    BY <1>1, ActsOn DEF Booted
  <2>2. /\ listed' \in SUBSET Conv /\ prompted' \in SUBSET Conv
        /\ run' \in [Conv -> RunState] /\ term' \in [Conv -> {"none", "live", "exited"}]
        /\ bound' \in SUBSET Conv /\ live' \in SUBSET Conv /\ msgs' \in SUBSET Conv
    BY <1>1, <2>1, CloseTypes DEF Booted, IInv, TypeOK
  <2>3. /\ task' \in [Slot -> Task]
        /\ \A x \in Slot : x # s => task'[x] = task[x]
        /\ task'[s].op = "bind" /\ task'[s].conv = t.conv
    BY <1>1 DEF Booted, IInv, TypeOK, Task
  <2>4. TasksOK'
    BY <1>1, <2>1, <2>3, StepTasks DEF Booted, IInv, records
  <2>5. activeId' \in convs' /\ convs' \subseteq 1..convSeq /\ convs' \in SUBSET Conv
    BY <1>1, <2>1 DEF Booted, Removable, IInv, TypeOK
  <2>6. QED
    BY <1>1, <2>1, <2>2, <2>3, <2>4, <2>5 DEF Booted, IInv, TypeOK, records, storage, resets
<1>2. CASE SessionBooted(s)
  <2>1. t.conv \in 1..convSeq /\ t.conv \in Conv /\ t.op = "boot"
    BY <1>2, ActsOn DEF SessionBooted
  <2>2. CASE /\ booting' = Ungated(t.conv)
             /\ task' = [task EXCEPT ![s] = Idle]
             /\ UNCHANGED <<table, marks, sessions>>
    <3>1. /\ task' \in [Slot -> Task]
          /\ \A x \in Slot : x # s => task'[x] = task[x]
          /\ task'[s].op = "idle"
      BY <2>2, IdleTask DEF IInv, TypeOK
    <3>2. TasksOK'
      BY <1>2, <3>1, KeptTasks DEF SessionBooted, IInv, records
    <3>3. QED
      BY <1>2, <2>2, <3>1, <3>2
      DEF SessionBooted, Ungated, IInv, TypeOK, table, marks, records, sessions, storage, resets
  <2>3. CASE /\ convs' = (convs \cup {t.conv}) \ Removable(Displaced, t.conv)
             /\ activeId' = t.conv
             /\ Close(Removable(Displaced, t.conv), {t.conv}, Promoted, prompted \cup {t.conv})
             /\ task' = [task EXCEPT ![s].op = "bind"]
             /\ UNCHANGED <<cwd, booting>>
    <3>1. Promoted \in SUBSET Conv
      BY DEF Promoted, IInv, TypeOK
    <3>2. /\ listed' \in SUBSET Conv /\ prompted' \in SUBSET Conv
          /\ run' \in [Conv -> RunState] /\ term' \in [Conv -> {"none", "live", "exited"}]
          /\ bound' \in SUBSET Conv /\ live' \in SUBSET Conv /\ msgs' \in SUBSET Conv
      <4>1. {t.conv} \in SUBSET Conv /\ prompted \cup {t.conv} \in SUBSET Conv
        BY <2>1 DEF IInv, TypeOK
      <4>2. QED BY <2>3, <3>1, <4>1, CloseTypes DEF IInv
    <3>3. /\ task' \in [Slot -> Task]
          /\ \A x \in Slot : x # s => task'[x] = task[x]
          /\ task'[s].op = "bind" /\ task'[s].conv = t.conv
      BY <2>3 DEF IInv, TypeOK, Task
    <3>4. TasksOK'
      BY <1>2, <2>1, <3>3, StepTasks DEF SessionBooted, IInv, records
    <3>5. activeId' \in convs' /\ convs' \subseteq 1..convSeq /\ convs' \in SUBSET Conv
      BY <2>3, <2>1 DEF Removable, IInv, TypeOK
    <3>6. QED
      BY <1>2, <2>1, <2>3, <3>2, <3>3, <3>4, <3>5
      DEF SessionBooted, IInv, TypeOK, records, storage, resets
  <2>4. QED BY <1>2, <2>2, <2>3 DEF SessionBooted
<1>3. ASSUME TRUE PROVE [Idle EXCEPT !.op = "thenNew", !.dir = t.dir, !.flag = TRUE] \in Task
  BY IdleTask DEF IInv, TypeOK, Task, Idle
<1>4. t.target \in Conv \cup {None}
  BY DEF IInv, TypeOK, Task
<1>5. CASE BootFails(s)
  <2>1. /\ task' \in [Slot -> Task]
        /\ \A x \in Slot : x # s => task'[x] = task[x]
        /\ task'[s].op \in {"idle", "drop", "thenNew"}
        /\ task'[s].op = "drop" => task'[s].target \in Conv
    <3>1. CASE Then(s, t.target)
      BY <1>4, <3>1, ThenTask DEF IInv
    <3>2. CASE task' = [task EXCEPT ![s] = [Idle EXCEPT !.op = "thenNew", !.dir = t.dir, !.flag = TRUE]]
      BY <1>3, <3>2 DEF IInv, TypeOK, Idle
    <3>3. CASE task' = [task EXCEPT ![s] = Idle]
      BY <3>3, IdleTask DEF IInv, TypeOK
    <3>4. QED BY <1>5, <3>1, <3>2, <3>3 DEF BootFails
  <2>2. TasksOK'
    BY <1>5, <2>1, KeptTasks DEF BootFails, IInv, records
  <2>3. QED
    BY <1>5, <2>1, <2>2
    DEF BootFails, Ungated, IInv, TypeOK, table, records, sessions, storage, resets
<1>6. CASE Bound(s)
  <2>1. /\ task' \in [Slot -> Task]
        /\ \A x \in Slot : x # s => task'[x] = task[x]
        /\ task'[s].op \in {"idle", "drop", "thenNew"}
        /\ task'[s].op = "drop" => task'[s].target \in Conv
    <3>1. CASE Then(s, t.target)
      BY <1>4, <3>1, ThenTask DEF IInv
    <3>2. CASE task' = [task EXCEPT ![s] = [Idle EXCEPT !.op = "thenNew", !.dir = t.dir, !.flag = TRUE]]
      BY <1>3, <3>2 DEF IInv, TypeOK, Idle
    <3>4. QED BY <1>6, <3>1, <3>2 DEF Bound
  <2>2. TasksOK'
    BY <1>6, <2>1, KeptTasks DEF Bound, IInv, records
  <2>3. t.conv \in Conv /\ t.dir \in Cwd
    BY <1>6, ActsOn DEF Bound, IInv, TypeOK, Task
  <2>4. cwd' \in Cwd /\ prompted' \in SUBSET Conv /\ bound' \in SUBSET Conv
    BY <1>6, <2>3 DEF Bound, WorkspaceAfter, IInv, TypeOK
  <2>5. QED
    BY <1>6, <2>1, <2>2, <2>4 DEF Bound, Ungated, IInv, TypeOK, records, storage, resets
<1>7. QED BY <1>1, <1>2, <1>5, <1>6

(* agent_end only marks handlers.                                           *)
LEMMA SeenEndTasks ==
  ASSUME IInv, NEW c \in Conv, task' = SeenEnd(c), convSeq' = convSeq
  PROVE  task' \in [Slot -> Task] /\ TasksOK'
<1>1. ASSUME NEW s \in Slot
      PROVE  /\ task'[s] \in Task /\ task'[s].op = task[s].op
             /\ task'[s].conv = task[s].conv /\ task'[s].target = task[s].target
  <2>1. task[s] \in Task
    BY DEF IInv, TypeOK
  <2>2. [task[s] EXCEPT !.flag = TRUE] \in Task
    BY <2>1 DEF Task
  <2>3. task'[s] \in {task[s], [task[s] EXCEPT !.flag = TRUE]}
    BY DEF SeenEnd
  <2>4. QED BY <2>1, <2>2, <2>3 DEF Task
<1>2. task' \in [Slot -> Task]
  BY <1>1 DEF SeenEnd
<1>3. \A s \in Slot : Making(s)' = Making(s)
  BY <1>1 DEF Making
<1>4. QED BY <1>1, <1>2, <1>3 DEF IInv, TasksOK

LEMMA ForceTypes ==
  ASSUME IInv, NEW c \in Conv, ForceReset(c)
  PROVE  /\ run' \in [Conv -> RunState] /\ bound' \in SUBSET Conv
         /\ reset' \in [Conv -> {"no", "dispose", "boot"}]
  BY DEF ForceReset, IInv, TypeOK, RunState

(* The other continuations of a handler.                                    *)
LEMMA ContinueIInv ==
  ASSUME IInv, NEW s \in Slot, Continue(s)
  PROVE  IInv'
<1> DEFINE t == task[s]
<1>0. t \in Task
  BY DEF IInv, TypeOK
<1>1. CASE ResolveNew(s)
  <2>1. t.dir \in Cwd /\ "workspace" \in Kind
    BY <1>0 DEF Task, Kind
  <2>2. CASE /\ listed' = Promoted
             /\ StartBoot(s, "workspace", t.dir, NextId, Displaced, NewlyListed, None, FALSE)
             /\ UNCHANGED <<table, prompted, sessions>>
    <3>1. Displaced \in Conv \cup {None} /\ NewlyListed \in Conv \cup {None}
      BY DEF Displaced, NewlyListed, IInv, TypeOK
    <3>2. /\ convSeq' \in Conv /\ convSeq <= convSeq'
          /\ home' \in [Conv -> Cwd] /\ file' \in [Conv -> File]
          /\ booting' \in SUBSET Conv
          /\ task' \in [Slot -> Task] /\ TasksOK'
      BY <2>1, <2>2, <3>1, BootTask
    <3>3. listed' \in SUBSET Conv /\ 1..convSeq \subseteq 1..convSeq'
      BY <2>2, <3>2 DEF Promoted, IInv, TypeOK, Conv
    <3>4. QED
      BY <1>1, <2>2, <3>2, <3>3
      DEF ResolveNew, IInv, TypeOK, table, sessions, storage, resets
  <2>3. CASE /\ task' = [task EXCEPT ![s].op = "resolve", ![s].flag = TRUE]
             /\ UNCHANGED <<table, marks, records, sessions, booting>>
    <3>1. /\ task' \in [Slot -> Task]
          /\ \A x \in Slot : x # s => task'[x] = task[x]
          /\ task'[s].op = "resolve"
      BY <1>0, <2>3 DEF IInv, TypeOK, Task
    <3>2. TasksOK'
      BY <2>3, <3>1, KeptTasks DEF IInv, records
    <3>3. QED
      BY <1>1, <2>3, <3>1, <3>2
      DEF ResolveNew, IInv, TypeOK, table, marks, records, sessions, storage, resets
  <2>4. QED BY <1>1, <2>2, <2>3 DEF ResolveNew
<1>2. CASE Resolve(s)
  <2> DEFINE next == IF t.flag THEN [t EXCEPT !.op = "thenNew"] ELSE Idle
  <2>1. t.dir \in Cwd /\ "cwd" \in Kind /\ t.flag \in BOOLEAN
    BY <1>0 DEF Task, Kind
  <2>2. next \in Task /\ next.op \in {"idle", "thenNew"}
    BY <1>0, IdleTask DEF Task
  <2>3. CASE task' = [task EXCEPT ![s] = next] /\ UNCHANGED <<records, booting>>
    <3>1. /\ task' \in [Slot -> Task]
          /\ \A x \in Slot : x # s => task'[x] = task[x]
          /\ task'[s].op \in {"idle", "thenNew"}
      BY <2>2, <2>3 DEF IInv, TypeOK
    <3>2. TasksOK'
      BY <2>3, <3>1, KeptTasks DEF IInv, records
    <3>3. CASE UNCHANGED <<table, marks, records, sessions, booting>>
      BY <1>2, <3>1, <3>2, <3>3
      DEF Resolve, IInv, TypeOK, table, marks, records, sessions, storage, resets
    <3>4. CASE \E c \in OpenIn(t.dir) : SwitchTo(c)
      <4>1. PICK c \in convs : SwitchTo(c)
        BY <3>4 DEF OpenIn
      <4>2. QED
        BY <1>2, <2>3, <3>1, <3>2, <4>1, SwitchTable
        DEF Resolve, IInv, TypeOK, records, storage, resets
    <3>5. CASE StartBoot(s, "cwd", t.dir, ContinueRecent(t.dir, NextId), Displaced, None, None, t.flag)
               /\ listed' = Promoted /\ UNCHANGED <<table, prompted, sessions>>
      <4>1. listed' \in SUBSET Conv
        BY <3>5 DEF Promoted, IInv, TypeOK
      <4>2. QED
        BY <1>2, <2>3, <3>1, <3>2, <3>5, <4>1
        DEF Resolve, IInv, TypeOK, table, records, sessions, storage, resets
    <3>6. QED BY <1>2, <3>3, <3>4, <3>5 DEF Resolve
  <2>4. CASE /\ listed' = Promoted
             /\ StartBoot(s, "cwd", t.dir, ContinueRecent(t.dir, NextId), Displaced, None, None, t.flag)
             /\ UNCHANGED <<table, prompted, sessions>>
    <3>1. Displaced \in Conv \cup {None}
      BY DEF Displaced, IInv, TypeOK
    <3>2. ContinueRecent(t.dir, NextId) \in File \cup {NextId}
      BY <2>1 DEF ContinueRecent, IInv, TypeOK
    <3>3. /\ convSeq' \in Conv /\ convSeq <= convSeq'
          /\ home' \in [Conv -> Cwd] /\ file' \in [Conv -> File]
          /\ booting' \in SUBSET Conv
          /\ task' \in [Slot -> Task] /\ TasksOK'
      BY <2>1, <2>4, <3>1, <3>2, BootTask
    <3>4. listed' \in SUBSET Conv /\ 1..convSeq \subseteq 1..convSeq'
      BY <2>4, <3>3 DEF Promoted, IInv, TypeOK, Conv
    <3>5. QED
      BY <1>2, <2>4, <3>3, <3>4 DEF Resolve, IInv, TypeOK, table, sessions, storage, resets
  <2>5. QED BY <1>2, <2>3, <2>4 DEF Resolve
<1>3. CASE ResolveFails(s)
  <2>1. /\ task' \in [Slot -> Task]
        /\ \A x \in Slot : x # s => task'[x] = task[x]
        /\ task'[s].op \in {"idle", "thenNew"}
    BY <1>0, <1>3, IdleTask DEF ResolveFails, IInv, TypeOK, Task
  <2>2. TasksOK'
    BY <1>3, <2>1, KeptTasks DEF ResolveFails, IInv, records
  <2>3. QED
    BY <1>3, <2>1, <2>2
    DEF ResolveFails, IInv, TypeOK, table, marks, records, sessions, storage, resets
<1>4. CASE ThenNewChat(s)
  <2>1. CASE NewChatCore(s, None)
    BY <1>4, <2>1, NewChatCoreIInv DEF ThenNewChat
  <2>2. CASE /\ task' = [task EXCEPT ![s] = Idle]
             /\ UNCHANGED <<table, marks, records, sessions, booting>>
    <3>1. /\ task' \in [Slot -> Task]
          /\ \A x \in Slot : x # s => task'[x] = task[x]
          /\ task'[s].op = "idle"
      BY <2>2, IdleTask DEF IInv, TypeOK
    <3>2. TasksOK'
      BY <2>2, <3>1, KeptTasks DEF IInv, records
    <3>3. QED
      BY <1>4, <2>2, <3>1, <3>2
      DEF ThenNewChat, IInv, TypeOK, table, marks, records, sessions, storage, resets
  <2>3. QED BY <1>4, <2>1, <2>2 DEF ThenNewChat
<1>5. CASE Booted(s) \/ SessionBooted(s) \/ BootFails(s) \/ Bound(s)
  BY <1>5, BootIInv
<1>6. CASE ForceVacate(s)
  <2>1. t.target \in Conv
    BY <1>6 DEF ForceVacate, IInv, TasksOK
  <2>2. QED BY <1>6, <2>1, VacateIInv DEF ForceVacate
<1>7. CASE DropTarget(s)
  <2>1. /\ listed' \in SUBSET Conv /\ prompted' \in SUBSET Conv
        /\ run' \in [Conv -> RunState] /\ term' \in [Conv -> {"none", "live", "exited"}]
        /\ bound' \in SUBSET Conv /\ live' \in SUBSET Conv /\ msgs' \in SUBSET Conv
    BY <1>7, CloseTypes DEF DropTarget, IInv, TypeOK
  <2>2. /\ task' \in [Slot -> Task]
        /\ \A x \in Slot : x # s => task'[x] = task[x]
        /\ task'[s].op = "idle"
    BY <1>7, IdleTask DEF DropTarget, IInv, TypeOK
  <2>3. TasksOK'
    BY <1>7, <2>2, KeptTasks DEF DropTarget, IInv, records
  <2>4. QED
    BY <1>7, <2>1, <2>2, <2>3
    DEF DropTarget, Removable, IInv, TypeOK, records, storage, resets
<1>8. CASE Deliver(s) \/ DeliverFails(s)
  <2>1. t.conv \in Conv
    BY <1>8, ActsOn DEF Deliver, DeliverFails
  <2>2. /\ task' \in [Slot -> Task]
        /\ \A x \in Slot : x # s => task'[x] = task[x]
        /\ task'[s].op = "prompted" /\ task'[s].conv = t.conv
    BY <1>0, <1>8 DEF Deliver, DeliverFails, IInv, TypeOK, Task
  <2>3. convSeq' = convSeq
    BY <1>8 DEF Deliver, DeliverFails, records
  <2>4. TasksOK'
    BY <2>1, <2>2, <2>3, StepTasks DEF IInv
  <2>5. run' \in [Conv -> RunState] /\ msgs' \in SUBSET Conv
    BY <1>8, <2>1 DEF Deliver, DeliverFails, IInv, TypeOK, RunState, sessions
  <2>6. UNCHANGED <<table, marks, records, term, bound, live, storage, resets, booting, quiesced>>
    BY <1>8 DEF Deliver, DeliverFails, sessions
  <2>7. QED
    BY <2>2, <2>4, <2>5, <2>6 DEF IInv, TypeOK, table, marks, records, storage, resets
<1>9. CASE Prompted(s)
  <2>1. /\ task' \in [Slot -> Task]
        /\ \A x \in Slot : x # s => task'[x] = task[x]
        /\ task'[s].op = "idle"
    BY <1>9, IdleTask DEF Prompted, IInv, TypeOK
  <2>2. TasksOK'
    BY <1>9, <2>1, KeptTasks DEF Prompted, IInv, records
  <2>3. prompted' \in SUBSET Conv
    BY <1>9 DEF Prompted, IInv, TypeOK
  <2>4. QED
    BY <1>9, <2>1, <2>2, <2>3
    DEF Prompted, IInv, TypeOK, table, records, sessions, storage, resets
<1>10. CASE AbortStops(s)
  BY <1>10, SeenEndTasks, ActsOn
  DEF AbortStops, IInv, TypeOK, RunState, table, marks, records, storage, resets
<1>11. CASE AbortReturns(s) \/ HardAbort(s)
  <2>1. t.conv \in Conv
    BY <1>11, ActsOn DEF AbortReturns, HardAbort
  <2>2. /\ task' \in [Slot -> Task]
        /\ \A x \in Slot : x # s => task'[x] = task[x]
        /\ task'[s].op = "settle" /\ task'[s].conv = t.conv
    <3>1. CASE AbortReturns(s)
      BY <1>0, <3>1 DEF AbortReturns, IInv, TypeOK, Task
    <3>2. CASE HardAbort(s)
      BY <1>0, <3>2 DEF HardAbort, IInv, TypeOK, Task
    <3>3. QED BY <1>11, <3>1, <3>2
  <2>3. convSeq' = convSeq
    BY <1>11 DEF AbortReturns, HardAbort, records
  <2>4. TasksOK'
    BY <2>1, <2>2, <2>3, StepTasks DEF IInv
  <2>5. CASE AbortReturns(s)
    BY <2>2, <2>4, <2>5
    DEF AbortReturns, IInv, TypeOK, table, marks, records, sessions, storage, resets
  <2>6. CASE HardAbort(s)
    <3>1. /\ run' \in [Conv -> RunState] /\ bound' \in SUBSET Conv
          /\ reset' \in [Conv -> {"no", "dispose", "boot"}]
      BY <2>1, <2>6, ForceTypes DEF HardAbort
    <3>2. QED
      BY <2>2, <2>4, <2>6, <3>1 DEF HardAbort, IInv, TypeOK, table, marks, records, storage
  <2>7. QED BY <1>11, <2>5, <2>6
<1>12. CASE Settled(s)
  <2>1. t.conv \in Conv
    BY <1>12, ActsOn DEF Settled
  <2>2. /\ task' \in [Slot -> Task]
        /\ \A x \in Slot : x # s => task'[x] = task[x]
        /\ task'[s].op \in {"idle", "vacate"}
        /\ task'[s].op = "vacate" => task'[s].target \in Conv
    BY <1>0, <1>12, IdleTask DEF Settled, AfterInterrupt, IInv, TypeOK, Task, Idle
  <2>3. TasksOK'
    BY <1>12, <2>2, KeptTasks DEF Settled, IInv, records
  <2>4. /\ run' \in [Conv -> RunState] /\ bound' \in SUBSET Conv
        /\ reset' \in [Conv -> {"no", "dispose", "boot"}]
    <3>1. CASE UNCHANGED <<reset, bound, run>>
      BY <3>1 DEF IInv, TypeOK
    <3>2. CASE ForceReset(t.conv)
      BY <3>2, <2>1, ForceTypes
    <3>3. QED BY <1>12, <3>1, <3>2 DEF Settled
  <2>5. QED
    BY <1>12, <2>2, <2>3, <2>4 DEF Settled, IInv, TypeOK, table, marks, records, storage
<1>13. QED
  BY <1>1, <1>2, <1>3, <1>4, <1>5, <1>6, <1>7, <1>8, <1>9, <1>10, <1>11, <1>12
  DEF Continue

(* Steps of the agent, of a forced reset, and of the watchdog.              *)
LEMMA OtherIInv ==
  ASSUME IInv, NEW c \in Conv,
         \/ ResetStep(c) \/ Rebound(c) \/ Agent(c)
         \/ \E s \in Slot : Watchdog(s, c)
  PROVE  IInv'
<1>1. CASE RunEnds(c)
  BY <1>1, SeenEndTasks
  DEF RunEnds, IInv, TypeOK, RunState, table, marks, records, storage, resets
<1>2. CASE ModelHangs(c) \/ ToolHangs(c) \/ TerminalExits(c)
  BY <1>2
  DEF ModelHangs, ToolHangs, TerminalExits, IInv, TypeOK, RunState, TasksOK, Making,
      table, marks, records, storage, resets
<1>3. CASE Save(c)
  <2>1. file[c] \in File /\ home[c] \in Cwd
    BY DEF IInv, TypeOK
  <2>2. saved' \in SUBSET File /\ recent' \in [Cwd -> File \cup {None}]
    BY <1>3, <2>1 DEF Save, IInv, TypeOK
  <2>3. QED
    BY <1>3, <2>2
    DEF Save, IInv, TypeOK, TasksOK, Making, table, marks, records, sessions, resets
<1>4. CASE ResetDisposed(c)
  <2>1. ContinueRecent(home[c], c) \in File
    BY DEF ContinueRecent, IInv, TypeOK, File
  <2>2. file' \in [Conv -> File] /\ run' \in [Conv -> RunState]
    BY <1>4, <2>1 DEF ResetDisposed, IInv, TypeOK, RunState
  <2>3. QED
    BY <1>4, <2>2
    DEF ResetDisposed, IInv, TypeOK, TasksOK, Making, table, marks, storage
<1>5. CASE ResetBooted(c)
  <2>1. ASSUME NEW s \in Slot
        PROVE  /\ task'[s] \in Task /\ task'[s].op = task[s].op
               /\ task'[s].conv = task[s].conv /\ task'[s].target = task[s].target
    <3>1. task[s] \in Task
      BY DEF IInv, TypeOK
    <3>2. [task[s] EXCEPT !.flag = TRUE] \in Task
      BY <3>1 DEF Task
    <3>3. task'[s] \in {task[s], [task[s] EXCEPT !.flag = TRUE]}
      BY <1>5 DEF ResetBooted
    <3>4. QED BY <3>1, <3>2, <3>3 DEF Task
  <2>2. task' \in [Slot -> Task] /\ convSeq' = convSeq
    BY <1>5, <2>1 DEF ResetBooted, records
  <2>3. \A s \in Slot : Making(s)' = Making(s)
    BY <2>1 DEF Making
  <2>4. TasksOK'
    BY <2>1, <2>2, <2>3 DEF IInv, TasksOK
  <2>5. /\ live' \in SUBSET Conv /\ msgs' \in SUBSET Conv /\ bound' \in SUBSET Conv
        /\ rebinding' \in SUBSET Conv /\ reset' \in [Conv -> {"no", "dispose", "boot"}]
    BY <1>5 DEF ResetBooted, IInv, TypeOK
  <2>6. QED
    BY <1>5, <2>2, <2>4, <2>5 DEF ResetBooted, IInv, TypeOK, table, marks, records, storage
<1>6. CASE ResetFails(c)
  BY <1>6
  DEF ResetFails, IInv, TypeOK, TasksOK, Making, table, marks, records, sessions, storage
<1>7. CASE Rebound(c)
  BY <1>7
  DEF Rebound, IInv, TypeOK, TasksOK, Making, table, marks, records, storage
<1>8. CASE \E s \in Slot : Watchdog(s, c)
  <2>1. PICK s \in Slot : Watchdog(s, c)
    BY <1>8
  <2>2. /\ task' \in [Slot -> Task]
        /\ \A x \in Slot : x # s => task'[x] = task[x]
        /\ task'[s].op = "abort" /\ task'[s].conv = c
    BY <2>1, IdleTask DEF Watchdog, IInv, TypeOK, Task, Idle
  <2>3. TasksOK'
    BY <2>1, <2>2, StepTasks DEF Watchdog, IInv, records
  <2>4. QED
    BY <2>1, <2>2, <2>3
    DEF Watchdog, IInv, TypeOK, RunState, table, marks, records, storage, resets
<1>9. QED BY <1>1, <1>2, <1>3, <1>4, <1>5, <1>6, <1>7, <1>8 DEF ResetStep, Agent

LEMMA NextIInv == IInv /\ [Next]_vars => IInv'
<1> SUFFICES ASSUME IInv, [Next]_vars PROVE IInv'
  OBVIOUS
<1>1. CASE \E s \in Slot : Command(s)
  BY <1>1, CommandIInv
<1>2. CASE \E s \in Slot : Continue(s)
  BY <1>2, ContinueIInv
<1>3. CASE \E c \in Conv : \/ ResetStep(c) \/ Rebound(c) \/ Agent(c)
                           \/ \E s \in Slot : Watchdog(s, c)
  BY <1>3, OtherIInv
<1>4. CASE ToggleQuiesce
  BY <1>4
  DEF ToggleQuiesce, IInv, TypeOK, TasksOK, Making,
      table, marks, records, sessions, storage, resets
<1>5. CASE UNCHANGED vars
  BY <1>5
  DEF vars, IInv, TypeOK, TasksOK, Making,
      table, marks, records, sessions, storage, resets
<1>6. QED BY <1>1, <1>2, <1>3, <1>4, <1>5 DEF Next

LEMMA Invariant == Spec => []IInv
  BY InitIInv, NextIInv, PTL DEF Spec

(* Every variable keeps its type, whatever the handlers do to each other.   *)
THEOREM TypeCorrect == Spec => []TypeOK
  BY Invariant, PTL DEF IInv

(* `this.conv`, the conversation of activeId, is never undefined: no        *)
(* interleaving of starts, switches, openings, failed boots and dismissals  *)
(* removes the active conversation, although the removals come after awaits.*)
THEOREM ActiveIsOpen == Spec => []ActiveOpen
<1>1. IInv => ActiveOpen
  BY DEF IInv, ActiveOpen
<1>2. QED BY <1>1, Invariant, PTL
-----------------------------------------------------------------------------
(* The gate on prompts.  A step leaves it alone, starts an opening, or ends *)
(* one.                                                                     *)
Opens(s) == Making(s) /\ task[s].kind = "session"

LEMMA GateSame ==
  ASSUME PreviewGate, booting' = booting,
         \A s \in Slot : /\ Opens(s)' = Opens(s)
                         /\ Opens(s) => task'[s].conv = task[s].conv
  PROVE  PreviewGate'
  BY DEF PreviewGate, Opening, Opens, Making

LEMMA GateStarts ==
  ASSUME PreviewGate, NEW s \in Slot, NEW c, ~Opens(s), Opens(s)',
         booting' = booting \cup {c}, task'[s].conv = c,
         \A x \in Slot : x # s => task'[x] = task[x]
  PROVE  PreviewGate'
  BY DEF PreviewGate, Opening, Opens, Making

(* No other handler opens the same conversation, so lifting its gate opens  *)
(* nobody else's.                                                           *)
LEMMA GateEnds ==
  ASSUME PreviewGate, TasksOK, NEW s \in Slot, Making(s), ~Opens(s)',
         booting' = booting \ {task[s].conv},
         \A x \in Slot : x # s => task'[x] = task[x]
  PROVE  PreviewGate'
<1>1. \A x \in Slot : Opens(x)' <=> Opens(x) /\ x # s
  BY DEF Opens, Making
<1>2. \A x \in Slot : Opens(x) /\ x # s => task[x].conv # task[s].conv
  BY DEF TasksOK, Opens
<1>3. Opening' = {task[x].conv : x \in {x \in Slot : Opens(x) /\ x # s}}
  BY <1>1 DEF Opening, Opens, Making
<1>4. Opening = {task[x].conv : x \in {x \in Slot : Opens(x)}}
  BY DEF Opening, Opens, Making
<1>5. Opens(s) \/ ~Opens(s)
  OBVIOUS
<1>6. Opening' = Opening \ {task[s].conv}
  BY <1>2, <1>3, <1>4
<1>7. QED BY <1>6 DEF PreviewGate

LEMMA GateOther ==
  ASSUME PreviewGate, booting' = booting, NEW s \in Slot, ~Opens(s), ~Opens(s)',
         \A x \in Slot : x # s => task'[x] = task[x]
  PROVE  PreviewGate'
<1>1. ASSUME NEW x \in Slot, x # s
      PROVE  Opens(x)' = Opens(x) /\ task'[x].conv = task[x].conv
  BY <1>1 DEF Opens, Making
<1>2. Opens(s)' = Opens(s)
  BY DEF Opens, Making
<1>3. QED BY <1>1, <1>2, GateSame

LEMMA GateThen ==
  ASSUME IInv, PreviewGate, booting' = booting, NEW s \in Slot, ~Opens(s),
         NEW target \in Conv \cup {None}, Then(s, target)
  PROVE  PreviewGate'
<1>1. /\ \A x \in Slot : x # s => task'[x] = task[x]
      /\ task'[s].op \in {"idle", "drop"}
  BY ThenTask DEF IInv
<1>2. ~Opens(s)'
  BY <1>1 DEF Opens, Making
<1>3. QED BY <1>1, <1>2, GateOther

LEMMA GateStartBoot ==
  ASSUME IInv, PreviewGate, NEW s \in Slot, ~Opens(s), NEW kind \in Kind, NEW w, NEW f,
         NEW gone, NEW up, NEW target \in Conv \cup {None}, NEW flag,
         StartBoot(s, kind, w, f, gone, up, target, flag)
  PROVE  PreviewGate'
<1>1. CASE convSeq < MaxConvs
  <2> DEFINE t == [op |-> "boot", kind |-> kind, conv |-> NextId, gone |-> gone,
                   up |-> up, target |-> target, dir |-> w, flag |-> flag]
  <2>1. /\ booting' = IF kind = "session" THEN booting \cup {NextId} ELSE booting
        /\ task' = [task EXCEPT ![s] = t]
    <3>1. convSeq # MaxConvs
      BY <1>1, ConstantsAssumption DEF IInv, TypeOK, Conv
    <3>2. QED BY <3>1 DEF StartBoot
  <2>2. task'[s] = t /\ \A x \in Slot : x # s => task'[x] = task[x]
    BY <2>1 DEF IInv, TypeOK
  <2>3. CASE kind = "session"
    <3>1. Opens(s)' /\ task'[s].conv = NextId
      BY <2>2, <2>3 DEF Opens, Making
    <3>2. QED BY <2>1, <2>2, <2>3, <3>1, GateStarts
  <2>4. CASE kind # "session"
    <3>1. ~Opens(s)'
      BY <2>2, <2>4 DEF Opens
    <3>2. QED BY <2>1, <2>2, <2>4, <3>1, GateOther
  <2>5. QED BY <2>3, <2>4
<1>2. CASE convSeq = MaxConvs
  BY <1>2, GateThen, ConstantsAssumption DEF StartBoot, IInv, TypeOK, Conv
<1>3. QED BY <1>1, <1>2, ConstantsAssumption DEF IInv, TypeOK, Conv

LEMMA GateNewChatCore ==
  ASSUME IInv, PreviewGate, NEW s \in Slot, ~Opens(s),
         NEW target \in Conv \cup {None}, NewChatCore(s, target)
  PROVE  PreviewGate'
<1>1. CASE Then(s, target) /\ UNCHANGED booting
  BY <1>1, GateThen
<1>2. CASE StartBoot(s, "newChat", cwd, NextId, Displaced, None, target, FALSE)
  BY <1>2, GateStartBoot DEF Kind
<1>3. QED BY <1>1, <1>2 DEF NewChatCore

LEMMA GateNewChat ==
  ASSUME IInv, PreviewGate, NEW s \in Slot, ~Opens(s),
         NEW target \in Conv \cup {None}, NewChatAdmitted(s, target)
  PROVE  PreviewGate'
  BY GateThen, GateNewChatCore DEF NewChatAdmitted

LEMMA GateVacate ==
  ASSUME IInv, PreviewGate, NEW s \in Slot, ~Opens(s), NEW c \in Conv, Vacate(s, c)
  PROVE  PreviewGate'
<1>1. CASE task' = [task EXCEPT ![s] = Idle] /\ UNCHANGED booting
  <2>1. ~Opens(s)' /\ \A x \in Slot : x # s => task'[x] = task[x]
    BY <1>1, IdleTask DEF IInv, TypeOK, Opens, Making
  <2>2. QED BY <1>1, <2>1, GateOther
<1>2. CASE Then(s, c) /\ UNCHANGED booting
  BY <1>2, GateThen
<1>3. CASE NewChatAdmitted(s, c)
  BY <1>3, GateNewChat
<1>4. QED BY <1>1, <1>2, <1>3 DEF Vacate

LEMMA GateCommand ==
  ASSUME IInv, PreviewGate, NEW s \in Slot, Command(s)
  PROVE  PreviewGate'
<1>1. CASE task' = task /\ UNCHANGED booting
  BY <1>1, GateSame DEF Opens, Making
<1>2. CASE /\ UNCHANGED booting /\ ~Opens(s)
           /\ task'[s].op \in {"prompt", "abort", "resolveNew", "resolve"}
           /\ \A x \in Slot : x # s => task'[x] = task[x]
  <2>1. ~Opens(s)'
    BY <1>2 DEF Opens, Making
  <2>2. QED BY <1>2, <2>1, GateOther
<1>3. CASE ~Opens(s) /\ NewChatAdmitted(s, None)
  BY <1>3, GateNewChat
<1>4. CASE ~Opens(s) /\ \E c \in Conv : Vacate(s, c)
  BY <1>4, GateVacate
<1>5. CASE ~Opens(s) /\ \E f \in File :
             StartBoot(s, "session", FileCwd(f), f, None, None, None, FALSE)
  BY <1>5, GateStartBoot DEF Kind
<1>6. CASE NewChat(s) \/ Prompt(s) \/ Stop(s) \/ OpenTerminal(s)
  BY <1>1, <1>2, <1>3, <1>6
  DEF NewChat, Prompt, Stop, OpenTerminal, Accepts, Free, Opens, Making, Idle, IInv, TypeOK
<1>7. CASE \E w \in Cwd : NewChatIn(s, w) \/ SetCwd(s, w)
  BY <1>2, <1>7 DEF NewChatIn, SetCwd, Accepts, Free, Opens, Making, Idle, IInv, TypeOK
<1>8. CASE \E f \in File : SwitchSession(s, f)
  BY <1>1, <1>5, <1>8 DEF SwitchSession, Accepts, Free, Opens, Making
<1>9. CASE \E c \in Conv : SwitchConversation(s, c) \/ Dismiss(s, c) \/ ForceDismiss(s, c)
  BY <1>1, <1>2, <1>4, <1>9
  DEF SwitchConversation, Dismiss, ForceDismiss, Accepts, Free, Opens, Making, Idle, IInv, TypeOK
<1>10. QED BY <1>6, <1>7, <1>8, <1>9 DEF Command

LEMMA GateContinue ==
  ASSUME IInv, PreviewGate, NEW s \in Slot, Continue(s)
  PROVE  PreviewGate'
<1> DEFINE t == task[s]
<1>1. CASE ResolveNew(s) \/ Resolve(s)
  <2>1. ~Opens(s)
    BY <1>1 DEF ResolveNew, Resolve, Opens, Making
  <2>2. CASE \/ StartBoot(s, "workspace", t.dir, NextId, Displaced, NewlyListed, None, FALSE)
             \/ StartBoot(s, "cwd", t.dir, ContinueRecent(t.dir, NextId), Displaced,
                          None, None, t.flag)
    BY <2>1, <2>2, GateStartBoot DEF Kind
  <2>3. CASE /\ UNCHANGED booting
             /\ \/ task' = [task EXCEPT ![s].op = "resolve", ![s].flag = TRUE]
                \/ task' = [task EXCEPT ![s] = IF t.flag THEN [t EXCEPT !.op = "thenNew"]
                                               ELSE Idle]
    <3>1. t \in Task
      BY DEF IInv, TypeOK
    <3>2. /\ task'[s].op \in {"resolve", "thenNew", "idle"}
          /\ \A x \in Slot : x # s => task'[x] = task[x]
      BY <2>3, <3>1 DEF IInv, TypeOK, Idle, Task
    <3>3. ~Opens(s)'
      BY <3>2 DEF Opens, Making
    <3>4. QED BY <2>1, <2>3, <3>2, <3>3, GateOther
  <2>4. QED BY <1>1, <2>2, <2>3 DEF ResolveNew, Resolve
<1>2. CASE ThenNewChat(s)
  <2>1. ~Opens(s)
    BY <1>2 DEF ThenNewChat, Opens, Making
  <2>2. CASE NewChatCore(s, None)
    BY <2>1, <2>2, GateNewChatCore
  <2>3. CASE task' = [task EXCEPT ![s] = Idle] /\ UNCHANGED booting
    <3>1. ~Opens(s)' /\ \A x \in Slot : x # s => task'[x] = task[x]
      BY <2>3, IdleTask DEF IInv, TypeOK, Opens, Making
    <3>2. QED BY <2>1, <2>3, <3>1, GateOther
  <2>4. QED BY <1>2, <2>2, <2>3 DEF ThenNewChat
<1>3. CASE ForceVacate(s)
  <2>1. ~Opens(s) /\ t.target \in Conv
    BY <1>3 DEF ForceVacate, Opens, Making, IInv, TasksOK
  <2>2. QED BY <1>3, <2>1, GateVacate DEF ForceVacate
<1>4. CASE Booted(s)
  <2>1. /\ task'[s].kind = t.kind /\ t.kind # "session" /\ booting' = booting
        /\ \A x \in Slot : x # s => task'[x] = task[x]
    BY <1>4 DEF Booted, IInv, TypeOK
  <2>2. ~Opens(s) /\ ~Opens(s)'
    BY <2>1 DEF Opens
  <2>3. QED BY <2>1, <2>2, GateOther
<1>5. CASE SessionBooted(s)
  <2>1. Opens(s) /\ Making(s)
    BY <1>5 DEF SessionBooted, Opens, Making
  <2>2. CASE booting' = Ungated(t.conv) /\ task' = [task EXCEPT ![s] = Idle]
    <3>1. ~Opens(s)' /\ \A x \in Slot : x # s => task'[x] = task[x]
      BY <2>2, IdleTask DEF IInv, TypeOK, Opens, Making
    <3>2. QED BY <2>1, <2>2, <3>1, GateEnds DEF IInv, Ungated
  <2>3. CASE task' = [task EXCEPT ![s].op = "bind"] /\ booting' = booting
    <3>1. ASSUME NEW x \in Slot
          PROVE  Opens(x)' = Opens(x) /\ task'[x].conv = task[x].conv
      <4>1. x # s => task'[x] = task[x]
        BY <2>3 DEF IInv, TypeOK
      <4>2. /\ task'[s].op = "bind" /\ task'[s].kind = t.kind /\ task'[s].conv = t.conv
        BY <2>3 DEF IInv, TypeOK, Task
      <4>3. CASE x = s
        BY <1>5, <4>2, <4>3 DEF SessionBooted, Opens, Making
      <4>4. CASE x # s
        BY <4>1, <4>4 DEF Opens, Making
      <4>5. QED BY <4>3, <4>4
    <3>2. QED BY <2>3, <3>1, GateSame
  <2>4. QED BY <1>5, <2>2, <2>3 DEF SessionBooted
<1>6. CASE BootFails(s) \/ Bound(s)
  <2>1. Making(s) /\ booting' = booting \ {t.conv}
    BY <1>6 DEF BootFails, Bound, Making, Ungated
  <2>2. t.target \in Conv \cup {None} /\ t \in Task
    BY DEF IInv, TypeOK, Task
  <2>3. /\ task'[s].op \in {"idle", "drop", "thenNew"}
        /\ \A x \in Slot : x # s => task'[x] = task[x]
    <3>1. CASE Then(s, t.target)
      BY <2>2, <3>1, ThenTask DEF IInv
    <3>2. CASE task' = [task EXCEPT ![s] = Idle]
      BY <3>2 DEF IInv, TypeOK, Idle
    <3>3. CASE task' = [task EXCEPT ![s] = [Idle EXCEPT !.op = "thenNew", !.dir = t.dir,
                                                        !.flag = TRUE]]
      BY <3>3 DEF IInv, TypeOK, Idle
    <3>4. QED BY <1>6, <3>1, <3>2, <3>3 DEF BootFails, Bound
  <2>4. ~Opens(s)'
    BY <2>3 DEF Opens, Making
  <2>5. QED BY <2>1, <2>3, <2>4, GateEnds DEF IInv
<1>7. CASE AbortStops(s)
  <2>1. booting' = booting /\ task' = SeenEnd(t.conv)
    BY <1>7 DEF AbortStops
  <2>2. ASSUME NEW x \in Slot
        PROVE  Opens(x)' = Opens(x) /\ (Opens(x) => task'[x].conv = task[x].conv)
    BY <2>1 DEF SeenEnd, Opens, Making, IInv, TypeOK, Task
  <2>3. QED BY <2>1, <2>2, GateSame
<1>8. CASE \/ ResolveFails(s) \/ DropTarget(s) \/ Deliver(s) \/ DeliverFails(s) \/ Prompted(s)
           \/ AbortReturns(s) \/ HardAbort(s) \/ Settled(s)
  <2>1. booting' = booting /\ ~Opens(s)
    BY <1>8
    DEF ResolveFails, DropTarget, Deliver, DeliverFails, Prompted, AbortReturns,
        HardAbort, Settled, Opens, Making
  <2>2. /\ \A x \in Slot : x # s => task'[x] = task[x]
        /\ task'[s].op \in {"idle", "thenNew", "prompted", "settle", "vacate"}
    <3>0. t \in Task
      BY DEF IInv, TypeOK
    <3>1. CASE DropTarget(s) \/ Prompted(s)
      BY <3>1 DEF DropTarget, Prompted, IInv, TypeOK, Idle
    <3>7. CASE ResolveFails(s)
      BY <3>0, <3>7 DEF ResolveFails, IInv, TypeOK, Idle, Task
    <3>2. CASE Deliver(s) \/ DeliverFails(s)
      BY <3>2 DEF Deliver, DeliverFails, IInv, TypeOK, Task
    <3>3. CASE AbortReturns(s)
      BY <3>3 DEF AbortReturns, IInv, TypeOK, Task
    <3>4. CASE HardAbort(s)
      BY <3>4 DEF HardAbort, IInv, TypeOK, Task
    <3>5. CASE Settled(s)
      BY <3>5 DEF Settled, AfterInterrupt, IInv, TypeOK, Idle
    <3>6. QED BY <1>8, <3>1, <3>2, <3>3, <3>4, <3>5, <3>7
  <2>3. ~Opens(s)'
    BY <2>2 DEF Opens, Making
  <2>4. QED BY <2>1, <2>2, <2>3, GateOther
<1>9. QED
  BY <1>1, <1>2, <1>3, <1>4, <1>5, <1>6, <1>7, <1>8 DEF Continue

(* Resets and ends of runs only mark handlers.                              *)
LEMMA GateMarks ==
  ASSUME IInv, PreviewGate, NEW c \in Conv, \/ ResetBooted(c) \/ RunEnds(c)
  PROVE  PreviewGate'
<1>1. ASSUME NEW x \in Slot
      PROVE  Opens(x)' = Opens(x) /\ (Opens(x) => task'[x].conv = task[x].conv)
  BY DEF ResetBooted, RunEnds, SeenEnd, Opens, Making, IInv, TypeOK, Task
<1>2. booting' = booting
  BY DEF ResetBooted, RunEnds
<1>3. QED BY <1>1, <1>2, GateSame

LEMMA GateNext == IInv /\ PreviewGate /\ [Next]_vars => PreviewGate'
<1> SUFFICES ASSUME IInv, PreviewGate, [Next]_vars PROVE PreviewGate'
  OBVIOUS
<1>1. CASE task' = task /\ booting' = booting
  BY <1>1, GateSame DEF Opens, Making
<1>2. CASE \E s \in Slot : Command(s)
  BY <1>2, GateCommand
<1>3. CASE \E s \in Slot : Continue(s)
  BY <1>3, GateContinue
<1>4. CASE \E s \in Slot, c \in Conv : Watchdog(s, c)
  <2>1. PICK s \in Slot, c \in Conv : Watchdog(s, c)
    BY <1>4
  <2>2. /\ task'[s].op = "abort" /\ booting' = booting
        /\ \A x \in Slot : x # s => task'[x] = task[x]
    BY <2>1 DEF Watchdog, IInv, TypeOK, Idle
  <2>3. ~Opens(s) /\ ~Opens(s)'
    BY <2>1, <2>2 DEF Watchdog, Free, Opens, Making
  <2>4. QED BY <2>2, <2>3, GateOther
<1>5. CASE \E c \in Conv : ResetStep(c) \/ Rebound(c) \/ Agent(c)
  <2>1. PICK c \in Conv : ResetStep(c) \/ Rebound(c) \/ Agent(c)
    BY <1>5
  <2>2. CASE ResetBooted(c) \/ RunEnds(c)
    BY <2>2, GateMarks
  <2>3. CASE \/ ResetDisposed(c) \/ ResetFails(c) \/ Rebound(c)
             \/ ModelHangs(c) \/ ToolHangs(c) \/ Save(c) \/ TerminalExits(c)
    BY <1>1, <2>3
    DEF ResetDisposed, ResetFails, Rebound, ModelHangs, ToolHangs, Save, TerminalExits
  <2>4. QED BY <2>1, <2>2, <2>3 DEF ResetStep, Agent
<1>6. CASE ToggleQuiesce
  BY <1>1, <1>6 DEF ToggleQuiesce
<1>7. CASE UNCHANGED vars
  BY <1>1, <1>7 DEF vars
<1>8. QED BY <1>2, <1>3, <1>4, <1>5, <1>6, <1>7 DEF Next

(* The gate on prompts holds exactly the conversations that a               *)
(* switch_session is still opening: it is never lifted by another handler   *)
(* and never left shut by one that failed, was refused or finished.         *)
THEOREM GateIsExact == Spec => []PreviewGate
<1>1. Init => PreviewGate
  BY DEF Init, PreviewGate, Opening, Idle
<1>2. QED BY <1>1, Invariant, GateNext, PTL DEF Spec

-----------------------------------------------------------------------------
(* One command at a time.  What the handler in flight has decided stays     *)
(* true until it acts on it, for no other handler runs meanwhile; runs that *)
(* end, terminals that exit, resets and the disk still interleave with it.  *)
OneAtATime == \E s : Slot = {s}

(* Every open conversation is active or in the list.                        *)
ReachedOne == \A c \in convs : c = activeId \/ c \in listed

(* A boot under way has an id nobody uses, in the project it is for, and    *)
(* takes back at most the promotion of the active conversation.             *)
BootFresh(t) ==
  t.op = "boot" => /\ t.conv \notin convs /\ reset[t.conv] = "no"
                   /\ home[t.conv] = WorkspaceAfter(t)
                   /\ t.up \in {None, activeId}

(* One that displaced the active conversation at its start removes it or    *)
(* has put it into the list, and its project has room.                      *)
BootPlaced(t) ==
  t.op = "boot" /\ t.kind # "session" =>
    /\ t.gone \in {None, activeId} /\ activeId \in listed \cup {t.gone}
    /\ t.gone # None => run[t.gone] = "idle" /\ term[t.gone] # "live"
    /\ Cardinality(OpenIn(home[t.conv])) < MaxOpen

(* The workspace is that of the active conversation, or becomes it.         *)
Follows(t) ==
  IF t.op = "bind" THEN t.conv = activeId /\ home[activeId] = WorkspaceAfter(t)
  ELSE home[activeId] = cwd

(* What is dismissed has no run, or one that is being reset.                *)
Over(c) == run[c] = "idle" \/ reset[c] # "no"
TargetOver(t) ==
  /\ t.op \in {"prompt", "prompted", "abort", "settle"} => t.conv \in 1 .. convSeq
  /\ t.target # None =>
       /\ t.op \in {"boot", "bind", "drop", "vacate"} => Over(t.target)
       /\ t.op \in {"abort", "settle"} => /\ t.target = t.conv
                                          /\ t.flag => Over(t.target)

(* Resets and runs are those of conversations that were created.            *)
ResetsOver ==
  \A c \in Conv : /\ reset[c] = "boot" => run[c] = "idle" /\ c \notin live
                  /\ reset[c] # "no" \/ run[c] # "idle" => c \in 1 .. convSeq

TaskOne(t) == BootFresh(t) /\ BootPlaced(t) /\ Follows(t) /\ TargetOver(t)
OneInv == /\ ReachedOne /\ CapHeld /\ ResetsOver
          /\ \A s \in Slot : TaskOne(task[s])

(* Without interruptions no runtime is replaced, so that files stay with    *)
(* the conversations they were opened for.                                  *)
Uninterrupted == Commands \cap {"stop", "hang", "forceDismiss"} = {}

Known(f) == f \in History \cup 1 .. convSeq
FilesApart ==
  /\ \A c, d \in convs : file[c] = file[d] => c = d
  /\ \A c \in convs : Known(file[c]) /\ FileCwd(file[c]) = home[c]
  /\ \A w \in Cwd : recent[w] # None => Known(recent[w]) /\ FileCwd(recent[w]) = w
  /\ \A f \in saved : Known(f)
NoResets ==
  /\ \A c \in Conv : reset[c] = "no" /\ run[c] \in {"idle", "busy"}
  /\ \A c \in Conv : run[c] # "idle" => c \in live
  /\ live \subseteq convs
TaskApart(t) ==
  /\ t.op \notin {"abort", "settle", "vacate"}
  /\ t.op = "boot" =>
       /\ Known(file[t.conv]) /\ FileCwd(file[t.conv]) = home[t.conv]
       /\ \A c \in convs : file[c] # file[t.conv]
WriterInv == FilesApart /\ NoResets /\ \A s \in Slot : TaskApart(task[s])

-----------------------------------------------------------------------------
(* What the invariants say, one by one.                                     *)
LEMMA OneParts ==
  ASSUME IInv, OneInv, NEW s \in Slot
  PROVE  /\ activeId \in convs /\ convs \subseteq 1 .. convSeq /\ 1 .. convSeq \subseteq Conv
         /\ convSeq \in Conv /\ Conv \subseteq Nat /\ None \notin Conv
         /\ home \in [Conv -> Cwd] /\ cwd \in Cwd
         /\ run \in [Conv -> RunState] /\ term \in [Conv -> {"none", "live", "exited"}]
         /\ reset \in [Conv -> {"no", "dispose", "boot"}]
         /\ task \in [Slot -> Task] /\ task[s] \in Task
         /\ ReachedOne /\ CapHeld /\ ResetsOver
         /\ BootFresh(task[s]) /\ BootPlaced(task[s]) /\ Follows(task[s])
         /\ TargetOver(task[s])
<1>1. convSeq \in Conv /\ Conv \subseteq Nat /\ None \notin Conv
  BY ConstantsAssumption DEF IInv, TypeOK, Conv, None
<1>2. 1 .. convSeq \subseteq Conv
  BY <1>1, ConstantsAssumption DEF Conv
<1> QED BY <1>1, <1>2 DEF IInv, TypeOK, OneInv, TaskOne

(* With one slot its task is all there is.                                  *)
LEMMA OneIs ==
  ASSUME NEW s, Slot = {s}, ReachedOne', CapHeld', ResetsOver', TaskOne(task[s])'
  PROVE  OneInv'
  BY DEF OneInv

(* The open conversations of a project are finitely many.                   *)
LEMMA OpenFinite ==
  ASSUME IInv, NEW w
  PROVE  IsFiniteSet(OpenIn(w)) /\ Cardinality(OpenIn(w)) \in Nat
<1>1. convSeq \in Nat
  BY ConstantsAssumption DEF IInv, TypeOK, Conv
<1>2. IsFiniteSet(1 .. convSeq)
  BY <1>1, FS_Interval
<1>3. OpenIn(w) \subseteq 1 .. convSeq
  BY DEF OpenIn, IInv
<1> QED BY <1>2, <1>3, FS_Subset, FS_CardinalityType

(* A project that loses conversations stays within its cap.                 *)
LEMMA CapSmaller ==
  ASSUME IInv, CapHeld, convs' \subseteq convs, \A c \in convs : home'[c] = home[c]
  PROVE  CapHeld'
<1> SUFFICES ASSUME NEW w \in Cwd PROVE Cardinality(OpenIn(w)') <= MaxOpen
  BY DEF CapHeld
<1>1. PICK S : S = OpenIn(w)'
  OBVIOUS
<1>2. S \subseteq OpenIn(w)
  BY <1>1 DEF OpenIn
<1>3. Cardinality(S) <= Cardinality(OpenIn(w)) /\ Cardinality(S) \in Nat
  BY <1>2, OpenFinite, FS_Subset, FS_CardinalityType
<1>4. Cardinality(OpenIn(w)) <= MaxOpen
  BY DEF CapHeld
<1>5. Cardinality(S) <= MaxOpen
  BY <1>3, <1>4, OpenFinite, ConstantsAssumption
<1> QED BY <1>1, <1>5

(* A project that gets a conversation for which it has room, once others    *)
(* have left, stays within its cap.                                         *)
LEMMA CapRoom ==
  ASSUME IInv, CapHeld, home' = home, NEW n, NEW gone, convs' \subseteq (convs \cup {n}) \ gone,
         Cardinality(OpenIn(home[n]) \ gone) < MaxOpen
  PROVE  CapHeld'
<1> SUFFICES ASSUME NEW w \in Cwd PROVE Cardinality(OpenIn(w)') <= MaxOpen
  BY DEF CapHeld
<1>1. PICK S : S = OpenIn(w)'
  OBVIOUS
<1>2. CASE w = home[n]
  <2>1. PICK R : R = OpenIn(w) \ gone
    OBVIOUS
  <2>2. S \subseteq R \cup {n}
    BY <1>1, <2>1 DEF OpenIn
  <2>3. IsFiniteSet(R)
    BY <2>1, OpenFinite, FS_Subset
  <2>4. IsFiniteSet(R \cup {n}) /\ Cardinality(R \cup {n}) <= Cardinality(R) + 1
    <3>1. Cardinality(R) \in Nat
      BY <2>3, FS_CardinalityType
    <3>2. /\ IsFiniteSet(R \cup {n})
          /\ Cardinality(R \cup {n}) = IF n \in R THEN Cardinality(R) ELSE Cardinality(R) + 1
      BY <2>3, FS_AddElement
    <3> QED BY <3>1, <3>2
  <2>5. Cardinality(S) <= Cardinality(R \cup {n}) /\ Cardinality(S) \in Nat
    BY <2>2, <2>4, FS_Subset, FS_CardinalityType
  <2>6. Cardinality(R) \in Nat /\ Cardinality(R \cup {n}) \in Nat /\ Cardinality(R) < MaxOpen
    BY <1>2, <2>1, <2>3, <2>4, FS_CardinalityType
  <2>7. Cardinality(S) <= MaxOpen
    BY <2>4, <2>5, <2>6, ConstantsAssumption
  <2> QED BY <1>1, <2>7
<1>3. CASE w # home[n]
  <2>1. S \subseteq OpenIn(w)
    BY <1>1, <1>3 DEF OpenIn
  <2>2. Cardinality(S) <= Cardinality(OpenIn(w)) /\ Cardinality(S) \in Nat
    BY <2>1, OpenFinite, FS_Subset, FS_CardinalityType
  <2>3. Cardinality(OpenIn(w)) <= MaxOpen
    BY DEF CapHeld
  <2>4. Cardinality(S) <= MaxOpen
    BY <2>2, <2>3, OpenFinite, ConstantsAssumption
  <2> QED BY <1>1, <2>4
<1> QED BY <1>2, <1>3

(* Steps that leave the table alone.                                        *)
LEMMA SameTable ==
  ASSUME IInv, ReachedOne, CapHeld, convs' = convs, activeId' = activeId, home' = home,
         listed \subseteq listed'
  PROVE  ReachedOne' /\ CapHeld'
<1>1. ReachedOne'
  BY DEF ReachedOne
<1>2. CapHeld'
  BY CapSmaller
<1> QED BY <1>1, <1>2

(* A handler goes on to a step that boots nothing.                          *)
LEMMA QuietTask ==
  ASSUME IInv, OneInv, NEW s, Slot = {s}, task[s].op # "bind",
         UNCHANGED <<convs, activeId, cwd, listed, convSeq, home, run, live, reset>>,
         task'[s].op \notin {"boot", "bind"}, TargetOver(task[s])'
  PROVE  OneInv'
<1>1. ReachedOne' /\ CapHeld'
  BY SameTable, OneParts
<1>2. ResetsOver'
  BY OneParts DEF ResetsOver
<1>3. BootFresh(task[s])' /\ BootPlaced(task[s])'
  BY DEF BootFresh, BootPlaced
<1>4. Follows(task[s])'
  BY OneParts DEF Follows
<1> QED BY <1>1, <1>2, <1>3, <1>4, OneIs DEF TaskOne

(* Closing conversations ends their runs.                                   *)
LEMMA CloseEnds ==
  ASSUME IInv, OneInv, NEW gone, NEW started \in SUBSET Conv, NEW l, NEW m,
         Close(gone, started, l, m), reset' = reset, convSeq' = convSeq,
         \A c \in started : reset[c] = "no"
  PROVE  /\ ResetsOver'
         /\ \A c \in Conv : Over(c) => Over(c)'
<1>1. ResetsOver
  BY DEF OneInv
<1>2. \A c \in Conv : run'[c] = IF c \in gone THEN "idle" ELSE run[c]
  BY DEF Close
<1>3. live' \subseteq live \cup started
  BY DEF Close
<1>4. ResetsOver'
  BY <1>1, <1>2, <1>3 DEF ResetsOver
<1>5. \A c \in Conv : Over(c) => Over(c)'
  BY <1>2 DEF Over
<1> QED BY <1>4, <1>5

(* The conversation a switch leaves is put into the list or removed.        *)
LEMMA SwitchOne ==
  ASSUME IInv, OneInv, Slot # {}, NEW c \in convs, SwitchTo(c), home' = home,
         reset' = reset, convSeq' = convSeq
  PROVE  /\ ReachedOne' /\ CapHeld' /\ ResetsOver'
         /\ home'[activeId'] = cwd'
         /\ \A x \in Conv : Over(x) => Over(x)'
<1> DEFINE gone == Removable(Displaced, c)
<1>1. /\ activeId' = c /\ convs' = convs \ gone /\ cwd' = home[c]
      /\ Close(gone, {}, Promoted, prompted \ {c})
  BY DEF SwitchTo
<1>2. ReachedOne' 
  <2> SUFFICES ASSUME NEW x \in convs', x # c PROVE x \in listed'
    BY <1>1 DEF ReachedOne
  <2>1. x \in convs /\ x \notin gone /\ listed' = Promoted \ gone
    BY <1>1 DEF Close
  <2>2. CASE x = activeId
    BY <2>1, <2>2 DEF Removable, Displaced, Promoted
  <2>3. CASE x # activeId
    <3>1. x \in listed
      BY <2>1, <2>3 DEF OneInv, ReachedOne
    <3> QED BY <2>1, <3>1 DEF Promoted
  <2> QED BY <2>2, <2>3
<1>3. CapHeld'
  BY <1>1, CapSmaller DEF OneInv
<1>4. ResetsOver' /\ \A x \in Conv : Over(x) => Over(x)'
  BY <1>1, CloseEnds
<1> QED BY <1>1, <1>2, <1>3, <1>4

(* A handler ends, or goes on to remove its target.                         *)
LEMMA ThenOne ==
  ASSUME IInv, NEW s, Slot = {s}, NEW target \in Conv \cup {None}, Then(s, target),
         ReachedOne', CapHeld', ResetsOver', home'[activeId'] = cwd',
         target # None => Over(target)'
  PROVE  OneInv'
<1>1. task'[s] = IF target = None THEN Idle ELSE [Idle EXCEPT !.op = "drop", !.target = target]
  BY DEF Then, IInv, TypeOK
<1>2. task'[s].op \in {"idle", "drop"} /\ task'[s].target = target
  BY <1>1 DEF Idle
<1>3. TaskOne(task[s])'
  BY <1>2 DEF TaskOne, BootFresh, BootPlaced, Follows, TargetOver, Over
<1> QED BY <1>3, OneIs

(* A boot begins.                                                           *)
LEMMA StartOne ==
  ASSUME IInv, OneInv, NEW s, Slot = {s}, task[s].op \notin {"boot", "bind"},
         NEW kind \in Kind, NEW w \in Cwd, NEW f, NEW gone \in Conv \cup {None},
         NEW up \in {None, activeId}, NEW target \in Conv \cup {None}, NEW flag \in BOOLEAN,
         StartBoot(s, kind, w, f, gone, up, target, flag),
         UNCHANGED <<table, sessions, reset>>,
         kind = "newChat" => w = cwd,
         kind = "session" => listed' = listed,
         kind # "session" => /\ gone = Displaced /\ listed' = Promoted
                             /\ Cardinality(OpenIn(w)) < MaxOpen,
         target # None => Over(target)
  PROVE  OneInv'
<1>1. /\ convs' = convs /\ activeId' = activeId /\ cwd' = cwd
      /\ run' = run /\ term' = term /\ live' = live /\ reset' = reset
  BY DEF table, sessions
<1>2. listed \subseteq listed'
  BY DEF Promoted
<1>3. home[activeId] = cwd
  BY OneParts DEF Follows
<1>4. CASE convSeq = MaxConvs
  <2>1. Then(s, target) /\ home' = home /\ convSeq' = convSeq
    <3>1. ~(convSeq < MaxConvs)
      BY <1>4, ConstantsAssumption
    <3> QED BY <3>1 DEF StartBoot, records
  <2>2. ReachedOne' /\ CapHeld'
    BY <1>1, <1>2, <2>1, SameTable DEF OneInv
  <2>3. ResetsOver'
    BY <1>1, <2>1, OneParts DEF ResetsOver
  <2>4. home'[activeId'] = cwd' /\ (target # None => Over(target)')
    BY <1>1, <1>3, <2>1 DEF Over
  <2> QED BY <2>1, <2>2, <2>3, <2>4, ThenOne
<1>5. CASE convSeq # MaxConvs
  <2> DEFINE t == [op |-> "boot", kind |-> kind, conv |-> NextId, gone |-> gone,
                   up |-> up, target |-> target, dir |-> w, flag |-> flag]
  <2>1. /\ convSeq' = NextId /\ home' = [home EXCEPT ![NextId] = w]
        /\ task' = [task EXCEPT ![s] = t]
    BY <1>5 DEF StartBoot
  <2>2. task'[s] = t
    BY <2>1 DEF IInv, TypeOK
  <2>3. PICK n : n = NextId
    OBVIOUS
  <2>4. /\ n \in Conv /\ n \notin 1 .. convSeq /\ convSeq' = n
        /\ 1 .. convSeq \subseteq 1 .. n /\ n \in 1 .. n
    BY <1>5, <2>1, <2>3, OneParts, ConstantsAssumption DEF NextId, Conv
  <2>5. home'[n] = w /\ \A c \in Conv : c # n => home'[c] = home[c]
    BY <2>1, <2>3, <2>4, OneParts
  <2>6. n \notin convs /\ reset[n] = "no" /\ \A c \in convs : home'[c] = home[c]
    BY <2>4, <2>5, OneParts DEF ResetsOver
  <2>7. ReachedOne' /\ CapHeld'
    <3>1. ReachedOne'
      BY <1>1, <1>2, OneParts DEF ReachedOne
    <3>2. CapHeld'
      BY <1>1, <2>6, OneParts, CapSmaller
    <3> QED BY <3>1, <3>2
  <2>8. ResetsOver'
    BY <1>1, <2>4, OneParts DEF ResetsOver
  <2>9. /\ task'[s].op = "boot" /\ task'[s].kind = kind /\ task'[s].conv = n
        /\ task'[s].gone = gone /\ task'[s].up = up /\ task'[s].target = target
        /\ task'[s].dir = w /\ task'[s].flag = flag
    BY <2>2, <2>3
  <2> HIDE DEF t
  <2>10. BootFresh(task[s])'
    BY <1>1, <2>5, <2>6, <2>9 DEF BootFresh, WorkspaceAfter
  <2>11. BootPlaced(task[s])'
    <3> SUFFICES ASSUME kind # "session" PROVE BootPlaced(task[s])'
      BY <2>9 DEF BootPlaced
    <3>1. gone \in {None, activeId} /\ activeId \in listed' \cup {gone}
      BY DEF Displaced, Promoted
    <3>2. gone # None => run[gone] = "idle" /\ term[gone] # "live"
      BY DEF Displaced, IsRetained
    <3>3. OpenIn(w)' = OpenIn(w)
      BY <1>1, <2>6 DEF OpenIn
    <3>4. Cardinality(OpenIn(home[task[s].conv])') < MaxOpen
      <4>1. home'[task'[s].conv] = w
        BY <2>5, <2>9
      <4>2. OpenIn(home[task[s].conv])' = OpenIn(w)'
        BY <4>1 DEF OpenIn
      <4> QED BY <3>3, <4>2
    <3> QED BY <1>1, <2>9, <3>1, <3>2, <3>4 DEF BootPlaced
  <2>12. Follows(task[s])'
    BY <1>1, <1>3, <2>6, <2>9, OneParts DEF Follows
  <2>13. TargetOver(task[s])'
    BY <1>1, <2>9 DEF TargetOver, Over
  <2> QED BY <2>7, <2>8, <2>10, <2>11, <2>12, <2>13, OneIs DEF TaskOne
<1> QED BY <1>4, <1>5

(* A new chat.                                                              *)
LEMMA NewChatCoreOne ==
  ASSUME IInv, OneInv, NEW s, Slot = {s}, task[s].op \notin {"boot", "bind"},
         NEW target \in Conv \cup {None}, NewChatCore(s, target), reset' = reset,
         target # None => Over(target)
  PROVE  OneInv'
<1> DEFINE blanks == {c \in convs : c # activeId /\ home[c] = cwd /\ IsBlank(c)}
<1>0. home[activeId] = cwd /\ cwd \in Cwd
  BY OneParts DEF Follows
<1>1. CASE Then(s, target) /\ UNCHANGED <<table, marks, records, sessions, booting>>
  <2>1. /\ convs' = convs /\ activeId' = activeId /\ cwd' = cwd /\ listed' = listed
        /\ home' = home /\ convSeq' = convSeq /\ run' = run /\ live' = live
    BY <1>1 DEF table, marks, records, sessions
  <2>2. ReachedOne' /\ CapHeld'
    BY <2>1, SameTable DEF OneInv
  <2>3. ResetsOver'
    BY <2>1, OneParts DEF ResetsOver
  <2>4. home'[activeId'] = cwd' /\ (target # None => Over(target)')
    BY <1>0, <2>1 DEF Over
  <2> QED BY <1>1, <2>2, <2>3, <2>4, ThenOne
<1>2. CASE /\ \E c \in blanks : SwitchTo(c)
           /\ Then(s, target) /\ UNCHANGED <<records, booting>>
  <2>1. PICK c \in convs : SwitchTo(c)
    BY <1>2
  <2>2. home' = home /\ convSeq' = convSeq
    BY <1>2 DEF records
  <2>3. /\ ReachedOne' /\ CapHeld' /\ ResetsOver' /\ home'[activeId'] = cwd'
        /\ \A x \in Conv : Over(x) => Over(x)'
    BY <2>1, <2>2, SwitchOne
  <2> QED BY <1>2, <2>3, ThenOne
<1>3. CASE /\ ~(IsBlank(activeId) \/ (blanks = {} /\ Full(cwd, {}))) /\ blanks = {}
           /\ listed' = Promoted
           /\ StartBoot(s, "newChat", cwd, NextId, Displaced, None, target, FALSE)
           /\ UNCHANGED <<table, prompted, sessions>>
  <2>1. Cardinality(OpenIn(cwd)) < MaxOpen
    <3>1. ~Full(cwd, {})
      BY <1>3
    <3>2. OpenIn(cwd) \ {} = OpenIn(cwd)
      OBVIOUS
    <3> QED BY <3>1, <3>2, OpenFinite, ConstantsAssumption DEF Full
  <2>2. "newChat" \in Kind /\ Displaced \in Conv \cup {None}
    BY OneParts DEF Kind, Displaced
  <2> QED BY <1>0, <1>3, <2>1, <2>2, StartOne
<1> QED BY <1>1, <1>2, <1>3 DEF NewChatCore

(* The same on a server that may be draining.                               *)
LEMMA NewChatOne ==
  ASSUME IInv, OneInv, NEW s, Slot = {s}, task[s].op \notin {"boot", "bind"},
         NEW target \in Conv \cup {None}, NewChatAdmitted(s, target), reset' = reset,
         target # None => Over(target)
  PROVE  OneInv'
<1>1. CASE Then(s, target) /\ UNCHANGED <<table, marks, records, sessions, booting>>
  <2>1. /\ convs' = convs /\ activeId' = activeId /\ cwd' = cwd /\ listed' = listed
        /\ home' = home /\ convSeq' = convSeq /\ run' = run /\ live' = live
    BY <1>1 DEF table, marks, records, sessions
  <2>2. ReachedOne' /\ CapHeld'
    BY <2>1, SameTable DEF OneInv
  <2>3. ResetsOver'
    BY <2>1, OneParts DEF ResetsOver
  <2>4. home'[activeId'] = cwd' /\ (target # None => Over(target)')
    BY <2>1, OneParts DEF Follows, Over
  <2> QED BY <1>1, <2>2, <2>3, <2>4, ThenOne
<1>2. CASE NewChatCore(s, target)
  BY <1>2, NewChatCoreOne
<1> QED BY <1>1, <1>2 DEF NewChatAdmitted

(* A dismissal, of a conversation whose run is over.                        *)
LEMMA VacateOne ==
  ASSUME IInv, OneInv, NEW s, Slot = {s}, task[s].op \notin {"boot", "bind"},
         NEW c \in Conv, Over(c), Vacate(s, c), reset' = reset
  PROVE  OneInv'
<1> DEFINE others == {o \in convs : o # c /\ o \in listed}
<1>1. CASE /\ c # activeId
           /\ convs' = convs \ {c}
           /\ Close({c} \cap convs, {}, listed, prompted)
           /\ task' = [task EXCEPT ![s] = Idle]
           /\ UNCHANGED <<activeId, cwd, records, booting>>
  <2>1. home' = home /\ convSeq' = convSeq
    BY <1>1 DEF records
  <2>2. ResetsOver'
    BY <1>1, <2>1, CloseEnds
  <2>3. CapHeld'
    BY <1>1, <2>1, CapSmaller, OneParts
  <2>4. ReachedOne'
    BY <1>1, OneParts DEF ReachedOne, Close
  <2>5. task'[s] = Idle
    BY <1>1 DEF IInv, TypeOK
  <2>6. TaskOne(task[s])'
    <3>1. home'[activeId'] = cwd'
      BY <1>1, <2>1, OneParts DEF Follows
    <3> QED BY <2>5, <3>1 DEF TaskOne, BootFresh, BootPlaced, Follows, TargetOver, Idle
  <2> QED BY <2>2, <2>3, <2>4, <2>6, OneIs
<1>2. CASE (\E o \in others : SwitchTo(o)) /\ Then(s, c) /\ UNCHANGED <<records, booting>>
  <2>1. PICK o \in convs : SwitchTo(o)
    BY <1>2
  <2>2. home' = home /\ convSeq' = convSeq
    BY <1>2 DEF records
  <2>3. /\ ReachedOne' /\ CapHeld' /\ ResetsOver' /\ home'[activeId'] = cwd'
        /\ \A x \in Conv : Over(x) => Over(x)'
    BY <2>1, <2>2, SwitchOne
  <2> QED BY <1>2, <2>3, ThenOne
<1>3. CASE NewChatAdmitted(s, c)
  BY <1>3, NewChatOne
<1> QED BY <1>1, <1>2, <1>3 DEF Vacate

(* The runtime of a new chat or of a workspace is there.                    *)
LEMMA BootedOne == ASSUME IInv, OneInv, NEW s, Slot = {s}, Booted(s) PROVE OneInv'
<1> DEFINE t == task[s]
           gone == Removable(t.gone, t.conv)
<1>1. /\ t.op = "boot" /\ t.kind # "session"
      /\ convs' = (convs \cup {t.conv}) \ gone /\ activeId' = t.conv
      /\ Close(gone, {t.conv}, listed, prompted)
      /\ task' = [task EXCEPT ![s].op = "bind"]
      /\ UNCHANGED <<cwd, records, storage, resets, booting, quiesced>>
  BY DEF Booted
<1>2. home' = home /\ convSeq' = convSeq /\ reset' = reset
  BY <1>1 DEF records, resets
<1>3. t.conv \in Conv
  BY <1>1, ActsOn
<1>4. /\ t.conv \notin convs /\ reset[t.conv] = "no" /\ home[t.conv] = WorkspaceAfter(t)
      /\ t.gone \in {None, activeId} /\ activeId \in listed \cup {t.gone}
      /\ Cardinality(OpenIn(home[t.conv])) < MaxOpen
  BY <1>1, OneParts DEF BootFresh, BootPlaced
<1>5. ResetsOver' /\ \A c \in Conv : Over(c) => Over(c)'
  BY <1>1, <1>2, <1>3, <1>4, CloseEnds
<1>6. CapHeld'
  <2>1. OpenIn(home[t.conv]) \ {} = OpenIn(home[t.conv])
    OBVIOUS
  <2>2. convs' \subseteq (convs \cup {t.conv}) \ {}
    BY <1>1
  <2>3. Cardinality(OpenIn(home[t.conv]) \ {}) < MaxOpen
    BY <1>4, <2>1
  <2>4. PICK n : n = t.conv
    OBVIOUS
  <2> QED BY <1>2, <2>2, <2>3, <2>4, CapRoom, OneParts
<1>7. ReachedOne'
  <2> SUFFICES ASSUME NEW x \in convs', x # t.conv PROVE x \in listed'
    BY <1>1 DEF ReachedOne
  <2>1. x \in convs /\ x \notin gone /\ listed' = listed \ gone
    BY <1>1 DEF Close
  <2>2. CASE x = activeId
    BY <1>4, <2>1, <2>2 DEF Removable
  <2>3. CASE x # activeId
    BY <2>1, <2>3, OneParts DEF ReachedOne
  <2> QED BY <2>2, <2>3
<1>8. /\ task'[s].op = "bind" /\ task'[s].conv = t.conv /\ task'[s].target = t.target
      /\ task'[s].kind = t.kind /\ task'[s].dir = t.dir
  BY <1>1, OneParts DEF IInv, TypeOK, Task
<1>9. TaskOne(task[s])'
  <2>1. BootFresh(task[s])' /\ BootPlaced(task[s])'
    BY <1>8 DEF BootFresh, BootPlaced
  <2>2. Follows(task[s])'
    BY <1>1, <1>2, <1>4, <1>8 DEF Follows, WorkspaceAfter
  <2>3. t.target # None => t.target \in Conv /\ Over(t.target)
    BY <1>1, OneParts DEF TargetOver, Task
  <2>4. t.target # None => Over(t.target)'
    <3>1. PICK g : g = t.target
      OBVIOUS
    <3>2. g # None => g \in Conv /\ Over(g)
      BY <2>3, <3>1
    <3>3. g # None => Over(g)'
      BY <1>5, <3>2
    <3>4. task'[s].target = g
      BY <1>8, <3>1
    <3> QED BY <1>8, <3>3, <3>4
  <2> QED BY <2>1, <2>2, <2>4, <1>8 DEF TaskOne, TargetOver, Over
<1> QED BY <1>5, <1>6, <1>7, <1>9, OneIs

(* The same for a transcript: what it displaces is the conversation that is *)
(* active now.                                                              *)
LEMMA SessionBootedOne ==
  ASSUME IInv, OneInv, NEW s, Slot = {s}, SessionBooted(s) PROVE OneInv'
<1> DEFINE t == task[s]
           gone == Removable(Displaced, t.conv)
<1>1. /\ t.op = "boot" /\ t.kind = "session"
      /\ UNCHANGED <<records, storage, resets, quiesced>>
  BY DEF SessionBooted
<1>2. home' = home /\ convSeq' = convSeq /\ reset' = reset /\ cwd' = cwd
  BY <1>1 DEF SessionBooted, records, resets, table
<1>3. t.conv \in Conv
  BY <1>1, ActsOn
<1>4. t.conv \notin convs /\ reset[t.conv] = "no" /\ home[t.conv] = WorkspaceAfter(t)
  BY <1>1, OneParts DEF BootFresh
<1>5. home[activeId] = cwd
  BY <1>1, OneParts DEF Follows
<1>6. CASE /\ Full(home[t.conv], {Displaced})
           /\ task' = [task EXCEPT ![s] = Idle]
           /\ UNCHANGED <<table, marks, sessions>>
  <2>1. /\ convs' = convs /\ activeId' = activeId /\ listed' = listed
        /\ run' = run /\ live' = live
    BY <1>6 DEF table, marks, sessions
  <2>2. ReachedOne' /\ CapHeld'
    BY <1>2, <2>1, OneParts, SameTable
  <2>3. ResetsOver'
    BY <1>2, <2>1, OneParts DEF ResetsOver
  <2>4. task'[s] = Idle
    BY <1>6 DEF IInv, TypeOK
  <2>5. TaskOne(task[s])'
    <3>1. home'[activeId'] = cwd'
      BY <1>2, <1>5, <2>1
    <3> QED BY <2>4, <3>1 DEF TaskOne, BootFresh, BootPlaced, Follows, TargetOver, Idle
  <2> QED BY <2>2, <2>3, <2>5, OneIs
<1>7. CASE /\ ~Full(home[t.conv], {Displaced})
           /\ convs' = (convs \cup {t.conv}) \ gone
           /\ activeId' = t.conv
           /\ Close(gone, {t.conv}, Promoted, prompted \cup {t.conv})
           /\ task' = [task EXCEPT ![s].op = "bind"]
  <2>1. ResetsOver' /\ \A c \in Conv : Over(c) => Over(c)'
    BY <1>2, <1>3, <1>4, <1>7, CloseEnds
  <2>2. CapHeld'
    <3>1. PICK n : n = t.conv
      OBVIOUS
    <3>2. PICK d : d = {Displaced}
      OBVIOUS
    <3>3. Cardinality(OpenIn(home[n]) \ d) < MaxOpen
      <4>1. PICK R : R = OpenIn(home[n]) \ d
        OBVIOUS
      <4>2. Cardinality(R) \in Nat
        BY <4>1, OpenFinite, FS_Subset, FS_CardinalityType
      <4>3. ~(Cardinality(R) >= MaxOpen)
        BY <1>7, <3>1, <3>2, <4>1 DEF Full
      <4> QED BY <4>1, <4>2, <4>3, ConstantsAssumption
    <3>4. gone = d \cap convs \/ gone = d \cap (convs \ {n})
      BY <3>1, <3>2 DEF Removable
    <3>5. convs' \subseteq (convs \cup {n}) \ d
      <4>1. Displaced # n
        BY <1>3, <1>4, <3>1, OneParts DEF Displaced
      <4> QED BY <1>7, <3>1, <3>2, <3>4, <4>1
    <3> QED BY <1>2, <3>3, <3>5, CapRoom, OneParts
  <2>3. ReachedOne'
    <3> SUFFICES ASSUME NEW x \in convs', x # t.conv PROVE x \in listed'
      BY <1>7 DEF ReachedOne
    <3>1. x \in convs /\ x \notin gone /\ listed' = Promoted \ gone
      BY <1>7 DEF Close
    <3>2. CASE x = activeId
      BY <3>1, <3>2 DEF Removable, Displaced, Promoted
    <3>3. CASE x # activeId
      BY <3>1, <3>3, OneParts DEF ReachedOne, Promoted
    <3> QED BY <3>2, <3>3
  <2>4. /\ task'[s].op = "bind" /\ task'[s].conv = t.conv /\ task'[s].target = t.target
        /\ task'[s].kind = t.kind /\ task'[s].dir = t.dir
    BY <1>7, OneParts DEF IInv, TypeOK, Task
  <2>5. TaskOne(task[s])'
    <3>1. BootFresh(task[s])' /\ BootPlaced(task[s])'
      BY <2>4 DEF BootFresh, BootPlaced
    <3>2. Follows(task[s])'
      BY <1>2, <1>4, <1>7, <2>4 DEF Follows, WorkspaceAfter
    <3>3. t.target # None => t.target \in Conv /\ Over(t.target)
      BY <1>1, OneParts DEF TargetOver, Task
    <3>4. PICK g : g = t.target
      OBVIOUS
    <3>5. g # None => Over(g)'
      BY <2>1, <3>3, <3>4
    <3>6. task'[s].target = g
      BY <2>4, <3>4
    <3> QED BY <2>4, <3>1, <3>2, <3>5, <3>6 DEF TaskOne, TargetOver, Over
  <2> QED BY <2>1, <2>2, <2>3, <2>5, OneIs
<1> QED BY <1>6, <1>7 DEF SessionBooted

(* The runtime could not be created: only the promotion of the active       *)
(* conversation is taken back.                                              *)
LEMMA BootFailsOne ==
  ASSUME IInv, OneInv, NEW s, Slot = {s}, BootFails(s) PROVE OneInv'
<1> DEFINE t == task[s]
<1>1. /\ t.op = "boot" /\ listed' = listed \ {t.up}
      /\ UNCHANGED <<table, records, sessions, resets>>
  BY DEF BootFails
<1>2. /\ convs' = convs /\ activeId' = activeId /\ cwd' = cwd /\ home' = home
      /\ convSeq' = convSeq /\ run' = run /\ live' = live /\ reset' = reset
  BY <1>1 DEF table, records, sessions, resets
<1>3. ReachedOne'
  <2>1. t.up \in {None, activeId}
    BY <1>1, OneParts DEF BootFresh
  <2>2. \A c \in convs : c # None
    BY OneParts
  <2> QED BY <1>1, <1>2, <2>1, <2>2, OneParts DEF ReachedOne
<1>4. CapHeld'
  BY <1>2, OneParts, CapSmaller
<1>5. ResetsOver'
  BY <1>2, OneParts DEF ResetsOver
<1>6. home'[activeId'] = cwd'
  BY <1>1, <1>2, OneParts DEF Follows
<1>7. PICK g : g = t.target
  OBVIOUS
<1>8. g \in Conv \cup {None} /\ (g # None => Over(g)')
  <2>1. g \in Conv \cup {None} /\ (g # None => Over(g))
    BY <1>1, <1>7, OneParts DEF TargetOver, Task
  <2> QED BY <1>2, <2>1 DEF Over
<1>9. CASE Then(s, t.target)
  <2>1. Then(s, g)
    BY <1>7, <1>9
  <2> QED BY <1>3, <1>4, <1>5, <1>6, <1>8, <2>1, ThenOne
<1>10. ASSUME task'[s].op \in {"thenNew", "idle"}, task'[s].target = None PROVE OneInv'
  <2>1. TaskOne(task[s])'
    BY <1>6, <1>10 DEF TaskOne, BootFresh, BootPlaced, Follows, TargetOver
  <2> QED BY <1>3, <1>4, <1>5, <2>1, OneIs
<1>11. CASE task' = [task EXCEPT ![s] = [Idle EXCEPT
                        !.op = "thenNew", !.dir = t.dir, !.flag = TRUE]]
  <2>1. task'[s].op = "thenNew" /\ task'[s].target = None
    BY <1>11 DEF IInv, TypeOK, Idle
  <2> QED BY <1>10, <2>1
<1>12. CASE task' = [task EXCEPT ![s] = Idle]
  <2>1. task'[s].op = "idle" /\ task'[s].target = None
    BY <1>12 DEF IInv, TypeOK, Idle
  <2> QED BY <1>10, <2>1
<1> QED BY <1>9, <1>11, <1>12 DEF BootFails

(* The new conversation is bound, and its workspace the client's.           *)
LEMMA BoundOne ==
  ASSUME IInv, OneInv, NEW s, Slot = {s}, Bound(s) PROVE OneInv'
<1> DEFINE t == task[s]
<1>1. /\ t.op = "bind" /\ cwd' = WorkspaceAfter(t)
      /\ UNCHANGED <<convs, activeId, listed, records, run, live, resets>>
  BY DEF Bound
<1>2. home' = home /\ convSeq' = convSeq /\ reset' = reset
  BY <1>1 DEF records, resets
<1>3. ReachedOne' /\ CapHeld'
  BY <1>1, <1>2, OneParts, SameTable
<1>4. ResetsOver'
  BY <1>1, <1>2, OneParts DEF ResetsOver
<1>5. home'[activeId'] = cwd'
  BY <1>1, <1>2, OneParts DEF Follows
<1>6. CASE task' = [task EXCEPT ![s] = [Idle EXCEPT
                       !.op = "thenNew", !.dir = t.dir, !.flag = TRUE]]
  <2>1. task'[s].op = "thenNew" /\ task'[s].target = None
    BY <1>6 DEF IInv, TypeOK, Idle
  <2>2. TaskOne(task[s])'
    BY <1>5, <2>1 DEF TaskOne, BootFresh, BootPlaced, Follows, TargetOver
  <2> QED BY <1>3, <1>4, <2>2, OneIs
<1>7. CASE Then(s, t.target)
  <2>1. PICK g : g = t.target
    OBVIOUS
  <2>2. g \in Conv \cup {None} /\ (g # None => Over(g))
    BY <1>1, <2>1, OneParts DEF TargetOver, Task
  <2>3. g # None => Over(g)'
    BY <1>1, <1>2, <2>2 DEF Over
  <2> QED BY <1>3, <1>4, <1>5, <1>7, <2>1, <2>2, <2>3, ThenOne
<1> QED BY <1>6, <1>7 DEF Bound

(* A project without open conversations has room.                           *)
LEMMA RoomInNew ==
  ASSUME IInv, NEW w, OpenIn(w) = {} PROVE Cardinality(OpenIn(w)) < MaxOpen
  BY FS_EmptySet, ConstantsAssumption

(* new_chat in another workspace.                                           *)
LEMMA ResolveNewOne ==
  ASSUME IInv, OneInv, NEW s, Slot = {s}, ResolveNew(s) PROVE OneInv'
<1> DEFINE w == task[s].dir
<1>1. task[s].op = "resolveNew" /\ reset' = reset
  BY DEF ResolveNew, resets
<1>2. w \in Cwd
  BY OneParts DEF Task
<1>3. CASE /\ w # cwd /\ OpenIn(w) = {}
           /\ listed' = Promoted
           /\ StartBoot(s, "workspace", w, NextId, Displaced, NewlyListed, None, FALSE)
           /\ UNCHANGED <<table, prompted, sessions>>
  <2>1. /\ "workspace" \in Kind /\ Displaced \in Conv \cup {None}
        /\ NewlyListed \in {None, activeId}
    BY OneParts DEF Kind, Displaced, NewlyListed
  <2> QED BY <1>1, <1>2, <1>3, <2>1, RoomInNew, StartOne
<1>4. CASE /\ task' = [task EXCEPT ![s].op = "resolve", ![s].flag = TRUE]
           /\ UNCHANGED <<table, marks, records, sessions, booting>>
  <2>1. UNCHANGED <<convs, activeId, cwd, listed, convSeq, home, run, live, reset>>
    BY <1>1, <1>4 DEF table, marks, records, sessions
  <2>2. task'[s].op = "resolve"
    BY <1>4, OneParts DEF Task
  <2>3. TargetOver(task[s])'
    BY <2>2 DEF TargetOver
  <2> QED BY <1>1, <2>1, <2>2, <2>3, QuietTask
<1> QED BY <1>3, <1>4 DEF ResolveNew

(* set_cwd goes to an open conversation of the project or boots one.        *)
LEMMA ResolveOne ==
  ASSUME IInv, OneInv, NEW s, Slot = {s}, Resolve(s) PROVE OneInv'
<1> DEFINE w == task[s].dir
           next == IF task[s].flag THEN [task[s] EXCEPT !.op = "thenNew"] ELSE Idle
<1>1. task[s].op = "resolve" /\ reset' = reset
  BY DEF Resolve, resets
<1>2. w \in Cwd
  BY OneParts DEF Task
<1>3. next.op \in {"thenNew", "idle"}
  BY OneParts DEF Task, Idle
<1>4. CASE /\ task' = [task EXCEPT ![s] = next]
           /\ UNCHANGED <<table, marks, records, sessions, booting>>
  <2>1. UNCHANGED <<convs, activeId, cwd, listed, convSeq, home, run, live, reset>>
    BY <1>1, <1>4 DEF table, marks, records, sessions
  <2>2. task'[s].op \in {"thenNew", "idle"}
    BY <1>3, <1>4 DEF IInv, TypeOK
  <2>3. TargetOver(task[s])'
    BY <2>2 DEF TargetOver
  <2> QED BY <1>1, <2>1, <2>2, <2>3, QuietTask
<1>5. CASE /\ \E c \in OpenIn(w) : SwitchTo(c)
           /\ task' = [task EXCEPT ![s] = next]
           /\ UNCHANGED <<records, booting>>
  <2>1. PICK c \in convs : SwitchTo(c)
    BY <1>5 DEF OpenIn
  <2>2. home' = home /\ convSeq' = convSeq
    BY <1>5 DEF records
  <2>3. ReachedOne' /\ CapHeld' /\ ResetsOver' /\ home'[activeId'] = cwd'
    BY <1>1, <2>1, <2>2, SwitchOne
  <2>4. task'[s].op \in {"thenNew", "idle"}
    BY <1>3, <1>5 DEF IInv, TypeOK
  <2>5. TaskOne(task[s])'
    BY <2>3, <2>4 DEF TaskOne, BootFresh, BootPlaced, Follows, TargetOver
  <2> QED BY <2>3, <2>5, OneIs
<1>6. CASE /\ w # cwd /\ OpenIn(w) = {}
           /\ listed' = Promoted
           /\ StartBoot(s, "cwd", w, ContinueRecent(w, NextId), Displaced, None, None,
                        task[s].flag)
           /\ UNCHANGED <<table, prompted, sessions>>
  <2>1. "cwd" \in Kind /\ Displaced \in Conv \cup {None} /\ task[s].flag \in BOOLEAN
    BY OneParts DEF Kind, Displaced, Task
  <2> QED BY <1>1, <1>2, <1>6, <2>1, RoomInNew, StartOne
<1> QED BY <1>4, <1>5, <1>6 DEF Resolve

(* new_chat once its set_cwd is done.                                       *)
LEMMA ThenNewChatOne ==
  ASSUME IInv, OneInv, NEW s, Slot = {s}, ThenNewChat(s) PROVE OneInv'
<1>1. task[s].op = "thenNew" /\ reset' = reset
  BY DEF ThenNewChat, resets
<1>2. CASE NewChatCore(s, None)
  BY <1>1, <1>2, NewChatCoreOne
<1>3. CASE /\ task' = [task EXCEPT ![s] = Idle]
           /\ UNCHANGED <<table, marks, records, sessions, booting>>
  <2>1. UNCHANGED <<convs, activeId, cwd, listed, convSeq, home, run, live, reset>>
    BY <1>1, <1>3 DEF table, marks, records, sessions
  <2>2. task'[s] = Idle
    BY <1>3 DEF IInv, TypeOK
  <2>3. TargetOver(task[s])' /\ task'[s].op = "idle"
    BY <2>2 DEF TargetOver, Idle
  <2> QED BY <1>1, <2>1, <2>3, QuietTask
<1> QED BY <1>2, <1>3 DEF ThenNewChat

(* Steps that leave the table alone are about runs, resets and the task.    *)
LEMMA TableOne ==
  ASSUME IInv, OneInv, NEW s, Slot = {s}, UNCHANGED <<convs, activeId, listed, home>>,
         ResetsOver', TaskOne(task[s])'
  PROVE  OneInv'
<1>1. ReachedOne' /\ CapHeld'
  BY SameTable, OneParts
<1> QED BY <1>1, OneIs

(* Runs that end, terminals that exit and resets beside a handler, which at *)
(* most learns that the run it interrupts has ended.                        *)
LEMMA BesideOne ==
  ASSUME IInv, OneInv, NEW s, Slot = {s},
         UNCHANGED <<convs, activeId, cwd, listed, convSeq, home>>, ResetsOver',
         /\ task'[s].op = task[s].op /\ task'[s].kind = task[s].kind
         /\ task'[s].conv = task[s].conv /\ task'[s].gone = task[s].gone
         /\ task'[s].up = task[s].up /\ task'[s].target = task[s].target
         /\ task'[s].dir = task[s].dir,
         \A c \in Conv : /\ reset[c] = "no" => reset'[c] = "no"
                         /\ run[c] = "idle" => run'[c] = "idle"
                         /\ term[c] # "live" => term'[c] # "live"
                         /\ Over(c) => Over(c)',
         task'[s].flag /\ task[s].op \in {"abort", "settle"} =>
           task[s].flag \/ Over(task[s].conv)'
  PROVE  OneInv'
<1> DEFINE t == task[s]
<1>1. BootFresh(task[s])'
  <2>1. CASE t.op = "boot"
    <3>1. t.conv \in Conv
      BY <2>1, ActsOn
    <3>2. /\ t.conv \notin convs /\ reset[t.conv] = "no"
          /\ home[t.conv] = WorkspaceAfter(t) /\ t.up \in {None, activeId}
      BY <2>1, OneParts DEF BootFresh
    <3> QED BY <3>1, <3>2 DEF BootFresh, WorkspaceAfter
  <2>2. CASE t.op # "boot"
    BY <2>2 DEF BootFresh
  <2> QED BY <2>1, <2>2
<1>2. BootPlaced(task[s])'
  <2> SUFFICES ASSUME t.op = "boot", t.kind # "session" PROVE BootPlaced(task[s])'
    BY DEF BootPlaced
  <2>1. /\ t.gone \in {None, activeId} /\ activeId \in listed \cup {t.gone}
        /\ t.gone # None => run[t.gone] = "idle" /\ term[t.gone] # "live"
        /\ Cardinality(OpenIn(home[t.conv])) < MaxOpen
    BY OneParts DEF BootPlaced
  <2>2. t.gone \in Conv \cup {None}
    BY OneParts DEF Task
  <2>3. t.gone # None => run'[t.gone] = "idle" /\ term'[t.gone] # "live"
    BY <2>1, <2>2
  <2>4. Cardinality(OpenIn(home[task[s].conv])') < MaxOpen
    BY <2>1 DEF OpenIn
  <2> QED BY <2>1, <2>3, <2>4 DEF BootPlaced
<1>3. Follows(task[s])'
  BY OneParts DEF Follows, WorkspaceAfter
<1>4. TargetOver(task[s])'
  <2>1. PICK g : g = t.target
    OBVIOUS
  <2>2. PICK h : h = t.conv
    OBVIOUS
  <2>3. g \in Conv \cup {None}
    BY <2>1, OneParts DEF Task
  <2>4. t.op \in {"prompt", "prompted", "abort", "settle"} => h \in 1 .. convSeq
    BY <2>2, OneParts DEF TargetOver
  <2>5. g # None /\ t.op \in {"boot", "bind", "drop", "vacate"} => Over(g)
    BY <2>1, OneParts DEF TargetOver
  <2>6. g # None /\ t.op \in {"abort", "settle"} => g = h /\ (t.flag => Over(g))
    BY <2>1, <2>2, OneParts DEF TargetOver
  <2>7. g # None /\ t.op \in {"boot", "bind", "drop", "vacate"} => Over(g)'
    BY <2>3, <2>5
  <2>8. g # None /\ t.op \in {"abort", "settle"} => g = h /\ (task'[s].flag => Over(g)')
    <3>1. task'[s].flag /\ t.op \in {"abort", "settle"} => t.flag \/ Over(h)'
      BY <2>2 DEF Over
    <3> QED BY <2>3, <2>6, <3>1
  <2>9. task'[s].target = g /\ task'[s].conv = h
    BY <2>1, <2>2
  <2> QED BY <2>4, <2>7, <2>8, <2>9 DEF TargetOver, Over
<1> QED BY <1>1, <1>2, <1>3, <1>4, TableOne DEF TaskOne

(* The task of a client whose handlers do not overlap, after an agent_end.  *)
LEMMA SeenEndOne ==
  ASSUME IInv, NEW s, Slot = {s}, NEW c \in Conv, task' = SeenEnd(c)
  PROVE  /\ task'[s].op = task[s].op /\ task'[s].kind = task[s].kind
         /\ task'[s].conv = task[s].conv /\ task'[s].gone = task[s].gone
         /\ task'[s].up = task[s].up /\ task'[s].target = task[s].target
         /\ task'[s].dir = task[s].dir
         /\ task'[s].flag # task[s].flag => task[s].conv = c
<1>1. task[s] \in Task
  BY DEF IInv, TypeOK
<1>2. task'[s] = IF task[s].op \in {"abort", "settle"} /\ task[s].conv = c
                 THEN [task[s] EXCEPT !.flag = TRUE] ELSE task[s]
  BY DEF SeenEnd
<1> QED BY <1>1, <1>2 DEF Task

(* Runs end, hang or save, terminals exit.                                  *)
LEMMA AgentOne ==
  ASSUME IInv, OneInv, NEW s, Slot = {s}, NEW c \in Conv, Agent(c) PROVE OneInv'
<1>1. CASE RunEnds(c)
  <2>1. /\ run' = [run EXCEPT ![c] = "idle"] /\ task' = SeenEnd(c)
        /\ UNCHANGED <<table, marks, records, term, live, resets>>
    BY <1>1 DEF RunEnds
  <2>2. /\ UNCHANGED <<convs, activeId, cwd, listed, convSeq, home>>
        /\ term' = term /\ live' = live /\ reset' = reset
    BY <2>1 DEF table, marks, records, resets
  <2>3. run'[c] = "idle" /\ \A d \in Conv : d # c => run'[d] = run[d]
    BY <2>1, OneParts
  <2>4. ResetsOver'
    BY <2>2, <2>3, OneParts DEF ResetsOver
  <2>5. \A d \in Conv : Over(d) => Over(d)'
    BY <2>2, <2>3 DEF Over
  <2>6. Over(c)'
    BY <2>3 DEF Over
  <2>7. task'[s].flag => task[s].flag \/ Over(task[s].conv)'
    <3>1. task'[s].flag # task[s].flag => task'[s].conv = c
      BY <2>1, SeenEndOne
    <3>2. task'[s].flag # task[s].flag => Over(task[s].conv)'
      BY <2>6, <3>1 DEF Over
    <3>3. task'[s].conv = task[s].conv
      BY <2>1, SeenEndOne
    <3> QED BY <3>2, <3>3
  <2> QED BY <2>1, <2>2, <2>3, <2>4, <2>5, <2>7, SeenEndOne, BesideOne
<1>2. CASE ModelHangs(c) \/ ToolHangs(c)
  <2>1. /\ run[c] = "busy"
        /\ UNCHANGED <<table, marks, records, term, live, resets, task>>
        /\ \E r \in {"hung", "hungTool"} : run' = [run EXCEPT ![c] = r]
    BY <1>2 DEF ModelHangs, ToolHangs
  <2>2. /\ UNCHANGED <<convs, activeId, cwd, listed, convSeq, home>>
        /\ term' = term /\ live' = live /\ reset' = reset /\ task' = task
    BY <2>1 DEF table, marks, records, resets
  <2>3. /\ run[c] = "busy" /\ run'[c] # "idle"
        /\ \A d \in Conv : d # c => run'[d] = run[d]
    BY <2>1, OneParts
  <2>4. ResetsOver'
    BY <2>2, <2>3, OneParts DEF ResetsOver
  <2>5. \A d \in Conv : Over(d) => Over(d)'
    BY <2>2, <2>3 DEF Over
  <2> QED BY <2>2, <2>3, <2>4, <2>5, BesideOne
<1>3. CASE Save(c)
  <2>1. /\ UNCHANGED <<convs, activeId, cwd, listed, convSeq, home>>
        /\ run' = run /\ term' = term /\ live' = live /\ reset' = reset /\ task' = task
    BY <1>3 DEF Save, table, marks, records, resets, sessions
  <2>2. ResetsOver' /\ \A d \in Conv : Over(d) => Over(d)'
    BY <2>1, OneParts DEF ResetsOver, Over
  <2> QED BY <2>1, <2>2, BesideOne
<1>4. CASE TerminalExits(c)
  <2>1. /\ UNCHANGED <<convs, activeId, cwd, listed, convSeq, home>>
        /\ run' = run /\ live' = live /\ reset' = reset /\ task' = task
        /\ term' = [term EXCEPT ![c] = "exited"]
    BY <1>4 DEF TerminalExits, table, marks, records, resets
  <2>2. ResetsOver' /\ \A d \in Conv : Over(d) => Over(d)'
    BY <2>1, OneParts DEF ResetsOver, Over
  <2>3. \A d \in Conv : term[d] # "live" => term'[d] # "live"
    BY <2>1, OneParts
  <2> QED BY <2>1, <2>2, <2>3, BesideOne
<1> QED BY <1>1, <1>2, <1>3, <1>4 DEF Agent

(* A conversation whose runtime is being replaced has no run.               *)
LEMMA ResetOne ==
  ASSUME IInv, OneInv, NEW s, Slot = {s}, NEW c \in Conv, ResetStep(c) \/ Rebound(c)
  PROVE  OneInv'
<1>1. CASE ResetDisposed(c)
  <2>1. /\ UNCHANGED <<convs, activeId, cwd, listed, convSeq, home>>
        /\ term' = term /\ task' = task /\ live' = live \ {c}
        /\ reset[c] = "dispose" /\ reset' = [reset EXCEPT ![c] = "boot"]
        /\ run' = [run EXCEPT ![c] = "idle"]
    BY <1>1 DEF ResetDisposed, table, marks
  <2>2. /\ run'[c] = "idle" /\ reset'[c] = "boot" /\ reset[c] # "no"
        /\ \A d \in Conv : d # c => run'[d] = run[d] /\ reset'[d] = reset[d]
    BY <2>1, OneParts
  <2>3. ResetsOver'
    BY <2>1, <2>2, OneParts DEF ResetsOver
  <2>4. \A d \in Conv : Over(d) => Over(d)'
    BY <2>2 DEF Over
  <2> QED BY <2>1, <2>2, <2>3, <2>4, BesideOne
<1>2. CASE ResetBooted(c)
  <2>1. /\ UNCHANGED <<convs, activeId, cwd, listed, convSeq, home>>
        /\ term' = term /\ run' = run /\ live' = live \cup {c}
        /\ reset[c] = "boot" /\ reset' = [reset EXCEPT ![c] = "no"]
    BY <1>2 DEF ResetBooted, table, marks, records
  <2>2. run[c] = "idle" /\ \A d \in Conv : reset'[d] = IF d = c THEN "no" ELSE reset[d]
    BY <2>1, OneParts DEF ResetsOver
  <2>3. ResetsOver'
    BY <2>1, <2>2, OneParts DEF ResetsOver
  <2>4. \A d \in Conv : Over(d) => Over(d)'
    BY <2>1, <2>2 DEF Over
  <2>5. task'[s] = IF task[s].op = "prompt" /\ task[s].conv = c
                   THEN [task[s] EXCEPT !.flag = TRUE] ELSE task[s]
    BY <1>2 DEF ResetBooted
  <2>6. /\ task'[s].op = task[s].op /\ task'[s].kind = task[s].kind
        /\ task'[s].conv = task[s].conv /\ task'[s].gone = task[s].gone
        /\ task'[s].up = task[s].up /\ task'[s].target = task[s].target
        /\ task'[s].dir = task[s].dir
        /\ task[s].op # "prompt" => task'[s].flag = task[s].flag
    BY <2>5, OneParts DEF Task
  <2> QED BY <2>1, <2>2, <2>3, <2>4, <2>6, BesideOne
<1>3. CASE ResetFails(c)
  <2>1. /\ UNCHANGED <<convs, activeId, cwd, listed, convSeq, home>>
        /\ term' = term /\ run' = run /\ live' = live /\ task' = task
        /\ reset[c] = "boot" /\ reset' = [reset EXCEPT ![c] = "no"]
    BY <1>3 DEF ResetFails, table, marks, records, sessions
  <2>2. run[c] = "idle" /\ \A d \in Conv : reset'[d] = IF d = c THEN "no" ELSE reset[d]
    BY <2>1, OneParts DEF ResetsOver
  <2>3. ResetsOver'
    BY <2>1, <2>2, OneParts DEF ResetsOver
  <2>4. \A d \in Conv : Over(d) => Over(d)'
    BY <2>1, <2>2 DEF Over
  <2> QED BY <2>1, <2>2, <2>3, <2>4, BesideOne
<1>4. CASE Rebound(c)
  <2>1. /\ UNCHANGED <<convs, activeId, cwd, listed, convSeq, home>>
        /\ run' = run /\ term' = term /\ live' = live /\ reset' = reset /\ task' = task
    BY <1>4 DEF Rebound, table, marks, records
  <2>2. ResetsOver' /\ \A d \in Conv : Over(d) => Over(d)'
    BY <2>1, OneParts DEF ResetsOver, Over
  <2> QED BY <2>1, <2>2, BesideOne
<1> QED BY <1>1, <1>2, <1>3, <1>4 DEF ResetStep

(* The steps of a prompt and of an interruption.                            *)
LEMMA RunOne ==
  ASSUME IInv, OneInv, NEW s, Slot = {s},
         \/ Deliver(s) \/ DeliverFails(s) \/ Prompted(s) \/ AbortStops(s) \/ AbortReturns(s)
         \/ HardAbort(s) \/ Settled(s)
  PROVE  OneInv'
<1> DEFINE t == task[s]
<1>0. PICK c : c = t.conv
  OBVIOUS
<1>1. /\ t.op \in {"prompt", "prompted", "abort", "settle"} /\ c \in Conv
      /\ c \in 1 .. convSeq /\ t \in Task /\ home[activeId] = cwd
      /\ t.target # None /\ t.op \in {"abort", "settle"} => t.target = c /\ (t.flag => Over(c))
  <2>1. t.op \in {"prompt", "prompted", "abort", "settle"}
    BY DEF Deliver, DeliverFails, Prompted, AbortStops, AbortReturns, HardAbort, Settled
  <2>2. t \in Task /\ home[activeId] = cwd
    BY <2>1, OneParts DEF Follows
  <2>3. t.target # None /\ t.op \in {"abort", "settle"} => t.target = c /\ (t.flag => Over(c))
    BY <1>0, OneParts DEF TargetOver
  <2>4. c \in 1 .. convSeq
    BY <1>0, <2>1, OneParts DEF TargetOver
  <2> QED BY <2>1, <2>2, <2>3, <2>4, OneParts
<1>2. /\ UNCHANGED <<convs, activeId, cwd, listed, convSeq, home, live>>
  BY DEF Deliver, DeliverFails, Prompted, AbortStops, AbortReturns, HardAbort, Settled,
         table, marks, records, sessions
<1>3. ASSUME ResetsOver', task'[s].op \in {"prompt", "prompted", "abort", "settle"},
             task'[s].conv = c, task'[s].target = t.target,
             task'[s].op \in {"abort", "settle"} =>
               t.op \in {"abort", "settle"} /\ (task'[s].flag => t.flag \/ Over(c)'),
             Over(c) => Over(c)'
      PROVE  OneInv'
  <2>1. BootFresh(task[s])' /\ BootPlaced(task[s])' /\ Follows(task[s])'
    BY <1>1, <1>2, <1>3 DEF BootFresh, BootPlaced, Follows
  <2>2. PICK g : g = t.target
    OBVIOUS
  <2>3. g # None /\ t.op \in {"abort", "settle"} => g = c /\ (t.flag => Over(c))
    BY <1>1, <2>2
  <2>4. g # None /\ task'[s].op \in {"abort", "settle"} =>
          g = c /\ (task'[s].flag => Over(g)')
    <3> SUFFICES ASSUME g # None, task'[s].op \in {"abort", "settle"}
                 PROVE  g = c /\ (task'[s].flag => Over(c)')
      OBVIOUS
    <3> QED BY <1>3, <2>3
  <2>5. TargetOver(task[s])'
    BY <1>1, <1>2, <1>3, <2>2, <2>4 DEF TargetOver, Over
  <2> QED BY <1>2, <1>3, <2>1, <2>5, TableOne DEF TaskOne
<1>4. ASSUME ResetsOver', task'[s].op \in {"idle", "vacate"}, task'[s].target # None =>
               task'[s].target = c /\ Over(c)'
      PROVE  OneInv'
  <2>1. BootFresh(task[s])' /\ BootPlaced(task[s])' /\ Follows(task[s])'
    BY <1>1, <1>2, <1>4 DEF BootFresh, BootPlaced, Follows
  <2>2. TargetOver(task[s])'
    BY <1>4 DEF TargetOver, Over
  <2> QED BY <1>2, <1>4, <2>1, <2>2, TableOne DEF TaskOne
<1>5. ASSUME run' = run, reset' = reset PROVE ResetsOver' /\ (Over(c) => Over(c)')
  BY <1>2, <1>5, OneParts DEF ResetsOver, Over
<1>6. CASE Deliver(s)
  <2>1. reset' = reset /\ t.op = "prompt"
    BY <1>6 DEF Deliver, resets
  <2>2. \/ run' = run
        \/ c \in live /\ run[c] = "idle" /\ run' = [run EXCEPT ![c] = "busy"]
    BY <1>0, <1>6 DEF Deliver
  <2>3. ResetsOver'
    <3>1. CASE run' = run
      BY <1>5, <2>1, <3>1
    <3>2. CASE c \in live /\ run' = [run EXCEPT ![c] = "busy"]
      <4>1. \A d \in Conv : d # c => run'[d] = run[d]
        BY <3>2, OneParts
      <4>2. reset[c] # "boot"
        BY <1>1, <3>2, OneParts DEF ResetsOver
      <4> QED BY <1>1, <1>2, <2>1, <4>1, <4>2, OneParts DEF ResetsOver
    <3> QED BY <2>2, <3>1, <3>2
  <2>4. task'[s].op = "prompted" /\ task'[s].conv = c /\ task'[s].target = t.target
    BY <1>0, <1>1, <1>6, OneParts DEF Deliver, Task
  <2>5. BootFresh(task[s])' /\ BootPlaced(task[s])' /\ Follows(task[s])'
    BY <1>1, <1>2, <2>4 DEF BootFresh, BootPlaced, Follows
  <2>6. TargetOver(task[s])'
    BY <1>1, <1>2, <2>4 DEF TargetOver
  <2> QED BY <1>2, <2>3, <2>5, <2>6, TableOne DEF TaskOne
<1>7. CASE DeliverFails(s)
  <2>1. run' = run /\ reset' = reset
    BY <1>7 DEF DeliverFails, sessions, resets
  <2>2. task'[s].op = "prompted" /\ task'[s].conv = c /\ task'[s].target = t.target
    BY <1>0, <1>1, <1>7, OneParts DEF DeliverFails, Task
  <2> QED BY <1>3, <1>5, <2>1, <2>2
<1>8. CASE Prompted(s)
  <2>1. run' = run /\ reset' = reset /\ task'[s] = Idle
    BY <1>8, OneParts DEF Prompted, sessions, resets
  <2> QED BY <1>4, <1>5, <2>1 DEF Idle
<1>9. CASE AbortStops(s)
  <2>1. /\ reset' = reset /\ run' = [run EXCEPT ![c] = "idle"] /\ task' = SeenEnd(c)
        /\ t.op = "abort"
    BY <1>0, <1>9 DEF AbortStops, resets
  <2>2. run'[c] = "idle" /\ \A d \in Conv : d # c => run'[d] = run[d]
    BY <1>1, <2>1, OneParts
  <2>3. ResetsOver'
    BY <1>2, <2>1, <2>2, OneParts DEF ResetsOver
  <2>4. Over(c)'
    BY <2>2 DEF Over
  <2>5. task'[s].op = "abort" /\ task'[s].conv = c /\ task'[s].target = t.target
    BY <1>0, <1>1, <2>1, SeenEndOne
  <2> QED BY <1>3, <2>1, <2>3, <2>4, <2>5
<1>10. CASE AbortReturns(s)
  <2>1. run' = run /\ reset' = reset /\ t.op = "abort"
    BY <1>10 DEF AbortReturns, sessions, resets
  <2>2. /\ task'[s].op = "settle" /\ task'[s].conv = c /\ task'[s].target = t.target
        /\ task'[s].flag = t.flag
    BY <1>0, <1>1, <1>10, OneParts DEF AbortReturns, Task
  <2> QED BY <1>3, <1>5, <2>1, <2>2
<1>11. ASSUME ForceReset(c) PROVE ResetsOver' /\ Over(c)'
  <2>1. /\ reset' = [reset EXCEPT ![c] = "dispose"]
        /\ run' = [run EXCEPT ![c] = IF @ = "hungTool" THEN "hung" ELSE @]
    BY <1>11 DEF ForceReset
  <2>2. /\ reset'[c] = "dispose"
        /\ \A d \in Conv : d # c => run'[d] = run[d] /\ reset'[d] = reset[d]
    BY <1>1, <2>1, OneParts
  <2>3. ResetsOver'
    BY <1>1, <1>2, <2>2, OneParts DEF ResetsOver
  <2> QED BY <2>2, <2>3 DEF Over
<1>12. CASE HardAbort(s)
  <2>1. ForceReset(c) /\ t.op \in {"abort", "settle"}
    BY <1>0, <1>12 DEF HardAbort
  <2>2. task'[s].op = "settle" /\ task'[s].conv = c /\ task'[s].target = t.target
    BY <1>0, <1>1, <1>12, OneParts DEF HardAbort, Task
  <2> QED BY <1>3, <1>11, <2>1, <2>2
<1>13. CASE Settled(s)
  <2>1. t.op = "settle" /\ (ForceReset(c) \/ (t.flag /\ UNCHANGED <<reset, run>>))
    BY <1>0, <1>13 DEF Settled
  <2>2. task'[s] = IF t.target = None THEN Idle
                   ELSE [Idle EXCEPT !.op = "vacate", !.target = t.target]
    BY <1>13, OneParts DEF Settled, AfterInterrupt
  <2>3. task'[s].op \in {"idle", "vacate"} /\ task'[s].target = t.target
    BY <2>2 DEF Idle
  <2>4. ResetsOver' /\ (Over(c) \/ ForceReset(c) => Over(c)')
    BY <1>5, <1>11, <2>1
  <2>5. t.target # None => t.target = c /\ (Over(c) \/ ForceReset(c))
    BY <1>1, <2>1
  <2> QED BY <1>4, <2>3, <2>4, <2>5
<1> QED BY <1>6, <1>7, <1>8, <1>9, <1>10, <1>12, <1>13

(* The removal of a conversation that was dismissed.                        *)
LEMMA DropOne ==
  ASSUME IInv, OneInv, NEW s, Slot = {s}, DropTarget(s) PROVE OneInv'
<1> DEFINE gone == Removable(task[s].target, activeId)
<1>1. /\ task[s].op = "drop" /\ convs' = convs \ gone
      /\ Close(gone, {}, listed, prompted)
      /\ task' = [task EXCEPT ![s] = Idle]
      /\ UNCHANGED <<activeId, cwd, records, resets>>
  BY DEF DropTarget
<1>2. home' = home /\ convSeq' = convSeq /\ reset' = reset
  BY <1>1 DEF records, resets
<1>3. ResetsOver'
  BY <1>1, <1>2, CloseEnds
<1>4. CapHeld'
  BY <1>1, <1>2, CapSmaller, OneParts
<1>5. ReachedOne'
  BY <1>1, OneParts DEF ReachedOne, Close
<1>6. task'[s] = Idle
  BY <1>1, OneParts
<1>7. home'[activeId'] = cwd'
  BY <1>1, <1>2, OneParts DEF Follows
<1>8. TaskOne(task[s])'
  BY <1>6, <1>7 DEF TaskOne, BootFresh, BootPlaced, Follows, TargetOver, Idle
<1> QED BY <1>3, <1>4, <1>5, <1>8, OneIs

(* Every continuation of the handler keeps the invariant.                   *)
LEMMA ContinueOne ==
  ASSUME IInv, OneInv, NEW s, Slot = {s}, Continue(s) PROVE OneInv'
<1>1. CASE ResolveFails(s)
  <2>1. /\ task[s].op \in {"resolve", "resolveNew"}
        /\ UNCHANGED <<convs, activeId, cwd, listed, convSeq, home, run, live, reset>>
    BY <1>1 DEF ResolveFails, table, marks, records, sessions, resets
  <2>2. task'[s].op \in {"thenNew", "idle"}
    BY <1>1, OneParts DEF ResolveFails, Task, Idle
  <2>3. TargetOver(task[s])'
    BY <2>2 DEF TargetOver
  <2> QED BY <2>1, <2>2, <2>3, QuietTask
<1>2. CASE ForceVacate(s)
  <2>1. PICK c : c = task[s].target
    OBVIOUS
  <2>2. task[s].op = "vacate" /\ Vacate(s, c) /\ reset' = reset
    BY <1>2, <2>1 DEF ForceVacate, resets
  <2>3. c \in Conv
    BY <2>1, <2>2 DEF IInv, TasksOK
  <2>4. Over(c)
    BY <2>1, <2>2, <2>3, OneParts DEF TargetOver
  <2> QED BY <2>2, <2>3, <2>4, VacateOne
<1> QED
  BY <1>1, <1>2, ResolveNewOne, ResolveOne, ThenNewChatOne, BootedOne, SessionBootedOne,
     BootFailsOne, BoundOne, DropOne, RunOne DEF Continue

(* A handler starts, with nothing of its kind in flight.                    *)
LEMMA CommandOne ==
  ASSUME IInv, OneInv, NEW s, Slot = {s}, Command(s) \/ \E c \in Conv : Watchdog(s, c)
  PROVE  OneInv'
<1>1. ASSUME UNCHANGED <<convs, activeId, cwd, listed, convSeq, home, run, live, reset>>,
             task[s].op = "idle", task'[s].op \in {"resolve", "resolveNew", "idle"}
      PROVE  OneInv'
  <2>1. TargetOver(task[s])'
    BY <1>1 DEF TargetOver
  <2> QED BY <1>1, <2>1, QuietTask
<1>2. ASSUME UNCHANGED <<convs, activeId, cwd, listed, convSeq, home, live, reset>>,
             task[s].op = "idle", ResetsOver', NEW c \in 1 .. convSeq,
             task' = [task EXCEPT ![s] = [Idle EXCEPT !.op = "abort", !.conv = c, !.target = c]]
      PROVE  OneInv'
  <2>1. /\ task'[s].op = "abort" /\ task'[s].conv = c /\ task'[s].target = c
        /\ task'[s].flag = FALSE
    BY <1>2, OneParts DEF Idle
  <2>2. TargetOver(task[s])'
    BY <1>2, <2>1 DEF TargetOver
  <2>3. BootFresh(task[s])' /\ BootPlaced(task[s])' /\ Follows(task[s])'
    BY <1>2, <2>1, OneParts DEF BootFresh, BootPlaced, Follows
  <2> QED BY <1>2, <2>2, <2>3, TableOne DEF TaskOne
<1>3. CASE NewChat(s)
  BY <1>3, NewChatOne DEF NewChat, Accepts, Free, resets
<1>4. ASSUME task[s].op = "idle", NEW c \in 1 .. convSeq, NEW op \in {"prompt", "abort"},
             task' = [task EXCEPT ![s] = [Idle EXCEPT !.op = op, !.conv = c]],
             UNCHANGED <<convs, activeId, cwd, listed, convSeq, home, live, reset>>, ResetsOver'
      PROVE  OneInv'
  <2>1. task'[s].op = op /\ task'[s].conv = c /\ task'[s].target = None
    BY <1>4, OneParts DEF Idle
  <2>2. TargetOver(task[s])'
    BY <1>4, <2>1 DEF TargetOver
  <2>3. BootFresh(task[s])' /\ BootPlaced(task[s])' /\ Follows(task[s])'
    BY <1>4, <2>1, OneParts DEF BootFresh, BootPlaced, Follows
  <2> QED BY <1>4, <2>2, <2>3, TableOne DEF TaskOne
<1>5. CASE Prompt(s) \/ Stop(s)
  <2>1. /\ task[s].op = "idle"
        /\ UNCHANGED <<convs, activeId, cwd, listed, convSeq, home, run, live, reset>>
    BY <1>5 DEF Prompt, Stop, Accepts, Free, table, marks, records, sessions, resets
  <2>2. \E op \in {"prompt", "abort"} :
          task' = [task EXCEPT ![s] = [Idle EXCEPT !.op = op, !.conv = activeId]]
    BY <1>5 DEF Prompt, Stop
  <2>3. ResetsOver'
    BY <2>1, OneParts DEF ResetsOver
  <2>4. activeId \in 1 .. convSeq
    BY OneParts
  <2> QED BY <1>4, <2>1, <2>2, <2>3, <2>4
<1>6. CASE OpenTerminal(s)
  <2>1. /\ UNCHANGED <<convs, activeId, cwd, listed, convSeq, home, run, live, reset>>
        /\ task[s].op = "idle" /\ task' = task
    BY <1>6 DEF OpenTerminal, Accepts, Free, table, marks, records, resets
  <2> QED BY <1>1, <2>1
<1>7. CASE \E w \in Cwd : NewChatIn(s, w) \/ SetCwd(s, w)
  <2>1. /\ UNCHANGED <<convs, activeId, cwd, listed, convSeq, home, run, live, reset>>
        /\ task[s].op = "idle"
    BY <1>7 DEF NewChatIn, SetCwd, Accepts, Free, table, marks, records, sessions, resets
  <2>2. task'[s].op \in {"resolve", "resolveNew"}
    BY <1>7, OneParts DEF NewChatIn, SetCwd, Idle
  <2> QED BY <1>1, <2>1, <2>2
<1>8. ASSUME NEW f \in File, SwitchSession(s, f) PROVE OneInv'
  <2>1. task[s].op = "idle" /\ reset' = reset
    BY <1>8 DEF SwitchSession, Accepts, Free, resets
  <2>2. CASE \E c \in Holders(f) \ {activeId} :
               SwitchTo(c) /\ UNCHANGED <<records, booting, task>>
    <3>1. PICK c \in convs : SwitchTo(c) /\ UNCHANGED <<records, booting, task>>
      BY <2>2 DEF Holders
    <3>2. home' = home /\ convSeq' = convSeq /\ task'[s].op = "idle"
      BY <2>1, <3>1 DEF records
    <3>3. ReachedOne' /\ CapHeld' /\ ResetsOver' /\ home'[activeId'] = cwd'
      BY <2>1, <3>1, <3>2, SwitchOne
    <3>4. TaskOne(task[s])'
      BY <3>2, <3>3 DEF TaskOne, BootFresh, BootPlaced, Follows, TargetOver
    <3> QED BY <3>3, <3>4, OneIs
  <2>3. CASE /\ StartBoot(s, "session", FileCwd(f), f, None, None, None, FALSE)
             /\ UNCHANGED <<table, marks, sessions>>
    <3>1. FileCwd(f) \in Cwd /\ "session" \in Kind /\ listed' = listed
      BY <2>3, OneParts, ConstantsAssumption DEF FileCwd, File, Kind, marks
    <3> QED BY <2>1, <2>3, <3>1, StartOne
  <2> QED BY <1>8, <2>2, <2>3 DEF SwitchSession
<1>9. ASSUME NEW c \in Conv, SwitchConversation(s, c) PROVE OneInv'
  <2>1. /\ c \in convs /\ SwitchTo(c) /\ task[s].op = "idle" /\ task' = task
        /\ home' = home /\ convSeq' = convSeq /\ reset' = reset
    BY <1>9 DEF SwitchConversation, Accepts, Free, records, resets
  <2>2. ReachedOne' /\ CapHeld' /\ ResetsOver' /\ home'[activeId'] = cwd'
    BY <2>1, SwitchOne
  <2>3. TaskOne(task[s])'
    BY <2>1, <2>2 DEF TaskOne, BootFresh, BootPlaced, Follows, TargetOver
  <2> QED BY <2>2, <2>3, OneIs
<1>10. ASSUME NEW c \in Conv, Dismiss(s, c) PROVE OneInv'
  <2>1. task[s].op = "idle" /\ reset' = reset /\ Vacate(s, c) /\ run[c] = "idle"
    BY <1>10 DEF Dismiss, Accepts, Free, resets
  <2>2. Over(c)
    BY <2>1 DEF Over
  <2> QED BY <2>1, <2>2, VacateOne
<1>11. ASSUME NEW c \in Conv, ForceDismiss(s, c) PROVE OneInv'
  <2>1. task[s].op = "idle" /\ reset' = reset /\ c \in convs
    BY <1>11 DEF ForceDismiss, Accepts, Free, resets
  <2>2. CASE run[c] = "idle" /\ Vacate(s, c)
    <3>1. Over(c)
      BY <2>2 DEF Over
    <3> QED BY <2>1, <2>2, <3>1, VacateOne
  <2>3. CASE /\ task' = [task EXCEPT ![s] =
                           [Idle EXCEPT !.op = "abort", !.conv = c, !.target = c]]
             /\ UNCHANGED <<table, marks, records, sessions, booting>>
    <3>1. UNCHANGED <<convs, activeId, cwd, listed, convSeq, home, run, live, reset>>
      BY <2>1, <2>3 DEF table, marks, records, sessions
    <3>2. ResetsOver' /\ c \in 1 .. convSeq
      BY <2>1, <3>1, OneParts DEF ResetsOver
    <3> QED BY <1>2, <2>1, <2>3, <3>1, <3>2
  <2> QED BY <1>11, <2>2, <2>3 DEF ForceDismiss
<1>12. ASSUME NEW c \in Conv, Watchdog(s, c) PROVE OneInv'
  <2>1. /\ UNCHANGED <<convs, activeId, cwd, listed, convSeq, home, live, reset>>
        /\ task[s].op = "idle" /\ run[c] = "hungTool" /\ run' = [run EXCEPT ![c] = "hung"]
        /\ task' = [task EXCEPT ![s] = [Idle EXCEPT !.op = "abort", !.conv = c]]
    BY <1>12 DEF Watchdog, Free, table, marks, records, resets
  <2>2. run[c] # "idle" /\ run'[c] # "idle" /\ \A d \in Conv : d # c => run'[d] = run[d]
    BY <2>1, OneParts
  <2>3. ResetsOver' /\ c \in 1 .. convSeq
    BY <2>1, <2>2, OneParts DEF ResetsOver
  <2> QED BY <1>4, <2>1, <2>3
<1> QED
  BY <1>3, <1>5, <1>6, <1>7, <1>8, <1>9, <1>10, <1>11, <1>12 DEF Command

(* A client starts with one conversation, in its workspace.                 *)
LEMMA InitOne == ASSUME Init, IInv PROVE OneInv
<1>1. /\ convs = {1} /\ activeId = 1 /\ cwd = StartCwd /\ task = [s \in Slot |-> Idle]
      /\ home = [c \in Conv |-> StartCwd] /\ run = [c \in Conv |-> "idle"]
      /\ reset = [c \in Conv |-> "no"] /\ 1 \in Conv
  BY ConstantsAssumption DEF Init, Conv
<1>2. ReachedOne /\ ResetsOver
  BY <1>1 DEF ReachedOne, ResetsOver
<1>3. CapHeld
  <2> SUFFICES ASSUME NEW w \in Cwd PROVE Cardinality(OpenIn(w)) <= MaxOpen
    BY DEF CapHeld
  <2>1. OpenIn(w) = {} \/ OpenIn(w) = {1}
    BY <1>1 DEF OpenIn
  <2>2. Cardinality(OpenIn(w)) \in {0, 1}
    BY <2>1, FS_EmptySet, FS_Singleton
  <2> QED BY <2>2, ConstantsAssumption
<1>4. ASSUME NEW s \in Slot PROVE TaskOne(task[s])
  <2>1. task[s] = Idle
    BY <1>1
  <2>2. home[activeId] = cwd
    BY <1>1
  <2> QED BY <2>1, <2>2 DEF TaskOne, BootFresh, BootPlaced, Follows, TargetOver, Idle
<1> QED BY <1>2, <1>3, <1>4 DEF OneInv

(* No step breaks the invariant while commands do not overlap.              *)
LEMMA NextOne ==
  ASSUME OneAtATime, IInv, OneInv, [Next]_vars PROVE OneInv'
<1> PICK s : Slot = {s}
  BY DEF OneAtATime
<1>1. CASE ToggleQuiesce \/ UNCHANGED vars
  <2>1. /\ UNCHANGED <<convs, activeId, cwd, listed, convSeq, home>>
        /\ run' = run /\ term' = term /\ live' = live /\ reset' = reset /\ task' = task
    BY <1>1 DEF ToggleQuiesce, vars, table, marks, records, resets, sessions
  <2>2. ResetsOver' /\ \A d \in Conv : Over(d) => Over(d)'
    BY <2>1, OneParts DEF ResetsOver, Over
  <2> QED BY <2>1, <2>2, BesideOne
<1>2. CASE \E c \in Conv : ResetStep(c) \/ Rebound(c)
  BY <1>2, ResetOne
<1>3. CASE \E c \in Conv : Agent(c)
  BY <1>3, AgentOne
<1>4. CASE Command(s) \/ \E c \in Conv : Watchdog(s, c)
  BY <1>4, CommandOne
<1>5. CASE Continue(s)
  BY <1>5, ContinueOne
<1> QED BY <1>1, <1>2, <1>3, <1>4, <1>5 DEF Next

(* The invariant of a client whose commands do not overlap.                 *)
LEMMA InvariantOne == ASSUME OneAtATime PROVE Spec => [](IInv /\ OneInv)
<1> HIDE DEF IInv, OneInv
<1>1. Init => IInv /\ OneInv
  BY InitIInv, InitOne
<1>2. IInv /\ OneInv /\ [Next]_vars => (IInv /\ OneInv)'
  BY NextIInv, NextOne
<1> QED BY <1>1, <1>2, PTL DEF Spec

(* Of a client whose commands do not overlap: every open conversation is    *)
(* the active one or in the running list, or is being removed by the handler*)
(* in flight, through any sequence of new chats, switches, openings,        *)
(* dismissals, interruptions and failures (displaceActive, removeConversation,*)
(* vacateActive).                                                           *)
THEOREM ChatsAreReachable == ASSUME OneAtATime PROVE Spec => []Reachable
<1>1. OneInv => Reachable
  BY DEF OneInv, ReachedOne, Reachable
<1> QED BY <1>1, InvariantOne, PTL

(* Of a client whose commands do not overlap: no project exceeds            *)
(* MAX_OPEN_CONVERSATIONS, although a boot checks the cap before its await  *)
(* and adds its conversation after it (newChat, switchSession).             *)
THEOREM TheCapHolds == ASSUME OneAtATime PROVE Spec => []CapHeld
<1>1. OneInv => CapHeld
  BY DEF OneInv
<1> QED BY <1>1, InvariantOne, PTL

(* Of a client whose commands do not overlap: with no handler in flight the *)
(* workspace is that of the active conversation, whatever failed on the way *)
(* (setCwd, newChatInWorkspace, switchConversation, switchSession).         *)
THEOREM TheWorkspaceFollows == ASSUME OneAtATime PROVE Spec => []WorkspaceFollows
<1>1. OneInv => WorkspaceFollows
  BY DEF OneInv, TaskOne, Follows, WorkspaceFollows, OneAtATime, Free
<1> QED BY <1>1, InvariantOne, PTL

-----------------------------------------------------------------------------
(* A switch closes at most a conversation that is not retained.             *)
LEMMA SwitchKeeps ==
  ASSUME IInv, NEW d, SwitchTo(d), NEW c \in convs \ convs'
  PROVE  run[c] = "idle" /\ term[c] # "live"
<1>1. c = Displaced
  BY DEF SwitchTo, Removable
<1>2. c # None
  BY ConstantsAssumption DEF IInv, TypeOK, Conv, None
<1> QED BY <1>1, <1>2 DEF Displaced, IsRetained

(* So does a new chat.                                                      *)
LEMMA StartKeeps ==
  ASSUME IInv, NEW s, NEW target, NewChatAdmitted(s, target) \/ NewChatCore(s, target),
         NEW c \in convs \ convs'
  PROVE  run[c] = "idle" /\ term[c] # "live"
  BY SwitchKeeps DEF NewChatAdmitted, NewChatCore, table

(* A dismissal closes its target, and what a switch may close.              *)
LEMMA VacateKeeps ==
  ASSUME IInv, NEW s, NEW d, Vacate(s, d), NEW c \in convs \ convs', c # d
  PROVE  run[c] = "idle" /\ term[c] # "live"
<1>1. CASE convs' = convs \ {d}
  BY <1>1
<1>2. CASE \E o \in convs : SwitchTo(o)
  BY <1>2, SwitchKeeps
<1>3. CASE NewChatAdmitted(s, d)
  BY <1>3, StartKeeps
<1> QED BY <1>1, <1>2, <1>3 DEF Vacate

(* What a handler closes after its awaits is idle still, or being reset.    *)
LEMMA ContinueKeeps ==
  ASSUME IInv, OneInv, NEW s, Slot = {s}, Continue(s), NEW c \in convs \ convs'
  PROVE  Over(c) /\ (term[c] = "live" => task[s].target = c)
<1> DEFINE t == task[s]
<1>1. CASE ResolveNew(s) \/ Resolve(s) \/ ThenNewChat(s)
  <2>1. run[c] = "idle" /\ term[c] # "live"
    <3>1. CASE convs' = convs
      BY <3>1
    <3>2. CASE \E d : SwitchTo(d)
      BY <3>2, SwitchKeeps
    <3>3. CASE NewChatCore(s, None)
      BY <3>3, StartKeeps
    <3> QED BY <1>1, <3>1, <3>2, <3>3 DEF ResolveNew, Resolve, ThenNewChat, table
  <2> QED BY <2>1 DEF Over
<1>2. CASE Booted(s)
  <2>1. c = t.gone /\ t.op = "boot" /\ t.kind # "session"
    BY <1>2 DEF Booted, Removable
  <2>2. c # None
    BY OneParts
  <2>3. run[t.gone] = "idle" /\ term[t.gone] # "live"
    BY <2>1, <2>2, OneParts DEF BootPlaced
  <2> QED BY <2>1, <2>3 DEF Over
<1>3. CASE SessionBooted(s)
  <2>1. c = Displaced
    BY <1>3 DEF SessionBooted, Removable, table
  <2>2. c # None
    BY OneParts
  <2> QED BY <2>1, <2>2 DEF Displaced, IsRetained, Over
<1>4. CASE ForceVacate(s)
  <2>1. PICK d : d = t.target
    OBVIOUS
  <2>2. t.op = "vacate" /\ Vacate(s, d) /\ d # None
    BY <1>4, <2>1, OneParts DEF ForceVacate, IInv, TasksOK
  <2>3. CASE c = d
    BY <2>1, <2>2, <2>3, OneParts DEF TargetOver
  <2>4. CASE c # d
    BY <2>2, <2>4, VacateKeeps DEF Over
  <2> QED BY <2>3, <2>4
<1>5. CASE DropTarget(s)
  <2>1. t.op = "drop" /\ c = t.target
    BY <1>5 DEF DropTarget, Removable
  <2>2. c # None
    BY OneParts
  <2> QED BY <2>1, <2>2, OneParts DEF TargetOver
<1>6. CASE \/ ResolveFails(s) \/ BootFails(s) \/ Bound(s) \/ Deliver(s) \/ DeliverFails(s)
           \/ Prompted(s) \/ AbortStops(s) \/ AbortReturns(s) \/ HardAbort(s) \/ Settled(s)
  <2>1. convs' = convs
    BY <1>6 DEF ResolveFails, BootFails, Bound, Deliver, DeliverFails, Prompted, AbortStops,
                AbortReturns, HardAbort, Settled, table
  <2> QED BY <2>1
<1> QED BY <1>1, <1>2, <1>3, <1>4, <1>5, <1>6 DEF Continue

(* What a handler closes at once.                                           *)
LEMMA CommandKeeps ==
  ASSUME IInv, NEW s, Slot = {s}, Command(s), NEW c \in convs \ convs'
  PROVE  run[c] = "idle" /\ (term[c] = "live" => ForceDismiss(s, c))
<1>1. CASE NewChat(s)
  BY <1>1, StartKeeps DEF NewChat
<1>2. CASE \/ Prompt(s) \/ Stop(s) \/ OpenTerminal(s)
           \/ \E w \in Cwd : NewChatIn(s, w) \/ SetCwd(s, w)
  BY <1>2 DEF Prompt, Stop, OpenTerminal, NewChatIn, SetCwd, table
<1>3. CASE \/ \E f \in File : SwitchSession(s, f)
           \/ \E d \in Conv : SwitchConversation(s, d)
  <2>1. convs' = convs \/ \E d : SwitchTo(d)
    BY <1>3 DEF SwitchSession, SwitchConversation, table
  <2> QED BY <2>1, SwitchKeeps
<1>4. ASSUME NEW d \in Conv, Dismiss(s, d) PROVE run[c] = "idle" /\ term[c] # "live"
  BY <1>4, VacateKeeps DEF Dismiss
<1>5. ASSUME NEW d \in Conv, ForceDismiss(s, d)
      PROVE  run[c] = "idle" /\ (term[c] = "live" => ForceDismiss(s, c))
  <2>1. run[d] = "idle" /\ Vacate(s, d)
    BY <1>5 DEF ForceDismiss, table
  <2>2. CASE c = d
    BY <1>5, <2>1, <2>2
  <2>3. CASE c # d
    BY <2>1, <2>3, VacateKeeps
  <2> QED BY <2>2, <2>3
<1> QED BY <1>1, <1>2, <1>3, <1>4, <1>5 DEF Command

(* Of a client whose commands do not overlap: no step closes a conversation *)
(* with a run, unless the run is being reset by force, or with a live       *)
(* terminal, unless the conversation is being dismissed (isRetained,        *)
(* removeConversation).                                                     *)
THEOREM BackgroundIsKept == ASSUME OneAtATime PROVE Spec => BackgroundKept
<1> DEFINE Kept == \A c \in convs \ convs' :
                     /\ run[c] = "idle" \/ reset[c] # "no"
                     /\ term[c] = "live" => \E s \in Slot : \/ task[s].target = c
                                                            \/ ForceDismiss(s, c)
<1>1. ASSUME IInv, OneInv, Next PROVE Kept
  <2> PICK s : Slot = {s}
    BY DEF OneAtATime
  <2> SUFFICES ASSUME NEW c \in convs \ convs'
               PROVE  /\ Over(c)
                      /\ term[c] = "live" => task[s].target = c \/ ForceDismiss(s, c)
    BY DEF Over
  <2>1. CASE Command(s)
    BY <1>1, <2>1, CommandKeeps DEF Over
  <2>2. CASE Continue(s)
    BY <1>1, <2>2, ContinueKeeps
  <2>3. CASE \/ ToggleQuiesce
             \/ \E d \in Conv : Watchdog(s, d) \/ ResetStep(d) \/ Rebound(d) \/ Agent(d)
    <3>1. convs' = convs
      BY <2>3 DEF ToggleQuiesce, Watchdog, ResetStep, Rebound, Agent, ResetDisposed,
                  ResetBooted, ResetFails, RunEnds, ModelHangs, ToolHangs, Save,
                  TerminalExits, table
    <3> QED BY <3>1
  <2> QED BY <1>1, <2>1, <2>2, <2>3 DEF Next
<1>2. (IInv /\ OneInv) /\ [Next]_vars => [Kept]_vars
  BY <1>1
<1> HIDE DEF IInv, OneInv
<1> QED BY <1>2, InvariantOne, PTL DEF Spec, BackgroundKept

(* What the invariants say, one by one.                                     *)
LEMMA WriterParts ==
  ASSUME IInv, WriterInv, NEW s \in Slot
  PROVE  /\ activeId \in convs /\ convs \subseteq 1 .. convSeq /\ 1 .. convSeq \subseteq Conv
         /\ convSeq \in Conv /\ Conv \subseteq Nat /\ None \notin Conv
         /\ home \in [Conv -> Cwd] /\ file \in [Conv -> File] /\ run \in [Conv -> RunState]
         /\ recent \in [Cwd -> File \cup {None}] /\ saved \in SUBSET File
         /\ reset \in [Conv -> {"no", "dispose", "boot"}]
         /\ task \in [Slot -> Task] /\ task[s] \in Task
         /\ FilesApart /\ NoResets /\ TaskApart(task[s])
<1>1. convSeq \in Conv /\ Conv \subseteq Nat /\ None \notin Conv
  BY ConstantsAssumption DEF IInv, TypeOK, Conv, None
<1>2. 1 .. convSeq \subseteq Conv
  BY <1>1, ConstantsAssumption DEF Conv
<1> QED BY <1>1, <1>2 DEF IInv, TypeOK, WriterInv

(* Steps that open nothing and leave the files alone.                       *)
LEMMA WriterKept ==
  ASSUME IInv, WriterInv, NEW s, Slot = {s},
         UNCHANGED <<convSeq, home, file, saved, recent, reset>>,
         convs' \subseteq convs, live' \subseteq convs',
         \A c \in Conv : run'[c] \in {"idle", "busy"} /\ (run'[c] # "idle" => c \in live'),
         task'[s].op \notin {"abort", "settle", "vacate"},
         task'[s].op = "boot" => task[s].op = "boot" /\ task'[s].conv = task[s].conv
  PROVE  WriterInv'
<1>1. \A f : FileCwd(f)' = FileCwd(f)
  BY DEF FileCwd
<1>2. FilesApart'
  BY <1>1, WriterParts DEF FilesApart, Known, FileCwd
<1>3. NoResets'
  BY WriterParts DEF NoResets
<1>4. TaskApart(task[s])'
  <2>1. CASE task'[s].op = "boot"
    <3>1. PICK n : n = task[s].conv
      OBVIOUS
    <3>2. task'[s].conv = n /\ task[s].op = "boot"
      BY <2>1, <3>1
    <3>3. /\ Known(file[n]) /\ FileCwd(file[n]) = home[n]
          /\ \A c \in convs : file[c] # file[n]
      BY <3>1, <3>2, WriterParts DEF TaskApart
    <3> QED BY <2>1, <3>2, <3>3 DEF TaskApart, Known, FileCwd
  <2>2. CASE task'[s].op # "boot"
    BY <2>2 DEF TaskApart
  <2> QED BY <2>1, <2>2
<1> QED BY <1>2, <1>3, <1>4 DEF WriterInv

(* Closing conversations ends their runs and frees their runtimes.          *)
LEMMA WriterClose ==
  ASSUME IInv, WriterInv, NEW s, Slot = {s}, NEW gone, NEW l, NEW m,
         Close(gone, {}, l, m), convs' = convs \ gone,
         UNCHANGED <<convSeq, home, file, saved, recent, reset>>,
         task'[s].op \notin {"abort", "settle", "vacate", "boot"}
  PROVE  WriterInv'
<1>1. live' = live \ gone /\ \A c \in Conv : run'[c] = IF c \in gone THEN "idle" ELSE run[c]
  BY DEF Close
<1>2. live' \subseteq convs'
  BY <1>1, WriterParts DEF NoResets
<1>3. \A c \in Conv : run'[c] \in {"idle", "busy"} /\ (run'[c] # "idle" => c \in live')
  BY <1>1, WriterParts DEF NoResets
<1> QED BY <1>2, <1>3, WriterKept

(* A switch opens nothing.                                                  *)
LEMMA WriterSwitch ==
  ASSUME IInv, WriterInv, NEW s, Slot = {s}, NEW c, SwitchTo(c),
         UNCHANGED <<convSeq, home, file, saved, recent, reset>>,
         task'[s].op \notin {"abort", "settle", "vacate", "boot"}
  PROVE  WriterInv'
  BY WriterClose DEF SwitchTo

(* A step of the handler that touches no conversation.                      *)
LEMMA WriterQuiet ==
  ASSUME IInv, WriterInv, NEW s, Slot = {s},
         UNCHANGED <<convs, run, live, convSeq, home, file, saved, recent, reset>>,
         task'[s].op \notin {"abort", "settle", "vacate", "boot"}
  PROVE  WriterInv'
<1>1. /\ live' \subseteq convs'
      /\ \A c \in Conv : run'[c] \in {"idle", "busy"} /\ (run'[c] # "idle" => c \in live')
  BY WriterParts DEF NoResets
<1> QED BY <1>1, WriterKept

(* A handler that ends, or goes on to remove its target, opens nothing.     *)
LEMMA ThenQuiet ==
  ASSUME IInv, NEW s, Slot = {s}, NEW target, Then(s, target)
  PROVE  task'[s].op \in {"idle", "drop"}
<1>1. task'[s] = IF target = None THEN Idle ELSE [Idle EXCEPT !.op = "drop", !.target = target]
  BY DEF Then, IInv, TypeOK
<1> QED BY <1>1 DEF Idle

(* A boot opens a file that nobody has open: a new one, or a known one of   *)
(* its project.                                                             *)
LEMMA WriterStart ==
  ASSUME IInv, WriterInv, NEW s, Slot = {s}, NEW kind, NEW w \in Cwd, NEW f,
         NEW gone, NEW up, NEW target, NEW flag,
         StartBoot(s, kind, w, f, gone, up, target, flag),
         UNCHANGED <<convs, run, live, saved, recent, reset>>,
         f # NextId => /\ Known(f) /\ FileCwd(f) = w
                       /\ \A c \in convs : file[c] # f
  PROVE  WriterInv'
<1>1. CASE convSeq = MaxConvs
  <2>1. Then(s, target) /\ UNCHANGED <<convSeq, home, file>>
    <3>1. ~(convSeq < MaxConvs)
      BY <1>1, ConstantsAssumption
    <3> QED BY <3>1 DEF StartBoot, records
  <2> QED BY <2>1, ThenQuiet, WriterQuiet
<1>2. CASE convSeq # MaxConvs
  <2> DEFINE t == [op |-> "boot", kind |-> kind, conv |-> NextId, gone |-> gone,
                   up |-> up, target |-> target, dir |-> w, flag |-> flag]
  <2>1. /\ convSeq' = NextId /\ home' = [home EXCEPT ![NextId] = w]
        /\ file' = [file EXCEPT ![NextId] = f]
        /\ task' = [task EXCEPT ![s] = t]
    BY <1>2 DEF StartBoot
  <2>2. PICK n : n = NextId
    OBVIOUS
  <2>3. task'[s].op = "boot" /\ task'[s].conv = n
    BY <2>1, <2>2, WriterParts
  <2> HIDE DEF t
  <2>4. /\ n \in Conv /\ n \notin 1 .. convSeq /\ convSeq' = n
        /\ 1 .. convSeq \subseteq 1 .. n /\ n \in 1 .. n
    BY <1>2, <2>1, <2>2, WriterParts, ConstantsAssumption DEF NextId, Conv
  <2>5. /\ home'[n] = w /\ \A c \in Conv : c # n => home'[c] = home[c]
        /\ file'[n] = f /\ \A c \in Conv : c # n => file'[c] = file[c]
    BY <2>1, <2>2, <2>4, WriterParts
  <2>6. \A g : Known(g) => Known(g)' /\ FileCwd(g)' = FileCwd(g) /\ g # n
    <3> SUFFICES ASSUME NEW g, Known(g)
                 PROVE  Known(g)' /\ FileCwd(g)' = FileCwd(g) /\ g # n
      OBVIOUS
    <3>1. n \in Nat /\ n \notin History
      BY <2>4, WriterParts, ConstantsAssumption
    <3>2. g # n /\ Known(g)'
      BY <2>4, <3>1 DEF Known
    <3>3. g \in History \/ g \in Conv
      BY WriterParts DEF Known
    <3>4. FileCwd(g)' = FileCwd(g)
      BY <2>5, <3>2, <3>3 DEF FileCwd
    <3> QED BY <3>2, <3>4
  <2>7. Known(f)' /\ FileCwd(f)' = w
    <3>1. CASE f = n
      <4>1. f \notin History
        BY <2>4, <3>1, WriterParts, ConstantsAssumption
      <4>2. Known(f)'
        BY <2>4, <3>1 DEF Known
      <4> QED BY <2>5, <3>1, <4>1, <4>2 DEF FileCwd
    <3>2. CASE f # n
      BY <2>2, <2>6, <3>2
    <3> QED BY <3>1, <3>2
  <2>8. \A c \in convs : c \in Conv /\ c # n /\ file[c] # f
    <3>1. \A c \in convs : c \in Conv /\ c # n
      BY <2>4, WriterParts
    <3>2. \A c \in convs : Known(file[c])
      BY WriterParts DEF FilesApart
    <3>3. CASE f = n
      BY <2>6, <3>1, <3>2, <3>3
    <3>4. CASE f # n
      BY <2>2, <3>1, <3>4
    <3> QED BY <3>3, <3>4
  <2>9. \A c \in convs : file'[c] = file[c] /\ home'[c] = home[c]
    BY <2>5, <2>8
  <2>10. FilesApart'
    <3>1. \A c, d \in convs' : file'[c] = file'[d] => c = d
      BY <2>9, WriterParts DEF FilesApart
    <3>2. \A c \in convs' : Known(file[c])' /\ FileCwd(file[c])' = home'[c]
      <4> SUFFICES ASSUME NEW c \in convs PROVE Known(file[c])' /\ FileCwd(file[c])' = home'[c]
        OBVIOUS
      <4>1. PICK g : g = file[c]
        OBVIOUS
      <4>2. Known(g) /\ FileCwd(g) = home[c]
        BY <4>1, WriterParts DEF FilesApart
      <4>3. Known(g)' /\ FileCwd(g)' = home[c]
        BY <2>6, <4>2
      <4>4. file'[c] = g /\ home'[c] = home[c]
        BY <2>9, <4>1
      <4> QED BY <4>3, <4>4 DEF Known, FileCwd
    <3>3. ASSUME NEW x \in Cwd, recent'[x] # None
          PROVE  Known(recent[x])' /\ FileCwd(recent[x])' = x
      <4>1. PICK g : g = recent[x]
        OBVIOUS
      <4>2. Known(g) /\ FileCwd(g) = x
        BY <3>3, <4>1, WriterParts DEF FilesApart
      <4>3. Known(g)' /\ FileCwd(g)' = x
        BY <2>6, <4>2
      <4>4. recent'[x] = g
        BY <4>1
      <4> QED BY <4>3, <4>4 DEF Known, FileCwd
    <3>4. \A g \in saved' : Known(g)'
      BY <2>6, WriterParts DEF FilesApart
    <3> QED BY <3>1, <3>2, <3>3, <3>4 DEF FilesApart
  <2>11. NoResets'
    BY WriterParts DEF NoResets
  <2>12. TaskApart(task[s])'
    <3>1. \A c \in convs' : file'[c] # file'[n]
      BY <2>5, <2>8, <2>9
    <3>2. Known(file[n])' /\ FileCwd(file[n])' = home'[n]
      BY <2>5, <2>7 DEF Known, FileCwd
    <3> QED BY <2>3, <3>1, <3>2 DEF TaskApart, Known, FileCwd
  <2> QED BY <2>10, <2>11, <2>12 DEF WriterInv
<1> QED BY <1>1, <1>2

(* A runtime that was booted opens the file it was booted for.              *)
LEMMA WriterOpens ==
  ASSUME IInv, WriterInv, NEW s, Slot = {s}, task[s].op = "boot", NEW gone, NEW l, NEW m,
         Close(gone, {task[s].conv}, l, m), convs' = (convs \cup {task[s].conv}) \ gone,
         UNCHANGED <<convSeq, home, file, saved, recent, reset>>, task'[s].op = "bind"
  PROVE  WriterInv'
<1>1. PICK n : n = task[s].conv
  OBVIOUS
<1>2. n \in Conv
  BY <1>1, ActsOn
<1>3. /\ Known(file[n]) /\ FileCwd(file[n]) = home[n]
      /\ \A c \in convs : file[c] # file[n]
  BY <1>1, WriterParts DEF TaskApart
<1>4. /\ convs' = (convs \cup {n}) \ gone /\ live' = (live \cup {n}) \ gone
      /\ \A c \in Conv : run'[c] = IF c \in gone THEN "idle" ELSE run[c]
  BY <1>1 DEF Close
<1>5. FilesApart'
  <2>1. \A c, d \in convs' : file'[c] = file'[d] => c = d
    BY <1>3, <1>4, WriterParts DEF FilesApart
  <2>2. \A c \in convs' : Known(file[c]) /\ FileCwd(file[c]) = home[c]
    BY <1>3, <1>4, WriterParts DEF FilesApart
  <2>3. /\ \A x \in Cwd : recent[x] # None => Known(recent[x]) /\ FileCwd(recent[x]) = x
        /\ \A g \in saved : Known(g)
    BY WriterParts DEF FilesApart
  <2> QED BY <2>1, <2>2, <2>3 DEF FilesApart, Known, FileCwd
<1>6. NoResets'
  BY <1>4, WriterParts DEF NoResets
<1>7. TaskApart(task[s])'
  BY DEF TaskApart
<1> QED BY <1>5, <1>6, <1>7 DEF WriterInv

(* A new chat has a file of its own.                                        *)
LEMMA WriterNewChatCore ==
  ASSUME IInv, WriterInv, NEW s, Slot = {s}, NEW target, NewChatCore(s, target), cwd \in Cwd,
         UNCHANGED <<saved, recent, reset>>
  PROVE  WriterInv'
<1>1. CASE Then(s, target) /\ UNCHANGED <<table, marks, records, sessions, booting>>
  <2>1. UNCHANGED <<convs, run, live, convSeq, home, file>>
    BY <1>1 DEF table, records, sessions
  <2> QED BY <1>1, <2>1, ThenQuiet, WriterQuiet
<1>2. CASE (\E c : SwitchTo(c)) /\ Then(s, target) /\ UNCHANGED <<records, booting>>
  <2>1. UNCHANGED <<convSeq, home, file>>
    BY <1>2 DEF records
  <2> QED BY <1>2, <2>1, ThenQuiet, WriterSwitch
<1>3. CASE /\ StartBoot(s, "newChat", cwd, NextId, Displaced, None, target, FALSE)
           /\ UNCHANGED <<table, prompted, sessions>>
  <2>1. UNCHANGED <<convs, run, live>>
    BY <1>3 DEF table, sessions
  <2> QED BY <1>3, <2>1, WriterStart
<1> QED BY <1>1, <1>2, <1>3 DEF NewChatCore

(* The same on a server that may be draining.                               *)
LEMMA WriterNewChat ==
  ASSUME IInv, WriterInv, NEW s, Slot = {s}, NEW target, NewChatAdmitted(s, target),
         cwd \in Cwd, UNCHANGED <<saved, recent, reset>>
  PROVE  WriterInv'
<1>1. CASE Then(s, target) /\ UNCHANGED <<table, marks, records, sessions, booting>>
  <2>1. UNCHANGED <<convs, run, live, convSeq, home, file>>
    BY <1>1 DEF table, records, sessions
  <2> QED BY <1>1, <2>1, ThenQuiet, WriterQuiet
<1> QED BY <1>1, WriterNewChatCore DEF NewChatAdmitted

(* A dismissal closes its target or starts a new chat.                      *)
LEMMA WriterVacate ==
  ASSUME IInv, WriterInv, NEW s, Slot = {s}, NEW c, Vacate(s, c), cwd \in Cwd,
         UNCHANGED <<saved, recent, reset>>
  PROVE  WriterInv'
<1>1. CASE /\ convs' = convs \ {c} /\ Close({c} \cap convs, {}, listed, prompted)
           /\ task' = [task EXCEPT ![s] = Idle]
           /\ UNCHANGED <<activeId, cwd, records, booting>>
  <2>1. UNCHANGED <<convSeq, home, file>> /\ convs' = convs \ ({c} \cap convs)
    BY <1>1 DEF records
  <2>2. task'[s].op = "idle"
    BY <1>1, WriterParts DEF Idle
  <2> QED BY <1>1, <2>1, <2>2, WriterClose
<1>2. CASE (\E o : SwitchTo(o)) /\ Then(s, c) /\ UNCHANGED <<records, booting>>
  <2>1. UNCHANGED <<convSeq, home, file>>
    BY <1>2 DEF records
  <2> QED BY <1>2, <2>1, ThenQuiet, WriterSwitch
<1> QED BY <1>1, <1>2, WriterNewChat DEF Vacate

(* set_cwd opens a transcript only of a project without open conversations, *)
(* so that nobody has it open.                                              *)
LEMMA WriterResolve ==
  ASSUME IInv, WriterInv, NEW s, Slot = {s}, Resolve(s)
  PROVE  WriterInv'
<1> DEFINE t == task[s]
           w == t.dir
           next == IF t.flag THEN [t EXCEPT !.op = "thenNew"] ELSE Idle
<1>1. UNCHANGED <<saved, recent, reset>> /\ w \in Cwd
  BY WriterParts DEF Resolve, storage, resets, Task
<1>2. ASSUME task' = [task EXCEPT ![s] = next] PROVE task'[s].op \in {"thenNew", "idle"}
  BY <1>2, WriterParts DEF Task, Idle
<1>3. CASE /\ task' = [task EXCEPT ![s] = next]
           /\ UNCHANGED <<table, marks, records, sessions, booting>>
  <2>1. UNCHANGED <<convs, run, live, convSeq, home, file>>
    BY <1>3 DEF table, records, sessions
  <2> QED BY <1>1, <1>2, <1>3, <2>1, WriterQuiet
<1>4. CASE /\ \E c \in OpenIn(w) : SwitchTo(c)
           /\ task' = [task EXCEPT ![s] = next]
           /\ UNCHANGED <<records, booting>>
  <2>1. UNCHANGED <<convSeq, home, file>>
    BY <1>4 DEF records
  <2> QED BY <1>1, <1>2, <1>4, <2>1, WriterSwitch
<1>5. CASE /\ OpenIn(w) = {} /\ UNCHANGED <<table, prompted, sessions>>
           /\ StartBoot(s, "cwd", w, ContinueRecent(w, NextId), Displaced, None, None, t.flag)
  <2>1. PICK f : f = ContinueRecent(w, NextId)
    OBVIOUS
  <2>2. ASSUME f # NextId
        PROVE  Known(f) /\ FileCwd(f) = w /\ \A c \in convs : file[c] # f
    <3>1. f = recent[w] /\ recent[w] # None
      BY <2>1, <2>2 DEF ContinueRecent
    <3>2. Known(f) /\ FileCwd(f) = w
      BY <1>1, <3>1, WriterParts DEF FilesApart
    <3>3. \A c \in convs : FileCwd(file[c]) = home[c] /\ home[c] # w
      BY <1>5, WriterParts DEF FilesApart, OpenIn
    <3> QED BY <3>2, <3>3
  <2>3. UNCHANGED <<convs, run, live>>
    BY <1>5 DEF table, sessions
  <2> QED BY <1>1, <1>5, <2>1, <2>2, <2>3, WriterStart
<1> QED BY <1>3, <1>4, <1>5 DEF Resolve

(* Every continuation of the handler keeps files apart.                     *)
LEMMA WriterContinue ==
  ASSUME IInv, WriterInv, NEW s, Slot = {s}, Continue(s)
  PROVE  WriterInv'
<1> DEFINE t == task[s]
           w == t.dir
<1>0. cwd \in Cwd /\ w \in Cwd /\ t.op \notin {"abort", "settle", "vacate"}
  BY WriterParts DEF IInv, TypeOK, Task, TaskApart
<1>1. CASE ResolveNew(s)
  <2>1. UNCHANGED <<convs, run, live, saved, recent, reset>>
    BY <1>1 DEF ResolveNew, table, sessions, storage, resets
  <2>2. CASE StartBoot(s, "workspace", w, NextId, Displaced, NewlyListed, None, FALSE)
    BY <1>0, <2>1, <2>2, WriterStart
  <2>3. CASE /\ task' = [task EXCEPT ![s].op = "resolve", ![s].flag = TRUE]
             /\ UNCHANGED <<table, marks, records, sessions, booting>>
    <3>1. task'[s].op = "resolve" /\ UNCHANGED <<convSeq, home, file>>
      BY <2>3, WriterParts DEF Task, records
    <3> QED BY <2>1, <3>1, WriterQuiet
  <2> QED BY <1>1, <2>2, <2>3 DEF ResolveNew
<1>2. CASE Resolve(s)
  BY <1>2, WriterResolve
<1>3. CASE ResolveFails(s)
  <2>1. task'[s].op \in {"thenNew", "idle"}
    BY <1>3, WriterParts DEF ResolveFails, Task, Idle
  <2>2. UNCHANGED <<convs, run, live, convSeq, home, file, saved, recent, reset>>
    BY <1>3 DEF ResolveFails, table, records, sessions, storage, resets
  <2> QED BY <2>1, <2>2, WriterQuiet
<1>4. CASE ThenNewChat(s)
  <2>1. UNCHANGED <<saved, recent, reset>>
    BY <1>4 DEF ThenNewChat, storage, resets
  <2>2. CASE /\ task' = [task EXCEPT ![s] = Idle]
             /\ UNCHANGED <<table, marks, records, sessions, booting>>
    <3>1. task'[s].op = "idle"
      BY <2>2, WriterParts DEF Idle
    <3>2. UNCHANGED <<convs, run, live, convSeq, home, file>>
      BY <2>2 DEF table, records, sessions
    <3> QED BY <2>1, <3>1, <3>2, WriterQuiet
  <2> QED BY <1>0, <1>4, <2>1, <2>2, WriterNewChatCore DEF ThenNewChat
<1>5. CASE Booted(s)
  <2>1. UNCHANGED <<convSeq, home, file, saved, recent, reset>>
    BY <1>5 DEF Booted, records, storage, resets
  <2>2. task'[s].op = "bind"
    BY <1>5, WriterParts DEF Booted, Task
  <2> QED BY <1>5, <2>1, <2>2, WriterOpens DEF Booted
<1>6. CASE SessionBooted(s)
  <2>1. UNCHANGED <<convSeq, home, file, saved, recent, reset>> /\ t.op = "boot"
    BY <1>6 DEF SessionBooted, records, storage, resets
  <2>2. CASE task' = [task EXCEPT ![s] = Idle] /\ UNCHANGED <<table, marks, sessions>>
    <3>1. task'[s].op = "idle" /\ UNCHANGED <<convs, run, live>>
      BY <2>2, WriterParts DEF Idle, table, sessions
    <3> QED BY <2>1, <3>1, WriterQuiet
  <2>3. CASE /\ convs' = (convs \cup {t.conv}) \ Removable(Displaced, t.conv)
             /\ Close(Removable(Displaced, t.conv), {t.conv}, Promoted, prompted \cup {t.conv})
             /\ task' = [task EXCEPT ![s].op = "bind"]
    <3>1. task'[s].op = "bind"
      BY <2>3, WriterParts DEF Task
    <3> QED BY <2>1, <2>3, <3>1, WriterOpens
  <2> QED BY <1>6, <2>2, <2>3 DEF SessionBooted
<1>7. CASE BootFails(s) \/ Bound(s)
  <2>1. UNCHANGED <<convs, run, live, convSeq, home, file, saved, recent, reset>>
    BY <1>7 DEF BootFails, Bound, table, records, sessions, storage, resets
  <2>2. ASSUME NEW d, task' = [task EXCEPT ![s] = [Idle EXCEPT
                                 !.op = "thenNew", !.dir = d, !.flag = TRUE]]
        PROVE  task'[s].op = "thenNew"
    BY <2>2, WriterParts DEF Idle
  <2>3. task' = [task EXCEPT ![s] = Idle] => task'[s].op = "idle"
    BY WriterParts DEF Idle
  <2>4. Then(s, t.target) => task'[s].op \in {"idle", "drop"}
    BY ThenQuiet
  <2>5. task'[s].op \in {"thenNew", "idle", "drop"}
    BY <1>7, <2>2, <2>3, <2>4 DEF BootFails, Bound
  <2> QED BY <2>1, <2>5, WriterQuiet
<1>8. CASE DropTarget(s)
  <2>1. task'[s].op = "idle"
    BY <1>8, WriterParts DEF DropTarget, Idle
  <2>2. UNCHANGED <<convSeq, home, file, saved, recent, reset>>
    BY <1>8 DEF DropTarget, records, storage, resets
  <2> QED BY <1>8, <2>1, <2>2, WriterClose DEF DropTarget
<1>9. CASE Deliver(s)
  <2>1. /\ UNCHANGED <<convs, live, convSeq, home, file, saved, recent, reset>>
        /\ task'[s].op = "prompted"
    BY <1>9, WriterParts DEF Deliver, table, records, storage, resets, Task
  <2>2. PICK c : c = t.conv
    OBVIOUS
  <2>3. c \in Conv /\ (run' = run \/ (c \in live /\ run' = [run EXCEPT ![c] = "busy"]))
    BY <1>9, <2>2, ActsOn DEF Deliver
  <2>4. \A d \in Conv : run'[d] = run[d] \/ (d \in live /\ run'[d] = "busy")
    BY <2>3, WriterParts
  <2>5. /\ live' \subseteq convs'
        /\ \A d \in Conv : run'[d] \in {"idle", "busy"} /\ (run'[d] # "idle" => d \in live')
    BY <2>1, <2>4, WriterParts DEF NoResets
  <2> QED BY <2>1, <2>5, WriterKept
<1>10. CASE DeliverFails(s) \/ Prompted(s)
  <2>1. UNCHANGED <<convs, run, live, convSeq, home, file, saved, recent, reset>>
    BY <1>10 DEF DeliverFails, Prompted, table, records, sessions, storage, resets
  <2>2. task'[s].op \in {"prompted", "idle"}
    BY <1>10, WriterParts DEF DeliverFails, Prompted, Task, Idle
  <2> QED BY <2>1, <2>2, WriterQuiet
<1> QED
  BY <1>0, <1>1, <1>2, <1>3, <1>4, <1>5, <1>6, <1>7, <1>8, <1>9, <1>10
     DEF Continue, ForceVacate, AbortStops, AbortReturns, HardAbort, Settled

(* Every command that interrupts nothing does.                              *)
LEMMA WriterCommand ==
  ASSUME Uninterrupted, IInv, WriterInv, NEW s, Slot = {s}, Command(s)
  PROVE  WriterInv'
<1>0. cwd \in Cwd
  BY DEF IInv, TypeOK
<1>1. CASE NewChat(s)
  <2>1. UNCHANGED <<saved, recent, reset>>
    BY <1>1 DEF NewChat, storage, resets
  <2> QED BY <1>0, <1>1, <2>1, WriterNewChat DEF NewChat
<1>2. CASE Prompt(s) \/ \E w \in Cwd : NewChatIn(s, w) \/ SetCwd(s, w)
  <2>1. UNCHANGED <<convs, run, live, convSeq, home, file, saved, recent, reset>>
    BY <1>2 DEF Prompt, NewChatIn, SetCwd, table, records, sessions, storage, resets
  <2>2. task'[s].op \in {"prompt", "resolveNew", "resolve"}
    BY <1>2, WriterParts DEF Prompt, NewChatIn, SetCwd, Idle
  <2> QED BY <2>1, <2>2, WriterQuiet
<1>3. CASE OpenTerminal(s)
  <2>1. UNCHANGED <<convs, run, live, convSeq, home, file, saved, recent, reset>>
    BY <1>3 DEF OpenTerminal, table, records, storage, resets
  <2>2. task'[s].op = "idle"
    BY <1>3 DEF OpenTerminal, Accepts, Free
  <2> QED BY <2>1, <2>2, WriterQuiet
<1>4. ASSUME NEW f \in File, SwitchSession(s, f) PROVE WriterInv'
  <2>1. /\ UNCHANGED <<saved, recent, reset>> /\ task[s].op = "idle" /\ f \in saved
    BY <1>4 DEF SwitchSession, storage, resets, Accepts, Free
  <2>2. CASE \E c : SwitchTo(c) /\ UNCHANGED <<records, booting, task>>
    <3>1. task'[s].op = "idle" /\ UNCHANGED <<convSeq, home, file>>
      BY <2>1, <2>2 DEF records
    <3> QED BY <2>1, <2>2, <3>1, WriterSwitch
  <2>3. CASE /\ Holders(f) = {}
             /\ StartBoot(s, "session", FileCwd(f), f, None, None, None, FALSE)
             /\ UNCHANGED <<table, marks, sessions>>
    <3>1. FileCwd(f) \in Cwd
      BY WriterParts, ConstantsAssumption DEF FileCwd, File
    <3>2. Known(f) /\ \A c \in convs : file[c] # f
      BY <2>1, <2>3, WriterParts DEF FilesApart, Holders
    <3>3. UNCHANGED <<convs, run, live>>
      BY <2>3 DEF table, sessions
    <3> QED BY <2>1, <2>3, <3>1, <3>2, <3>3, WriterStart
  <2> QED BY <1>4, <2>2, <2>3 DEF SwitchSession
<1>5. ASSUME NEW c \in Conv, SwitchConversation(s, c) PROVE WriterInv'
  <2>1. /\ UNCHANGED <<convSeq, home, file, saved, recent, reset>> /\ task'[s].op = "idle"
        /\ SwitchTo(c)
    BY <1>5 DEF SwitchConversation, records, storage, resets, Accepts, Free
  <2> QED BY <2>1, WriterSwitch
<1>6. ASSUME NEW c \in Conv, Dismiss(s, c) PROVE WriterInv'
  <2>1. UNCHANGED <<saved, recent, reset>> /\ Vacate(s, c)
    BY <1>6 DEF Dismiss, storage, resets
  <2> QED BY <1>0, <2>1, WriterVacate
<1>7. ~Stop(s) /\ \A c \in Conv : ~ForceDismiss(s, c)
  BY DEF Stop, ForceDismiss, Accepts, Uninterrupted
<1> QED BY <1>1, <1>2, <1>3, <1>4, <1>5, <1>6, <1>7 DEF Command

(* What runs do by themselves; without interruptions none hangs, and there  *)
(* are no resets.                                                           *)
LEMMA WriterOther ==
  ASSUME Uninterrupted, IInv, WriterInv, NEW s, Slot = {s}, NEW c \in Conv,
         Agent(c) \/ ResetStep(c) \/ Rebound(c) \/ Watchdog(s, c)
  PROVE  WriterInv'
<1>0. task[s].op \notin {"abort", "settle", "vacate"} /\ reset[c] = "no"
  BY WriterParts DEF TaskApart, NoResets
<1>1. CASE RunEnds(c)
  <2>1. /\ UNCHANGED <<convs, live, convSeq, home, file, saved, recent, reset>>
        /\ run' = [run EXCEPT ![c] = "idle"] /\ task' = SeenEnd(c)
    BY <1>1 DEF RunEnds, table, records, storage, resets
  <2>2. task'[s].op = task[s].op /\ task'[s].conv = task[s].conv
    BY <2>1, SeenEndOne
  <2>3. /\ live' \subseteq convs'
        /\ \A d \in Conv : run'[d] \in {"idle", "busy"} /\ (run'[d] # "idle" => d \in live')
    BY <2>1, WriterParts DEF NoResets
  <2> QED BY <1>0, <2>1, <2>2, <2>3, WriterKept
<1>2. ~ModelHangs(c) /\ ~ToolHangs(c) /\ ~Watchdog(s, c) /\ ~ResetStep(c)
  BY <1>0, WriterParts DEF ModelHangs, ToolHangs, Watchdog, ResetStep, ResetDisposed,
     ResetBooted, ResetFails, Uninterrupted, NoResets
<1>3. CASE TerminalExits(c) \/ Rebound(c)
  <2>1. UNCHANGED <<convs, run, live, convSeq, home, file, saved, recent, reset, task>>
    BY <1>3 DEF TerminalExits, Rebound, table, records, storage, resets
  <2>2. /\ live' \subseteq convs'
        /\ \A d \in Conv : run'[d] \in {"idle", "busy"} /\ (run'[d] # "idle" => d \in live')
    BY <2>1, WriterParts DEF NoResets
  <2> QED BY <1>0, <2>1, <2>2, WriterKept
<1>4. CASE Save(c)
  <2>1. /\ UNCHANGED <<convs, run, live, convSeq, home, file, reset, task>>
        /\ saved' = saved \cup {file[c]} /\ recent' = [recent EXCEPT ![home[c]] = file[c]]
        /\ run[c] = "busy"
    BY <1>4 DEF Save, table, records, sessions, resets
  <2>2. c \in convs
    BY <2>1, WriterParts DEF NoResets
  <2>3. PICK g : g = file[c]
    OBVIOUS
  <2>4. PICK x : x = home[c]
    OBVIOUS
  <2>5. Known(g) /\ FileCwd(g) = x /\ x \in Cwd
    BY <2>2, <2>3, <2>4, WriterParts DEF FilesApart
  <2>6. \A w \in Cwd : recent'[w] = IF w = x THEN g ELSE recent[w]
    BY <2>1, <2>3, <2>4, WriterParts
  <2>7. \A w \in Cwd : recent'[w] # None => Known(recent'[w]) /\ FileCwd(recent'[w]) = w
    BY <2>5, <2>6, WriterParts DEF FilesApart
  <2>8. \A f \in saved' : Known(f)
    BY <2>1, <2>3, <2>5, WriterParts DEF FilesApart
  <2>9. FilesApart'
    BY <2>1, <2>7, <2>8, WriterParts DEF FilesApart, Known, FileCwd
  <2>10. NoResets' /\ TaskApart(task[s])'
    BY <2>1, WriterParts DEF NoResets, TaskApart, Known, FileCwd
  <2> QED BY <2>9, <2>10 DEF WriterInv
<1> QED BY <1>1, <1>2, <1>3, <1>4 DEF Agent

(* A client starts with one conversation.                                   *)
LEMMA InitWriter == ASSUME Init, IInv PROVE WriterInv
<1>1. /\ convs = {1} /\ convSeq = 1 /\ 1 \in Conv /\ live = {1} /\ saved = History
      /\ home = [c \in Conv |-> StartCwd] /\ run = [c \in Conv |-> "idle"]
      /\ reset = [c \in Conv |-> "no"] /\ task = [s \in Slot |-> Idle]
      /\ file[1] = ContinueRecent(StartCwd, 1)
  BY ConstantsAssumption DEF Init, Conv
<1>2. \A w \in Cwd : recent[w] # None => recent[w] \in History /\ HistoryCwd[recent[w]] = w
  BY DEF Init
<1>3. Known(file[1]) /\ FileCwd(file[1]) = StartCwd
  <2>1. CASE recent[StartCwd] = None
    <3>1. file[1] = 1 /\ 1 \notin History
      BY <1>1, <2>1, ConstantsAssumption DEF ContinueRecent
    <3> QED BY <1>1, <3>1 DEF Known, FileCwd
  <2>2. CASE recent[StartCwd] # None
    <3>1. file[1] = recent[StartCwd]
      BY <1>1, <2>2 DEF ContinueRecent
    <3> QED BY <1>2, <2>2, <3>1, ConstantsAssumption DEF Known, FileCwd
  <2> QED BY <2>1, <2>2
<1>4. FilesApart
  BY <1>1, <1>2, <1>3 DEF FilesApart, Known, FileCwd
<1>5. NoResets
  BY <1>1 DEF NoResets
<1>6. \A s \in Slot : TaskApart(task[s])
  BY <1>1 DEF TaskApart, Idle
<1> QED BY <1>4, <1>5, <1>6 DEF WriterInv

(* No step brings two conversations to one file.                            *)
LEMMA NextWriter ==
  ASSUME OneAtATime, Uninterrupted, IInv, WriterInv, [Next]_vars PROVE WriterInv'
<1> PICK s : Slot = {s}
  BY DEF OneAtATime
<1>1. CASE ToggleQuiesce \/ UNCHANGED vars
  <2>1. UNCHANGED <<convs, run, live, convSeq, home, file, saved, recent, reset, task>>
    BY <1>1 DEF ToggleQuiesce, vars, table, records, sessions, storage, resets
  <2>2. /\ live' \subseteq convs'
        /\ \A d \in Conv : run'[d] \in {"idle", "busy"} /\ (run'[d] # "idle" => d \in live')
    BY <2>1, WriterParts DEF NoResets
  <2>3. task[s].op \notin {"abort", "settle", "vacate"}
    BY WriterParts DEF TaskApart
  <2> QED BY <2>1, <2>2, <2>3, WriterKept
<1>2. CASE Command(s)
  BY <1>2, WriterCommand
<1>3. CASE Continue(s)
  BY <1>3, WriterContinue
<1>4. CASE \E c \in Conv : Agent(c) \/ ResetStep(c) \/ Rebound(c) \/ Watchdog(s, c)
  BY <1>4, WriterOther
<1> QED BY <1>1, <1>2, <1>3, <1>4 DEF Next

(* Of a client whose commands do not overlap and interrupt nothing: no two  *)
(* live runtimes append to the same session file, through new chats, switches*)
(* and openings of any project and transcript (switchSession looks for the  *)
(* open conversation on a file, set_cwd resumes the newest file of a project*)
(* only when the project has no open conversation).                         *)
THEOREM OneFileOneWriter == ASSUME OneAtATime, Uninterrupted PROVE Spec => []OneWriter
<1>1. Init => WriterInv
  BY InitIInv, InitWriter
<1>2. IInv /\ WriterInv /\ [Next]_vars => WriterInv'
  BY NextWriter
<1>3. WriterInv => OneWriter
  BY DEF WriterInv, FilesApart, NoResets, OneWriter
<1> HIDE DEF IInv, WriterInv
<1> QED BY <1>1, <1>2, <1>3, Invariant, PTL DEF Spec
=============================================================================
