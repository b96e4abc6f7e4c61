------------------------- MODULE SnapshotSyncProofs -------------------------
(***************************************************************************)
(* Theorems about the snapshot protocol, for any number of tabs,           *)
(* conversations, messages, clicks and dropped snapshots.                  *)
(***************************************************************************)
EXTENDS SnapshotSync, SequenceTheorems, FiniteSetTheorems, TLAPS

(* Nothing but hello reaches a server without a session, and nothing is     *)
(* under way in it.                                                         *)
NoSession ==
  used = {} =>
    /\ ~snapshotTimer
    /\ \A c \in Conv : opening[c] = "no"
    /\ \A t \in Tab :
         /\ ~retry[t] /\ down[t] = <<>>
         /\ up[t] # <<>> => Head(up[t]).type = "hello"
         /\ connected[t] => up[t] # <<>>

(* The handlers that create a conversation have taken its id.               *)
OpeningUsed == \A c \in Conv : opening[c] # "no" => c \in used

IInv == TypeOK /\ NoSession /\ OpeningUsed

(* What a message says was published: a full state, or the step from one    *)
(* published state to another.                                              *)
Carried(m, published) ==
  /\ m.type = "snapshot" => m.state \in published
  /\ m.type = "snapshot_delta" =>
       \E e \in published :
         /\ e.conv = m.conv /\ e.rev = m.base /\ ~e.booting
         /\ Snapshot(m.conv, m.rev, e.msgs \o m.appended, FALSE) \in published

(* Each revision was published once, the emitter remembers what it          *)
(* published last, and the wire carries published states only.              *)
RevsUnique ==
  /\ \A e \in log : e.rev <= snapRev
  /\ \A e, f \in log : e.rev = f.rev => e = f

EmittedPublished ==
  emitted.conv # NoConv
    => Snapshot(emitted.conv, emitted.rev, emitted.msgs, FALSE) \in log

WirePublished == \A t \in Tab : \A i \in 1..Len(down[t]) : Carried(down[t][i], log)

Published == RevsUnique /\ EmittedPublished /\ WirePublished /\ ShownWasPublished

-----------------------------------------------------------------------------
(* Facts about the data.                                                    *)

LEMMA TranscriptSeq == Transcript \subseteq Seq(Msg)
<1> SUFFICES ASSUME NEW n \in 0..MaxLen, NEW s \in [1..n -> Msg] PROVE s \in Seq(Msg)
  BY DEF Transcript
<1>1. n \in Nat BY ConstantsAssumption
<1>2. QED BY <1>1, SeqDef

LEMMA TabFinite == \A S \in SUBSET Tab : Cardinality(S) \in Nat
  BY ConstantsAssumption, FS_Subset, FS_CardinalityType

LEMMA SnapshotIs ==
  ASSUME NEW c \in Conv, NEW rev \in Nat, NEW messages \in Seq(Msg), NEW booting \in BOOLEAN
  PROVE  Snapshot(c, rev, messages, booting) \in SnapshotType
  BY DEF Snapshot, SnapshotType

LEMMA BlankIs ==
  /\ NoSnapshot = [conv |-> NoConv, rev |-> 0, msgs |-> <<>>, booting |-> FALSE]
  /\ NoSnapshot.conv = NoConv /\ NoSnapshot.msgs = <<>> /\ NoSnapshot.booting = FALSE
  /\ NoSnapshot \notin SnapshotType
  BY ConstantsAssumption DEF NoSnapshot, Snapshot, SnapshotType

(* The rest of a transcript, put after a prefix of it, gives it back.       *)
LEMMA PrefixRest ==
  ASSUME NEW s \in Seq(Msg), NEW t \in Seq(Msg), IsPrefix(s, t)
  PROVE  /\ SubSeq(t, Len(s) + 1, Len(t)) \in Seq(Msg)
         /\ s \o SubSeq(t, Len(s) + 1, Len(t)) = t
<1>1. Len(s) \in 0..Len(t) /\ SubSeq(s, 1, Len(s)) = SubSeq(t, 1, Len(s))
  BY LenProperties DEF IsPrefix
<1>2. SubSeq(s, 1, Len(s)) = s /\ SubSeq(t, 1, Len(t)) = t
  BY SubSeqFull
<1>3. SubSeq(t, 1, Len(s)) \o SubSeq(t, Len(s) + 1, Len(t)) = SubSeq(t, 1, Len(t))
  <2>1. 1 \in 1..Len(t) + 1 /\ Len(s) \in 1-1..Len(t) /\ Len(t) \in Len(s)..Len(t)
    BY <1>1, LenProperties
  <2>2. QED BY ONLY <2>1, t \in Seq(Msg), ConcatAdjacentSubSeq
<1>4. SubSeq(t, Len(s) + 1, Len(t)) \in Seq(Msg)
  <2>1. \A i \in Len(s) + 1..Len(t) : t[i] \in Msg
    BY <1>1, ElementOfSeq, LenProperties
  <2>2. Len(s) + 1 \in Int /\ Len(t) \in Int
    BY LenProperties
  <2>3. QED BY <2>1, <2>2, SubSeqProperties
<1>5. QED BY <1>1, <1>2, <1>3, <1>4

-----------------------------------------------------------------------------
(* Emission.                                                                *)

(* What a message to the tabs leaves of the right type.                     *)
Out ==
  /\ snapRev \in Nat
  /\ emitted \in [conv : Conv \cup {NoConv}, msgs : Seq(Msg), rev : Nat]
  /\ snapshotTimer \in BOOLEAN
  /\ sentFull \in [Tab -> BOOLEAN] /\ retry \in [Tab -> BOOLEAN]
  /\ down \in [Tab -> Seq(DownType)]
  /\ log \subseteq SnapshotType
  /\ drops \in Nat

LEMMA SendTypes ==
  ASSUME Out, NEW m \in DownType, NEW s \in SnapshotType, NEW sinks \in SUBSET Tab,
         NEW before \in [Tab -> Seq(DownType)], NEW armed \in SUBSET Tab,
         Send(m, s, sinks, before, armed)
  PROVE  /\ sentFull' \in [Tab -> BOOLEAN] /\ retry' \in [Tab -> BOOLEAN]
         /\ down' \in [Tab -> Seq(DownType)]
         /\ log' \subseteq SnapshotType
         /\ drops' \in Nat
<1> PICK dropped \in SUBSET {t \in sinks : sentFull[t]} :
      /\ drops' = drops + Cardinality(dropped)
      /\ down' = [t \in Tab |->
                   IF t \notin sinks THEN down[t]
                   ELSE down[t] \o before[t] \o (IF t \in dropped THEN <<>> ELSE <<m>>)]
      /\ sentFull' = [t \in Tab |->
                       \/ sentFull[t]
                       \/ t \in sinks \ dropped /\ m.type = "snapshot"]
      /\ retry' = [t \in Tab |-> t \in armed \cup dropped]
      /\ log' = log \cup {s}
  BY DEF Send
<1>1. drops' \in Nat
  <2>1. dropped \in SUBSET Tab OBVIOUS
  <2>2. Cardinality(dropped) \in Nat BY <2>1, TabFinite
  <2>3. QED BY <2>2 DEF Out
<1>2. \A t \in Tab : down'[t] \in Seq(DownType)
  <2> SUFFICES ASSUME NEW t \in Tab PROVE down'[t] \in Seq(DownType)
    OBVIOUS
  <2>1. down[t] \in Seq(DownType) /\ before[t] \in Seq(DownType) BY DEF Out
  <2>2. <<>> \in Seq(DownType) /\ <<m>> \in Seq(DownType) OBVIOUS
  <2>3. QED BY <2>1, <2>2, ConcatProperties
<1>3. QED BY <1>1, <1>2 DEF Out

LEMMA SnapshotMsgType ==
  ASSUME Out, NEW c \in Conv, NEW messages \in Seq(Msg), NEW forceFull \in BOOLEAN
  PROVE  SnapshotMsg(c, messages, forceFull) \in DownType
<1>1. CASE Incremental(c, messages, forceFull)
  <2>1. SubSeq(messages, Len(emitted.msgs) + 1, Len(messages)) \in Seq(Msg)
    BY <1>1, PrefixRest DEF Incremental, Out
  <2>2. QED BY <1>1, <2>1 DEF SnapshotMsg, DeltaMsg, DownType, Out
<1>2. CASE ~Incremental(c, messages, forceFull)
  <2>1. snapRev + 1 \in Nat BY DEF Out
  <2>2. Snapshot(c, snapRev + 1, messages, FALSE) \in SnapshotType BY <2>1, SnapshotIs
  <2>3. QED BY <1>2, <2>2 DEF SnapshotMsg, FullMsg, DownType
<1>3. QED BY <1>1, <1>2

LEMMA EmitTypes ==
  ASSUME Out, active' \in Conv, msgs' \in [Conv -> Seq(Msg)], snapshotTimer' \in BOOLEAN,
         NEW forceFull \in BOOLEAN, NEW sinks \in SUBSET Tab,
         NEW before \in [Tab -> Seq(DownType)], NEW armed \in SUBSET Tab,
         EmitSnapshotNow(forceFull, sinks, before, armed)
  PROVE  Out'
<1> DEFINE c == active'
           messages == msgs'[c]
           s == Snapshot(c, snapRev + 1, messages, FALSE)
<1>1. messages \in Seq(Msg) OBVIOUS
<1>2. /\ snapRev' = snapRev + 1
      /\ emitted' = [conv |-> c, msgs |-> messages, rev |-> snapRev + 1]
      /\ Send(SnapshotMsg(c, messages, forceFull), s, sinks, before, armed)
  BY DEF EmitSnapshotNow
<1>3. s \in SnapshotType
  <2>1. snapRev + 1 \in Nat BY DEF Out
  <2>2. QED BY <1>1, <2>1, SnapshotIs
<1>4. SnapshotMsg(c, messages, forceFull) \in DownType BY <1>1, SnapshotMsgType
<1> HIDE DEF c, messages, s
<1>5. /\ sentFull' \in [Tab -> BOOLEAN] /\ retry' \in [Tab -> BOOLEAN]
      /\ down' \in [Tab -> Seq(DownType)]
      /\ log' \subseteq SnapshotType
      /\ drops' \in Nat
  BY <1>2, <1>3, <1>4, SendTypes
<1>6. c \in Conv BY DEF c
<1>7. QED BY <1>1, <1>2, <1>5, <1>6 DEF Out

LEMMA NothingType ==
  /\ Sinks \in SUBSET Tab /\ Armed \in SUBSET Tab
  /\ Nothing \in [Tab -> Seq(DownType)] /\ Nothing \in [Tab -> Seq(UpType)]
<1>1. <<>> \in Seq(DownType) /\ <<>> \in Seq(UpType) OBVIOUS
<1>2. QED BY <1>1 DEF Sinks, Armed, Nothing

LEMMA ListType ==
  ASSUME open' \in SUBSET Conv
  PROVE  Conversations \in [Tab -> Seq(DownType)]
<1>1. ListMsg(open') \in DownType BY DEF ListMsg, DownType
<1>2. <<ListMsg(open')>> \in Seq(DownType) BY <1>1
<1>3. QED BY <1>2 DEF Conversations

LEMMA FlushTypes ==
  ASSUME Out, active' \in Conv, msgs' \in [Conv -> Seq(Msg)],
         NEW forceFull \in BOOLEAN, FlushSnapshot(forceFull)
  PROVE  Out'
<1>1. snapshotTimer' \in BOOLEAN /\ EmitSnapshotNow(forceFull, Sinks, Nothing, Armed)
  BY DEF FlushSnapshot
<1>2. QED BY <1>1, NothingType, EmitTypes

LEMMA FlushAfterListTypes ==
  ASSUME Out, active' \in Conv, msgs' \in [Conv -> Seq(Msg)], open' \in SUBSET Conv,
         NEW forceFull \in BOOLEAN, FlushAfterList(forceFull)
  PROVE  Out'
<1>1. snapshotTimer' \in BOOLEAN /\ EmitSnapshotNow(forceFull, Sinks, Conversations, Armed)
  BY DEF FlushAfterList
<1>2. QED BY <1>1, NothingType, ListType, EmitTypes

LEMMA PreviewTypes ==
  ASSUME Out, msgs' \in [Conv -> Seq(Msg)], NEW c \in Conv, EmitSessionPreview(c)
  PROVE  Out'
<1> DEFINE s == Snapshot(c, snapRev + 1, msgs'[c], TRUE)
<1>1. /\ snapRev' = snapRev + 1 /\ snapshotTimer' = snapshotTimer
      /\ emitted' = [conv |-> NoConv, msgs |-> <<>>, rev |-> snapRev + 1]
      /\ Send(FullMsg(s), s, Sinks, Nothing, Armed)
  BY DEF EmitSessionPreview
<1>2. s \in SnapshotType
  <2>1. snapRev + 1 \in Nat /\ msgs'[c] \in Seq(Msg) BY DEF Out
  <2>2. QED BY <2>1, SnapshotIs
<1> HIDE DEF s
<1>3. FullMsg(s) \in DownType BY <1>2 DEF FullMsg, DownType
<1>4. /\ sentFull' \in [Tab -> BOOLEAN] /\ retry' \in [Tab -> BOOLEAN]
      /\ down' \in [Tab -> Seq(DownType)]
      /\ log' \subseteq SnapshotType
      /\ drops' \in Nat
  BY <1>1, <1>2, <1>3, NothingType, SendTypes
<1>5. <<>> \in Seq(Msg) OBVIOUS
<1>6. QED BY <1>1, <1>4, <1>5 DEF Out

LEMMA SilentTypes ==
  ASSUME Out, Unsent, snapshotTimer' \in BOOLEAN
  PROVE  Out'
  BY DEF Unsent, Out

-----------------------------------------------------------------------------
(* The type invariant, in parts.                                            *)

TableOK ==
  /\ IF used = {} THEN active = NoConv ELSE active \in open
  /\ open \subseteq used /\ used \subseteq Conv
  /\ opening \in [Conv -> Stages]
  /\ msgs \in [Conv -> Seq(Msg)]

TabsOK ==
  /\ attached \in [Tab -> BOOLEAN]
  /\ up \in [Tab -> Seq(UpType)]
  /\ connected \in [Tab -> BOOLEAN]
  /\ view \in [Tab -> SnapshotType \cup {NoSnapshot}]
  /\ cache \in [Tab -> [Conv -> SnapshotType \cup {NoSnapshot}]]
  /\ list \in [Tab -> SUBSET Conv]
  /\ pending \in [Tab -> Conv \cup {NoConv, NewChat}]
  /\ resync \in [Tab -> BOOLEAN]
  /\ spent \in [Kind -> Nat]

LEMMA TypeParts == TypeOK <=> TableOK /\ Out /\ TabsOK
  BY DEF TypeOK, TableOK, Out, TabsOK

LEMMA InitIInv == Init => IInv
<1> SUFFICES ASSUME Init PROVE IInv
  OBVIOUS
<1>1. <<>> \in Seq(Msg) /\ "no" \in Stages BY DEF Stages
<1>2. TableOK BY <1>1 DEF Init, TableOK
<1>3. Out BY <1>1, NothingType DEF Init, Out
<1>4. TabsOK BY NothingType DEF Init, TabsOK
<1>5. NoSession BY DEF Init, NoSession, Nothing
<1>6. OpeningUsed BY DEF Init, OpeningUsed
<1>7. QED BY <1>2, <1>3, <1>4, <1>5, <1>6, TypeParts DEF IInv

(* A server with a session: its conversation, and what makes the rest of    *)
(* the invariant hold after a step of it.                                   *)
LEMMA HasSession ==
  ASSUME IInv, used # {}
  PROVE  active \in Conv /\ active \in open /\ open \subseteq Conv
  BY TypeParts DEF IInv, TableOK

LEMMA SessionKept ==
  ASSUME TableOK', Out', TabsOK', OpeningUsed', used' # {}
  PROVE  IInv'
<1>1. NoSession' BY DEF NoSession
<1>2. TypeOK' BY TypeParts, PTL
<1>3. QED BY <1>1, <1>2 DEF IInv

LEMMA SpendType ==
  ASSUME TabsOK, NEW kind \in Kind, Spend(kind)
  PROVE  spent' \in [Kind -> Nat]
  BY DEF TabsOK, Spend

LEMMA TabsKept ==
  ASSUME TabsOK, UNCHANGED <<attached, up, tabs>>, spent' \in [Kind -> Nat]
  PROVE  TabsOK'
  BY DEF TabsOK, tabs

LEMMA OpeningKept ==
  ASSUME OpeningUsed, UNCHANGED <<used, opening>>
  PROVE  OpeningUsed'
  BY DEF OpeningUsed

-----------------------------------------------------------------------------
(* Events and timers of the session.                                        *)

LEMMA TableKept ==
  ASSUME IInv, used # {}, UNCHANGED table
  PROVE  /\ TableOK' /\ OpeningUsed' /\ used' # {}
         /\ active' \in Conv /\ msgs' \in [Conv -> Seq(Msg)]
<1>1. TableOK BY TypeParts DEF IInv
<1>2. active \in Conv BY HasSession
<1>3. QED BY <1>1, <1>2 DEF table, IInv, TableOK, OpeningUsed

LEMMA EventIInv ==
  ASSUME IInv, NEW c \in Conv, OnEvent(c)
  PROVE  IInv'
<1>1. TableOK /\ Out /\ TabsOK /\ OpeningUsed /\ c \in open
  BY TypeParts DEF IInv, OnEvent
<1>2. used # {} BY <1>1 DEF TableOK
<1>3. active \in Conv BY <1>2, HasSession
<1>4. PICK messages \in Changed(msgs[c]) : msgs' = [msgs EXCEPT ![c] = messages]
  BY DEF OnEvent
<1>5. messages \in Seq(Msg)
  <2>1. msgs[c] \in Seq(Msg) BY <1>1 DEF TableOK
  <2>2. \A m \in Msg : Append(msgs[c], m) \in Seq(Msg) /\ <<m>> \in Seq(Msg)
    BY <2>1, AppendProperties
  <2>3. QED BY <2>1, <2>2, <1>4 DEF Changed
<1>6. msgs' \in [Conv -> Seq(Msg)] BY <1>1, <1>4, <1>5 DEF TableOK
<1>7. UNCHANGED <<active, open, used, opening>> /\ UNCHANGED <<attached, up, tabs>>
  BY DEF OnEvent
<1>8. TableOK' BY <1>1, <1>6, <1>7 DEF TableOK
<1>9. Out'
  <2>1. CASE FlushSnapshot(FALSE)
    BY <2>1, <1>1, <1>3, <1>6, <1>7, FlushTypes
  <2>2. CASE ScheduleSnapshot
    BY <2>2, <1>1, SilentTypes DEF ScheduleSnapshot
  <2>3. QED BY <2>1, <2>2 DEF OnEvent
<1>10. TabsOK'
  <2>1. "event" \in Kind /\ Spend("event") BY DEF Kind, OnEvent
  <2>2. QED BY <2>1, <1>1, <1>7, SpendType, TabsKept
<1>11. OpeningUsed' BY <1>1, <1>7, OpeningKept
<1>12. QED BY <1>2, <1>7, <1>8, <1>9, <1>10, <1>11, SessionKept

LEMMA TimerIInv ==
  ASSUME IInv, SnapshotTimer \/ \E t \in Tab : SnapshotRetry(t)
  PROVE  IInv'
<1>1. TableOK /\ Out /\ TabsOK
  BY TypeParts DEF IInv
<1>2. used # {} BY DEF SnapshotTimer, SnapshotRetry, IInv, NoSession
<1>3. UNCHANGED table /\ UNCHANGED <<attached, up, tabs>> /\ UNCHANGED spent
  BY DEF SnapshotTimer, SnapshotRetry
<1>4. Out'
  <2>1. active' \in Conv /\ msgs' \in [Conv -> Seq(Msg)] BY <1>2, <1>3, TableKept
  <2>2. CASE SnapshotTimer
    BY <2>1, <2>2, <1>1, FlushTypes DEF SnapshotTimer
  <2>3. ASSUME NEW t \in Tab, SnapshotRetry(t) PROVE Out'
    <3>1. Armed \ {t} \in SUBSET Tab BY NothingType
    <3>2. snapshotTimer' \in BOOLEAN /\ EmitSnapshotNow(FALSE, Sinks, Nothing, Armed \ {t})
      BY <2>3 DEF SnapshotRetry
    <3>3. QED BY <2>1, <3>1, <3>2, <1>1, NothingType, EmitTypes
  <2>4. QED BY <2>2, <2>3
<1>5. TabsOK'
  <2>1. spent' \in [Kind -> Nat] BY <1>1, <1>3 DEF TabsOK
  <2>2. QED BY <2>1, <1>1, <1>3, TabsKept
<1>6. TableOK' /\ OpeningUsed' /\ used' # {} BY <1>2, <1>3, TableKept
<1>7. QED BY <1>4, <1>5, <1>6, SessionKept

-----------------------------------------------------------------------------
(* Messages from a tab.                                                     *)

LEMMA TakeTabs ==
  ASSUME TabsOK, NEW t \in Tab, NEW type, Take(t, type), attached' \in [Tab -> BOOLEAN]
  PROVE  TabsOK'
<1>1. up' \in [Tab -> Seq(UpType)]
  <2>1. up[t] \in Seq(UpType) /\ up[t] # <<>> BY DEF TabsOK, Take
  <2>2. Tail(up[t]) \in Seq(UpType) BY <2>1
  <2>3. QED BY <2>2 DEF TabsOK, Take
<1>2. QED BY <1>1 DEF TabsOK, Take, tabs

LEMMA TakeSession ==
  ASSUME IInv, NEW t \in Tab, NEW type, Take(t, type), type # "hello"
  PROVE  used # {}
  BY DEF IInv, NoSession, Take

LEMMA ActivateTable ==
  ASSUME TableOK, NEW c \in used, Activate(c, open), used' = used, msgs' = msgs,
         opening' \in [Conv -> Stages]
  PROVE  /\ TableOK' /\ active' = c /\ active' \in Conv
         /\ open' \in SUBSET Conv /\ msgs' \in [Conv -> Seq(Msg)] /\ used' # {}
  BY DEF TableOK, Activate

LEMMA SwitchTypes ==
  ASSUME IInv, used # {}, NEW c, SwitchConversation(c)
  PROVE  TableOK' /\ Out' /\ OpeningUsed' /\ used' # {}
<1>1. TableOK /\ Out /\ OpeningUsed BY TypeParts DEF IInv
<1>2. CASE c \notin open \/ c = active
  <2>1. UNCHANGED table /\ Silent BY <1>2 DEF SwitchConversation
  <2>2. snapshotTimer' \in BOOLEAN BY <2>1, <1>1 DEF Silent, Out
  <2>3. Out' BY <2>1, <2>2, <1>1, SilentTypes DEF Silent
  <2>4. QED BY <2>1, <2>3, TableKept
<1>3. CASE c \in open /\ c # active
  <2>1. /\ Activate(c, open) /\ UNCHANGED <<used, opening, msgs>>
        /\ FlushAfterList(FALSE)
    BY <1>3 DEF SwitchConversation
  <2>2. c \in used /\ opening' \in [Conv -> Stages] BY <1>1, <1>3, <2>1 DEF TableOK
  <2>3. /\ TableOK' /\ active' \in Conv
        /\ open' \in SUBSET Conv /\ msgs' \in [Conv -> Seq(Msg)] /\ used' # {}
    BY <1>1, <2>1, <2>2, ActivateTable
  <2>4. Out' BY <1>1, <2>1, <2>3, FlushAfterListTypes
  <2>5. QED BY <1>1, <2>1, <2>3, <2>4, OpeningKept
<1>4. QED BY <1>2, <1>3

LEMMA HelloIInv ==
  ASSUME IInv, NEW t \in Tab, TakeHello(t)
  PROVE  IInv'
<1>1. TableOK /\ Out /\ TabsOK /\ OpeningUsed
  BY TypeParts DEF IInv
<1>2. /\ Take(t, "hello") /\ attached' = [attached EXCEPT ![t] = TRUE]
      /\ snapshotTimer' = FALSE
      /\ EmitSnapshotNow(FALSE, Sinks \cup {t},
           [Conversations EXCEPT ![t] = Append(@, ReadyMsg)], Armed)
  BY DEF TakeHello
<1>3. TableOK' /\ OpeningUsed' /\ used' # {} /\ active' \in Conv
      /\ open' \in SUBSET Conv /\ msgs' \in [Conv -> Seq(Msg)]
  <2>1. CASE used = {}
    <3>1. CreateSession /\ FirstConv \in Conv
      BY <2>1, ConstantsAssumption DEF TakeHello
    <3>2. PICK messages \in Transcript : msgs' = [msgs EXCEPT ![FirstConv] = messages]
      BY <3>1 DEF CreateSession
    <3>3. msgs' \in [Conv -> Seq(Msg)] BY <3>1, <3>2, <1>1, TranscriptSeq DEF TableOK
    <3>4. \A c \in Conv : opening[c] = "no" BY <2>1 DEF IInv, NoSession
    <3>5. QED BY <3>1, <3>3, <3>4, <1>1 DEF CreateSession, TableOK, OpeningUsed
  <2>2. CASE used # {}
    <3>1. UNCHANGED table BY <2>2 DEF TakeHello
    <3>2. QED BY <2>2, <3>1, TableKept, HasSession DEF table
  <2>3. QED BY <2>1, <2>2
<1>4. Out'
  <2> DEFINE before == [Conversations EXCEPT ![t] = Append(@, ReadyMsg)]
  <2>1. Sinks \cup {t} \in SUBSET Tab /\ Armed \in SUBSET Tab BY NothingType
  <2>2. before \in [Tab -> Seq(DownType)]
    <3>1. Conversations \in [Tab -> Seq(DownType)] BY <1>3, ListType
    <3>2. ReadyMsg \in DownType BY DEF ReadyMsg, DownType
    <3>3. Append(Conversations[t], ReadyMsg) \in Seq(DownType)
      BY <3>1, <3>2, AppendProperties
    <3>4. QED BY <3>1, <3>3
  <2>3. snapshotTimer' \in BOOLEAN BY <1>2
  <2> HIDE DEF before
  <2>4. EmitSnapshotNow(FALSE, Sinks \cup {t}, before, Armed) BY <1>2 DEF before
  <2>5. QED BY <1>1, <1>3, <2>1, <2>2, <2>3, <2>4, EmitTypes
<1>5. TabsOK'
  <2>1. attached' \in [Tab -> BOOLEAN] BY <1>1, <1>2 DEF TabsOK
  <2>2. QED BY <1>1, <1>2, <2>1, TakeTabs
<1>6. QED BY <1>3, <1>4, <1>5, SessionKept

(* A new conversation takes an id and is not open yet.                      *)
LEMMA OpeningTable ==
  ASSUME IInv, used # {}, NEW c \in Conv \ used, NEW stage \in Stages,
         NEW messages \in Seq(Msg),
         used' = used \cup {c}, opening' = [opening EXCEPT ![c] = stage],
         msgs' = [msgs EXCEPT ![c] = messages], UNCHANGED <<active, open>>
  PROVE  /\ TableOK' /\ OpeningUsed' /\ used' # {}
         /\ msgs' \in [Conv -> Seq(Msg)]
<1>1. TableOK /\ OpeningUsed BY TypeParts DEF IInv
<1>2. QED BY <1>1 DEF TableOK, OpeningUsed

LEMMA NewChatIInv ==
  ASSUME IInv, NEW t \in Tab, TakeNewChat(t)
  PROVE  IInv'
<1>1. TableOK /\ Out /\ TabsOK /\ OpeningUsed
  BY TypeParts DEF IInv
<1>2. Take(t, "new_chat") /\ UNCHANGED <<active, open, attached>>
  BY DEF TakeNewChat
<1>3. used # {} BY <1>2, TakeSession
<1>4. TabsOK' BY <1>1, <1>2, TakeTabs DEF TabsOK
<1>5. ASSUME UNCHANGED <<used, opening, msgs>>, FlushSnapshot(FALSE) \/ Silent
      PROVE  IInv'
  <2>1. UNCHANGED table BY <1>2, <1>5 DEF table
  <2>2. /\ TableOK' /\ OpeningUsed' /\ used' # {}
        /\ active' \in Conv /\ msgs' \in [Conv -> Seq(Msg)]
    BY <1>3, <2>1, TableKept
  <2>3. Out'
    <3>1. CASE FlushSnapshot(FALSE) BY <3>1, <1>1, <2>2, FlushTypes
    <3>2. CASE Silent BY <3>2, <1>1, SilentTypes DEF Silent, Out
    <3>3. QED BY <3>1, <3>2, <1>5
  <2>4. QED BY <1>4, <2>2, <2>3, SessionKept
<1>6. ASSUME NEW c \in Conv \ used, used' = used \cup {c},
             opening' = [opening EXCEPT ![c] = "new"],
             msgs' = [msgs EXCEPT ![c] = <<>>], Silent
      PROVE  IInv'
  <2>1. "new" \in Stages /\ <<>> \in Seq(Msg) BY DEF Stages
  <2>2. TableOK' /\ OpeningUsed' /\ used' # {}
    BY <1>2, <1>3, <1>6, <2>1, OpeningTable
  <2>3. Out' BY <1>1, <1>6, SilentTypes DEF Silent, Out
  <2>4. QED BY <1>4, <2>2, <2>3, SessionKept
<1>7. QED BY <1>5, <1>6 DEF TakeNewChat

LEMMA SwitchSessionIInv ==
  ASSUME IInv, NEW t \in Tab, TakeSwitchSession(t)
  PROVE  IInv'
<1>1. TableOK /\ Out /\ TabsOK /\ OpeningUsed
  BY TypeParts DEF IInv
<1>2. Take(t, "switch_session") /\ UNCHANGED attached
  BY DEF TakeSwitchSession
<1>3. used # {} BY <1>2, TakeSession
<1>4. TabsOK' BY <1>1, <1>2, TakeTabs DEF TabsOK
<1>5. ASSUME NEW c \in open, SwitchConversation(c) PROVE IInv'
  BY <1>3, <1>4, <1>5, SwitchTypes, SessionKept
<1>6. ASSUME UNCHANGED table, NEW forceFull \in BOOLEAN, FlushSnapshot(forceFull) PROVE IInv'
  <2>1. /\ TableOK' /\ OpeningUsed' /\ used' # {}
        /\ active' \in Conv /\ msgs' \in [Conv -> Seq(Msg)]
    BY <1>3, <1>6, TableKept
  <2>2. Out' BY <1>1, <1>6, <2>1, FlushTypes
  <2>3. QED BY <1>4, <2>1, <2>2, SessionKept
<1>7. ASSUME NEW c \in Conv \ used, NEW messages \in Transcript,
             used' = used \cup {c},
             opening' = [opening EXCEPT ![c] = "session"],
             msgs' = [msgs EXCEPT ![c] = messages],
             UNCHANGED <<active, open>>, EmitSessionPreview(c)
      PROVE  IInv'
  <2>1. "session" \in Stages /\ messages \in Seq(Msg) BY TranscriptSeq DEF Stages
  <2>2. TableOK' /\ OpeningUsed' /\ used' # {} /\ msgs' \in [Conv -> Seq(Msg)]
    BY <1>3, <1>7, <2>1, OpeningTable
  <2>3. Out' BY <1>1, <1>7, <2>2, PreviewTypes
  <2>4. QED BY <1>4, <2>2, <2>3, SessionKept
<1>8. QED BY <1>5, <1>6, <1>7 DEF TakeSwitchSession

LEMMA ServedIInv ==
  ASSUME IInv, NEW t \in Tab, Served(t)
  PROVE  IInv'
<1>1. TableOK /\ Out /\ TabsOK
  BY TypeParts DEF IInv
<1>2. CASE TakeGetState(t)
  <2>1. Take(t, "get_state") /\ UNCHANGED table /\ UNCHANGED attached /\ FlushSnapshot(TRUE)
    BY <1>2 DEF TakeGetState
  <2>2. used # {} BY <2>1, TakeSession
  <2>3. /\ TableOK' /\ OpeningUsed' /\ used' # {}
        /\ active' \in Conv /\ msgs' \in [Conv -> Seq(Msg)]
    BY <2>1, <2>2, TableKept
  <2>4. Out' BY <1>1, <2>1, <2>3, FlushTypes
  <2>5. TabsOK' BY <1>1, <2>1, TakeTabs DEF TabsOK
  <2>6. QED BY <2>3, <2>4, <2>5, SessionKept
<1>3. CASE TakeSwitch(t)
  <2>1. /\ Take(t, "switch_conversation") /\ UNCHANGED attached
        /\ SwitchConversation(Head(up[t]).conv)
    BY <1>3 DEF TakeSwitch
  <2>2. used # {} BY <2>1, TakeSession
  <2>3. TabsOK' BY <1>1, <2>1, TakeTabs DEF TabsOK
  <2>4. QED BY <2>1, <2>2, <2>3, SwitchTypes, SessionKept
<1>4. CASE TakePrompt(t)
  <2>1. Take(t, "prompt") /\ UNCHANGED table /\ UNCHANGED attached
        /\ (Silent \/ FlushSnapshot(FALSE))
    BY <1>4 DEF TakePrompt
  <2>2. used # {} BY <2>1, TakeSession
  <2>3. /\ TableOK' /\ OpeningUsed' /\ used' # {}
        /\ active' \in Conv /\ msgs' \in [Conv -> Seq(Msg)]
    BY <2>1, <2>2, TableKept
  <2>4. Out'
    <3>1. CASE FlushSnapshot(FALSE) BY <3>1, <1>1, <2>3, FlushTypes
    <3>2. CASE Silent BY <3>2, <1>1, SilentTypes DEF Silent, Out
    <3>3. QED BY <3>1, <3>2, <2>1
  <2>5. TabsOK' BY <1>1, <2>1, TakeTabs DEF TabsOK
  <2>6. QED BY <2>3, <2>4, <2>5, SessionKept
<1>5. QED BY <1>2, <1>3, <1>4, HelloIInv, NewChatIInv, SwitchSessionIInv DEF Served

-----------------------------------------------------------------------------
(* Runtimes that have booted, or not.                                       *)

LEMMA OpenedIInv ==
  ASSUME IInv, NEW c \in Conv, Opened(c)
  PROVE  IInv'
<1>1. TableOK /\ Out /\ TabsOK /\ OpeningUsed
  BY TypeParts DEF IInv
<1>2. opening[c] # "no" /\ UNCHANGED <<used, msgs, attached, up, tabs, spent>>
  BY DEF Opened, SessionBooted, SessionBound, SessionRefused, SessionFails,
         NewChatBooted, NewChatBound, NewChatFails
<1>3. c \in used BY <1>1, <1>2 DEF OpeningUsed
<1>4. used # {} /\ used' # {} /\ active \in Conv /\ open \in SUBSET Conv
      /\ msgs' \in [Conv -> Seq(Msg)]
  BY <1>1, <1>2, <1>3, HasSession DEF TableOK
<1>5. TabsOK' BY <1>1, <1>2, TabsKept DEF TabsOK
<1>6. ASSUME NEW stage \in Stages, opening' = [opening EXCEPT ![c] = stage]
      PROVE  opening' \in [Conv -> Stages] /\ OpeningUsed'
  BY <1>1, <1>2, <1>3, <1>6 DEF TableOK, OpeningUsed
<1>7. ASSUME NEW stage \in Stages, opening' = [opening EXCEPT ![c] = stage],
             Activate(c, open), Silent
      PROVE  IInv'
  <2>1. TableOK' BY <1>1, <1>2, <1>3, <1>6, <1>7, ActivateTable
  <2>2. Out' BY <1>1, <1>7, SilentTypes DEF Silent, Out
  <2>3. QED BY <1>4, <1>5, <1>6, <1>7, <2>1, <2>2, SessionKept
<1>8. ASSUME opening' = [opening EXCEPT ![c] = "no"], UNCHANGED <<active, open>>,
             \/ Silent
             \/ \E forceFull \in BOOLEAN : FlushSnapshot(forceFull) \/ FlushAfterList(forceFull)
      PROVE  IInv'
  <2>1. "no" \in Stages BY DEF Stages
  <2>2. opening' \in [Conv -> Stages] /\ OpeningUsed' BY <1>6, <1>8, <2>1
  <2>3. TableOK' BY <1>1, <1>2, <1>8, <2>2 DEF TableOK
  <2>4. active' \in Conv /\ open' \in SUBSET Conv BY <1>4, <1>8
  <2>5. Out'
    <3>1. CASE Silent BY <3>1, <1>1, SilentTypes DEF Silent, Out
    <3>2. ASSUME NEW forceFull \in BOOLEAN, FlushSnapshot(forceFull) PROVE Out'
      BY <3>2, <1>1, <1>4, <2>4, FlushTypes
    <3>3. ASSUME NEW forceFull \in BOOLEAN, FlushAfterList(forceFull) PROVE Out'
      BY <3>3, <1>1, <1>4, <2>4, FlushAfterListTypes
    <3>4. QED BY <3>1, <3>2, <3>3, <1>8
  <2>6. QED BY <1>4, <1>5, <2>2, <2>3, <2>5, SessionKept
<1>9. "sessionBind" \in Stages /\ "newBind" \in Stages BY DEF Stages
<1>10. CASE SessionBooted(c)
  BY <1>7, <1>9, <1>10 DEF SessionBooted
<1>11. CASE NewChatBooted(c)
  BY <1>7, <1>9, <1>11 DEF NewChatBooted
<1>12. CASE SessionBound(c)
  BY <1>8, <1>12 DEF SessionBound
<1>13. CASE NewChatBound(c)
  BY <1>8, <1>13 DEF NewChatBound
<1>14. CASE SessionRefused(c)
  BY <1>8, <1>14 DEF SessionRefused
<1>15. CASE SessionFails(c)
  BY <1>8, <1>15 DEF SessionFails
<1>16. CASE NewChatFails(c)
  BY <1>8, <1>16 DEF NewChatFails
<1>17. QED BY <1>10, <1>11, <1>12, <1>13, <1>14, <1>15, <1>16 DEF Opened

-----------------------------------------------------------------------------
(* Messages to a tab.                                                       *)

LEMMA ReceiveSession ==
  ASSUME IInv, NEW t \in Tab, NEW type, Receive(t, type), TabsOK'
  PROVE  IInv'
<1>1. TableOK /\ Out BY TypeParts DEF IInv
<1>2. used # {} BY DEF IInv, NoSession, Receive
<1>3. UNCHANGED table /\ UNCHANGED <<emitter, sockets, log, drops>> BY DEF Receive
<1>4. TableOK' /\ OpeningUsed' /\ used' # {} BY <1>2, <1>3, TableKept
<1>5. down' \in [Tab -> Seq(DownType)]
  <2>1. down[t] \in Seq(DownType) /\ down[t] # <<>> BY <1>1 DEF Out, Receive
  <2>2. Tail(down[t]) \in Seq(DownType) BY <2>1
  <2>3. QED BY <1>1, <2>2 DEF Out, Receive
<1>6. Out' BY <1>1, <1>3, <1>5 DEF Out, emitter, sockets
<1>7. QED BY <1>4, <1>6, SessionKept

LEMMA HeadReceived ==
  ASSUME Out, NEW t \in Tab, NEW type, Receive(t, type)
  PROVE  Head(down[t]) \in DownType /\ Head(down[t]).type = type
<1>1. down[t] \in Seq(DownType) /\ down[t] # <<>> BY DEF Out, Receive
<1>2. QED BY <1>1 DEF Receive

LEMMA CacheTypes ==
  ASSUME TabsOK, NEW t \in Tab, NEW s \in SnapshotType, CacheSnapshot(t, s)
  PROVE  cache' \in [Tab -> [Conv -> SnapshotType \cup {NoSnapshot}]]
<1>1. s.conv \in Conv BY DEF SnapshotType
<1>2. QED BY <1>1 DEF TabsOK, CacheSnapshot

(* A delta that chains meets a real snapshot, and makes one.                *)
LEMMA MergedType ==
  ASSUME NEW s \in SnapshotType \cup {NoSnapshot}, NEW d \in DownType,
         d.type = "snapshot_delta", Chains(s, d)
  PROVE  s \in SnapshotType /\ Merged(s, d) \in SnapshotType
<1>1. d.conv \in Conv /\ d.rev \in Nat /\ d.appended \in Seq(Msg) BY DEF DownType
<1>2. s \in SnapshotType BY <1>1, BlankIs, ConstantsAssumption DEF Chains
<1>3. s.msgs \in Seq(Msg) BY <1>2 DEF SnapshotType
<1>4. s.msgs \o d.appended \in Seq(Msg) BY <1>1, <1>3, ConcatProperties
<1>5. QED BY <1>1, <1>2, <1>4 DEF Merged, Snapshot, SnapshotType

LEMMA ReceivedIInv ==
  ASSUME IInv, NEW t \in Tab, Received(t)
  PROVE  IInv'
<1>1. Out /\ TabsOK BY TypeParts DEF IInv
<1>2. CASE ReceiveReady(t)
  <2>1. Receive(t, "ready") /\ Ask(t, [type |-> "get_state"])
        /\ UNCHANGED <<view, cache, list, pending, resync>>
    BY <1>2 DEF ReceiveReady
  <2>2. [type |-> "get_state"] \in UpType BY DEF UpType
  <2>3. up' \in [Tab -> Seq(UpType)] BY <1>1, <2>1, <2>2 DEF TabsOK, Ask
  <2>4. TabsOK' BY <1>1, <2>1, <2>3 DEF TabsOK, Receive, sockets
  <2>5. QED BY <2>1, <2>4, ReceiveSession
<1>3. CASE ReceiveConversations(t)
  <2> DEFINE convs == Head(down[t]).convs
  <2>1. /\ Receive(t, "conversations") /\ UNCHANGED <<up, view, pending, resync>>
        /\ list' = [list EXCEPT ![t] = convs]
        /\ cache' = [cache EXCEPT ![t] =
                      [c \in Conv |-> IF c \in convs THEN @[c] ELSE NoSnapshot]]
    BY <1>3 DEF ReceiveConversations
  <2>2. convs \in SUBSET Conv BY <1>1, <2>1, HeadReceived DEF DownType
  <2> HIDE DEF convs
  <2>3. list' \in [Tab -> SUBSET Conv] BY <1>1, <2>1, <2>2 DEF TabsOK
  <2>4. cache' \in [Tab -> [Conv -> SnapshotType \cup {NoSnapshot}]]
    BY <1>1, <2>1 DEF TabsOK
  <2>5. TabsOK' BY <1>1, <2>1, <2>3, <2>4 DEF TabsOK, Receive, sockets
  <2>6. QED BY <2>1, <2>5, ReceiveSession
<1>4. CASE ReceiveSnapshot(t)
  <2> DEFINE s == Head(down[t]).state
  <2>1. /\ Receive(t, "snapshot") /\ UNCHANGED <<up, list, resync>>
        /\ view' = [view EXCEPT ![t] = s] /\ CacheSnapshot(t, s)
        /\ pending' = [pending EXCEPT ![t] = NoConv]
    BY <1>4 DEF ReceiveSnapshot
  <2>2. s \in SnapshotType BY <1>1, <2>1, HeadReceived DEF DownType
  <2> HIDE DEF s
  <2>3. cache' \in [Tab -> [Conv -> SnapshotType \cup {NoSnapshot}]]
    BY <1>1, <2>1, <2>2, CacheTypes
  <2>4. TabsOK' BY <1>1, <2>1, <2>2, <2>3 DEF TabsOK, Receive, sockets
  <2>5. QED BY <2>1, <2>4, ReceiveSession
<1>5. CASE ReceiveDelta(t)
  <2> DEFINE d == Head(down[t])
             cached == cache[t][d.conv]
  <2>1. /\ Receive(t, "snapshot_delta") /\ UNCHANGED <<up, list, pending>>
        /\ \/ /\ Chains(view[t], d)
              /\ view' = [view EXCEPT ![t] = Merged(@, d)]
              /\ CacheSnapshot(t, Merged(view[t], d))
              /\ UNCHANGED resync
           \/ /\ ~Chains(view[t], d)
              /\ IF Chains(cached, d) THEN CacheSnapshot(t, Merged(cached, d))
                                      ELSE UNCHANGED cache
              /\ resync' = [resync EXCEPT ![t] = @ \/ pending[t] = NoConv]
              /\ UNCHANGED view
    BY <1>5 DEF ReceiveDelta
  <2>2. d \in DownType /\ d.type = "snapshot_delta" BY <1>1, <2>1, HeadReceived
  <2>3. d.conv \in Conv BY <2>2 DEF DownType
  <2>4. /\ view[t] \in SnapshotType \cup {NoSnapshot}
        /\ cached \in SnapshotType \cup {NoSnapshot}
    BY <1>1, <2>3 DEF TabsOK
  <2> HIDE DEF d, cached
  <2>5. resync' \in [Tab -> BOOLEAN] BY <1>1, <2>1 DEF TabsOK
  <2>6. /\ view' \in [Tab -> SnapshotType \cup {NoSnapshot}]
        /\ cache' \in [Tab -> [Conv -> SnapshotType \cup {NoSnapshot}]]
    <3>1. CASE Chains(view[t], d)
      <4>1. Merged(view[t], d) \in SnapshotType BY <2>2, <2>4, <3>1, MergedType
      <4>2. view' = [view EXCEPT ![t] = Merged(view[t], d)] /\ CacheSnapshot(t, Merged(view[t], d))
        BY <2>1, <3>1
      <4>3. QED BY <1>1, <4>1, <4>2, CacheTypes DEF TabsOK
    <3>2. CASE ~Chains(view[t], d) /\ Chains(cached, d)
      <4>1. Merged(cached, d) \in SnapshotType BY <2>2, <2>4, <3>2, MergedType
      <4>2. UNCHANGED view /\ CacheSnapshot(t, Merged(cached, d)) BY <2>1, <3>2
      <4>3. QED BY <1>1, <4>1, <4>2, CacheTypes DEF TabsOK
    <3>3. CASE ~Chains(view[t], d) /\ ~Chains(cached, d)
      BY <1>1, <2>1, <3>3 DEF TabsOK
    <3>4. QED BY <3>1, <3>2, <3>3
  <2>7. TabsOK' BY <1>1, <2>1, <2>5, <2>6 DEF TabsOK, Receive, sockets
  <2>8. QED BY <2>1, <2>7, ReceiveSession
<1>6. QED BY <1>2, <1>3, <1>4, <1>5 DEF Received

-----------------------------------------------------------------------------
(* The tab, the sockets and the process.                                    *)

(* A step in a connected tab, or in one that says nothing.                  *)
LEMMA InTabIInv ==
  ASSUME IInv, InTab, UNCHANGED connected, TabsOK', NEW t \in Tab,
         \/ UNCHANGED up
         \/ connected[t] /\ \E m \in UpType : Ask(t, m)
  PROVE  IInv'
<1>1. TableOK /\ Out /\ TabsOK BY TypeParts DEF IInv
<1>2. TableOK' BY <1>1 DEF InTab, table, TableOK
<1>3. Out' BY <1>1 DEF InTab, emitter, sockets, Out
<1>4. OpeningUsed' BY DEF IInv, OpeningUsed, InTab, table
<1>5. TypeOK' BY <1>2, <1>3, TypeParts, PTL
<1>6. NoSession'
  <2>1. UNCHANGED <<used, snapshotTimer, opening, retry, down, connected>>
    BY DEF InTab, table, emitter, sockets
  <2>2. NoSession BY DEF IInv
  <2>3. CASE UNCHANGED up BY <2>1, <2>2, <2>3 DEF NoSession
  <2>4. ASSUME NEW m \in UpType, connected[t], Ask(t, m) PROVE NoSession'
    <3>1. \A x \in Tab : up[x] \in Seq(UpType) BY <1>1 DEF TabsOK
    <3>2. up' = [up EXCEPT ![t] = Append(@, m)] /\ up[t] \in Seq(UpType)
      BY <2>4, <3>1 DEF Ask
    <3>3. up'[t] # <<>> /\ (up[t] # <<>> => Head(up'[t]) = Head(up[t]))
      <4>1. up'[t] = Append(up[t], m) BY <1>1, <3>2 DEF TabsOK
      <4>2. QED BY <3>2, <4>1, AppendProperties, HeadTailAppend
    <3>4. \A x \in Tab : x # t => up'[x] = up[x] BY <1>1, <3>2 DEF TabsOK
    <3>5. QED BY <2>1, <2>2, <2>4, <3>3, <3>4 DEF NoSession
  <2>5. QED BY <2>3, <2>4
<1>7. QED BY <1>4, <1>5, <1>6 DEF IInv

LEMMA AskType ==
  ASSUME TabsOK, NEW t \in Tab, NEW m \in UpType, Ask(t, m)
  PROVE  up' \in [Tab -> Seq(UpType)]
  BY DEF TabsOK, Ask

LEMMA ClickedIInv ==
  ASSUME IInv, NEW t \in Tab, Clicked(t)
  PROVE  IInv'
<1>1. TabsOK /\ Out BY TypeParts DEF IInv
<1>2. InTab /\ connected[t] /\ "click" \in Kind /\ Spend("click")
  BY DEF Clicked, ClickSwitch, ClickNewChat, ClickSession, SendPrompt, Kind
<1>3. spent' \in [Kind -> Nat] BY <1>1, <1>2, SpendType
<1>4. UNCHANGED attached BY <1>2 DEF InTab, sockets
<1>5. ASSUME NEW c \in Conv, ClickSwitch(t, c) PROVE IInv'
  <2> DEFINE m == [type |-> "switch_conversation", conv |-> c]
  <2>1. m \in UpType BY DEF UpType
  <2>2. Ask(t, m) /\ UNCHANGED <<connected, cache, list, resync>> BY <1>5 DEF ClickSwitch
  <2>3. pending' \in [Tab -> Conv \cup {NoConv, NewChat}] BY <1>1, <1>5 DEF TabsOK, ClickSwitch
  <2>4. view' \in [Tab -> SnapshotType \cup {NoSnapshot}]
    <3>1. cache[t][c] \in SnapshotType \cup {NoSnapshot} BY <1>1 DEF TabsOK
    <3>2. UNCHANGED view \/ view' = [view EXCEPT ![t] = IF cache[t][c] = NoSnapshot THEN @ ELSE cache[t][c]]
      BY <1>5 DEF ClickSwitch
    <3>3. QED BY <1>1, <3>1, <3>2 DEF TabsOK
  <2> HIDE DEF m
  <2>5. up' \in [Tab -> Seq(UpType)] BY <1>1, <2>1, <2>2, AskType
  <2>6. TabsOK' BY <1>1, <1>3, <1>4, <2>2, <2>3, <2>4, <2>5 DEF TabsOK
  <2>7. QED BY <1>2, <2>1, <2>2, <2>6, InTabIInv
<1>6. CASE ClickNewChat(t)
  <2> DEFINE m == [type |-> "new_chat"]
  <2>1. m \in UpType BY DEF UpType
  <2>2. Ask(t, m) /\ UNCHANGED <<connected, view, cache, list, resync>> BY <1>6 DEF ClickNewChat
  <2>3. pending' \in [Tab -> Conv \cup {NoConv, NewChat}] BY <1>1, <1>6 DEF TabsOK, ClickNewChat
  <2> HIDE DEF m
  <2>4. up' \in [Tab -> Seq(UpType)] BY <1>1, <2>1, <2>2, AskType
  <2>5. TabsOK' BY <1>1, <1>3, <1>4, <2>2, <2>3, <2>4 DEF TabsOK
  <2>6. QED BY <1>2, <2>1, <2>2, <2>5, InTabIInv
<1>7. CASE ClickSession(t)
  <2> DEFINE m == [type |-> "switch_session"]
  <2>1. m \in UpType BY DEF UpType
  <2>2. Ask(t, m) /\ UNCHANGED tabs BY <1>7 DEF ClickSession
  <2> HIDE DEF m
  <2>3. up' \in [Tab -> Seq(UpType)] BY <1>1, <2>1, <2>2, AskType
  <2>4. TabsOK' /\ UNCHANGED connected BY <1>1, <1>3, <1>4, <2>2, <2>3 DEF TabsOK, tabs
  <2>5. QED BY <1>2, <2>1, <2>2, <2>4, InTabIInv
<1>8. CASE SendPrompt(t)
  <2> DEFINE m == [type |-> "prompt", shown |-> view[t].conv]
  <2>1. m \in UpType
    <3>1. view[t] \in SnapshotType BY <1>1, <1>8 DEF TabsOK, SendPrompt
    <3>2. QED BY <3>1 DEF UpType, SnapshotType
  <2>2. Ask(t, m) /\ UNCHANGED tabs BY <1>8 DEF SendPrompt
  <2> HIDE DEF m
  <2>3. up' \in [Tab -> Seq(UpType)] BY <1>1, <2>1, <2>2, AskType
  <2>4. TabsOK' /\ UNCHANGED connected BY <1>1, <1>3, <1>4, <2>2, <2>3 DEF TabsOK, tabs
  <2>5. QED BY <1>2, <2>1, <2>2, <2>4, InTabIInv
<1>9. QED BY <1>5, <1>6, <1>7, <1>8 DEF Clicked

LEMMA TabTimerIInv ==
  ASSUME IInv, NEW t \in Tab, ClickTimeout(t) \/ ScheduledResync(t)
  PROVE  IInv'
<1>1. TabsOK BY TypeParts DEF IInv
<1>2. /\ InTab /\ UNCHANGED <<connected, view, cache, list, spent>>
      /\ pending' \in [Tab -> Conv \cup {NoConv, NewChat}] /\ resync' \in [Tab -> BOOLEAN]
  BY <1>1 DEF ClickTimeout, ScheduledResync, TabsOK
<1>3. UNCHANGED up \/ (connected[t] /\ Ask(t, [type |-> "get_state"]))
  <2>1. CASE ClickTimeout(t) BY <2>1 DEF ClickTimeout
  <2>2. CASE ScheduledResync(t) BY <2>2, <1>1 DEF ScheduledResync, TabsOK
  <2>3. QED BY <2>1, <2>2
<1>4. [type |-> "get_state"] \in UpType BY DEF UpType
<1>5. up' \in [Tab -> Seq(UpType)]
  <2>1. CASE UNCHANGED up BY <2>1, <1>1 DEF TabsOK
  <2>2. CASE Ask(t, [type |-> "get_state"]) BY <2>2, <1>1, <1>4, AskType
  <2>3. QED BY <2>1, <2>2, <1>3
<1>6. TabsOK' BY <1>1, <1>2, <1>5 DEF TabsOK, InTab, sockets
<1>7. QED BY <1>2, <1>3, <1>4, <1>6, InTabIInv

LEMMA SocketIInv ==
  ASSUME IInv, NEW t \in Tab, Connect(t) \/ Disconnect(t)
  PROVE  IInv'
<1>1. TableOK /\ Out /\ TabsOK /\ NoSession /\ OpeningUsed BY TypeParts DEF IInv
<1>2. CASE Connect(t)
  <2> DEFINE hello == <<[type |-> "hello"]>>
  <2>1. /\ connected' = [connected EXCEPT ![t] = TRUE] /\ up' = [up EXCEPT ![t] = hello]
        /\ UNCHANGED <<view, cache, list, pending, resync, spent>> /\ InTab
    BY <1>2 DEF Connect
  <2>2. hello \in Seq(UpType) /\ hello # <<>> /\ Head(hello).type = "hello"
    <3>1. [type |-> "hello"] \in UpType BY DEF UpType
    <3>2. QED BY <3>1
  <2> HIDE DEF hello
  <2>3. TabsOK' BY <1>1, <2>1, <2>2 DEF TabsOK, InTab, sockets
  <2>4. TableOK' /\ OpeningUsed' BY <1>1, <2>1 DEF InTab, table, TableOK, OpeningUsed
  <2>5. Out' BY <1>1, <2>1 DEF InTab, emitter, sockets, Out
  <2>6. TypeOK' BY <2>3, <2>4, <2>5, TypeParts, PTL
  <2>7. NoSession'
    <3>1. UNCHANGED <<used, snapshotTimer, opening, retry, down>>
      BY <2>1 DEF InTab, table, emitter, sockets
    <3>2. QED BY <1>1, <2>1, <2>2, <3>1 DEF NoSession, TabsOK
  <2>8. QED BY <2>4, <2>6, <2>7 DEF IInv
<1>3. CASE Disconnect(t)
  <2>1. /\ connected' = [connected EXCEPT ![t] = FALSE] /\ up' = [up EXCEPT ![t] = <<>>]
        /\ down' = [down EXCEPT ![t] = <<>>]
        /\ attached' = [attached EXCEPT ![t] = FALSE]
        /\ sentFull' = [sentFull EXCEPT ![t] = FALSE]
        /\ retry' = [retry EXCEPT ![t] = FALSE]
        /\ UNCHANGED <<table, emitter, view, cache, list, pending, resync, log, drops>>
        /\ "break" \in Kind /\ Spend("break")
    BY <1>3 DEF Disconnect, Kind
  <2>2. <<>> \in Seq(UpType) /\ <<>> \in Seq(DownType) OBVIOUS
  <2>3. spent' \in [Kind -> Nat] BY <1>1, <2>1, SpendType
  <2>4. TabsOK' BY <1>1, <2>1, <2>2, <2>3 DEF TabsOK
  <2>5. TableOK' /\ OpeningUsed' BY <1>1, <2>1 DEF table, TableOK, OpeningUsed
  <2>6. Out' BY <1>1, <2>1, <2>2 DEF emitter, Out
  <2>7. TypeOK' BY <2>4, <2>5, <2>6, TypeParts, PTL
  <2>8. NoSession'
    <3>1. UNCHANGED <<used, snapshotTimer, opening>> BY <2>1 DEF table, emitter
    <3>2. QED BY <1>1, <2>1, <3>1 DEF NoSession, TabsOK, Out
  <2>9. QED BY <2>5, <2>7, <2>8 DEF IInv
<1>4. QED BY <1>2, <1>3

LEMMA RestartIInv ==
  ASSUME IInv, Restart
  PROVE  IInv'
<1>1. Out /\ TabsOK BY TypeParts DEF IInv
<1>2. "no" \in Stages /\ <<>> \in Seq(Msg) /\ "restart" \in Kind BY DEF Stages, Kind
<1>3. spent' \in [Kind -> Nat] BY <1>1, <1>2, SpendType DEF Restart
<1>4. TableOK' BY <1>2 DEF Restart, TableOK
<1>5. Out' BY <1>1, <1>2, NothingType DEF Restart, Out
<1>6. TabsOK' BY <1>1, <1>3, NothingType DEF Restart, TabsOK
<1>7. NoSession' BY DEF Restart, NoSession, Nothing
<1>8. OpeningUsed' BY DEF Restart, OpeningUsed
<1>9. TypeOK' BY <1>4, <1>5, <1>6, TypeParts, PTL
<1>10. QED BY <1>7, <1>8, <1>9 DEF IInv

LEMMA NextIInv == IInv /\ [Next]_vars => IInv'
<1> SUFFICES ASSUME IInv, [Next]_vars PROVE IInv'
  OBVIOUS
<1>1. CASE UNCHANGED vars
  <2>1. UNCHANGED <<table, emitter, sockets, wires, tabs, log, drops, spent>> BY <1>1 DEF vars
  <2>2. TypeOK' BY <2>1 DEF IInv, TypeOK, table, emitter, sockets, wires, tabs
  <2>3. NoSession' BY <2>1 DEF IInv, NoSession, table, emitter, sockets, wires, tabs
  <2>4. OpeningUsed' BY <2>1 DEF IInv, OpeningUsed, table
  <2>5. QED BY <2>2, <2>3, <2>4 DEF IInv
<1>2. ASSUME NEW c \in Conv, OnEvent(c) \/ Opened(c) PROVE IInv'
  BY <1>2, EventIInv, OpenedIInv
<1>3. CASE SnapshotTimer BY <1>3, TimerIInv
<1>4. ASSUME NEW t \in Tab,
             \/ Served(t) \/ Received(t) \/ Clicked(t)
             \/ SnapshotRetry(t) \/ ClickTimeout(t) \/ ScheduledResync(t)
             \/ Connect(t) \/ Disconnect(t)
      PROVE  IInv'
  BY <1>4, ServedIInv, ReceivedIInv, ClickedIInv, TimerIInv, TabTimerIInv, SocketIInv
<1>5. CASE Restart BY <1>5, RestartIInv
<1>6. QED BY <1>1, <1>2, <1>3, <1>4, <1>5 DEF Next

(* Every variable of the server, the sockets and the tabs keeps its type,   *)
(* whatever is clicked, dropped, disconnected or restarted: above all, a    *)
(* merge never meets an empty state and the active conversation is open.    *)
THEOREM TypeCorrect == Spec => []TypeOK
<1>1. IInv => TypeOK BY DEF IInv
<1>2. QED BY <1>1, InitIInv, NextIInv, PTL DEF Spec

-----------------------------------------------------------------------------
(* What the wire carries and the tabs show was published.                   *)

Plain == {m \in DownType : m.type \in {"ready", "conversations"}}

(* What a step of the server sends, if anything.                            *)
Speaks ==
  \/ Unsent
  \/ \E forceFull \in BOOLEAN, sinks \in SUBSET Tab,
        before \in [Tab -> Seq(Plain)], armed \in SUBSET Tab :
       EmitSnapshotNow(forceFull, sinks, before, armed)
  \/ \E c \in Conv : c \in used' /\ c \notin used /\ EmitSessionPreview(c)

LEMMA CarriedKept ==
  ASSUME NEW m, NEW before, NEW after, before \subseteq after, Carried(m, before)
  PROVE  Carried(m, after)
  BY DEF Carried

LEMMA ConcatElement ==
  ASSUME NEW S, NEW a \in Seq(S), NEW b \in Seq(S), NEW i \in 1..Len(a \o b)
  PROVE  \/ \E j \in 1..Len(a) : (a \o b)[i] = a[j]
         \/ \E j \in 1..Len(b) : (a \o b)[i] = b[j]
<1>1. Len(a) \in Nat /\ Len(b) \in Nat /\ Len(a \o b) = Len(a) + Len(b)
      /\ \A k \in 1..Len(a) + Len(b) : (a \o b)[k] =
            IF k <= Len(a) THEN a[k] ELSE b[k - Len(a)]
  BY ConcatProperties, LenProperties
<1>2. CASE i <= Len(a) BY <1>1, <1>2
<1>3. CASE i > Len(a)
  <2>1. i - Len(a) \in 1..Len(b) /\ (a \o b)[i] = b[i - Len(a)] BY <1>1, <1>3
  <2>2. QED BY <2>1
<1>4. QED BY <1>1, <1>2, <1>3

(* A new state under a new revision, sent in full or as a step from a       *)
(* published one.                                                           *)
LEMMA SendPublished ==
  ASSUME IInv, Published, NEW s \in SnapshotType, s.rev = snapRev + 1, snapRev' = snapRev + 1,
         NEW m \in DownType, NEW sinks \in SUBSET Tab,
         NEW before \in [Tab -> Seq(Plain)], NEW armed \in SUBSET Tab,
         Send(m, s, sinks, before, armed), Carried(m, log')
  PROVE  /\ log' = log \cup {s} /\ RevsUnique' /\ WirePublished'
<1>1. Out BY TypeParts DEF IInv
<1>2. log' = log \cup {s} BY DEF Send
<1>3. RevsUnique'
  <2>1. \A e \in log : e.rev \in Nat /\ e.rev < s.rev
    BY <1>1 DEF Published, RevsUnique, Out, SnapshotType
  <2>2. QED BY <1>1, <1>2, <2>1 DEF Published, RevsUnique, Out
<1>4. WirePublished'
  <2> SUFFICES ASSUME NEW t \in Tab, NEW i \in 1..Len(down'[t])
               PROVE  Carried(down'[t][i], log')
    BY DEF WirePublished
  <2>1. \A j \in 1..Len(down[t]) : Carried(down[t][j], log')
    BY <1>2, CarriedKept DEF Published, WirePublished
  <2>2. PICK rest \in {<<>>, <<m>>} :
          down'[t] = IF t \notin sinks THEN down[t] ELSE down[t] \o before[t] \o rest
    BY DEF Send
  <2>3. CASE t \notin sinks BY <2>1, <2>2, <2>3
  <2>4. CASE t \in sinks
    <3>1. down[t] \in Seq(DownType) /\ rest \in Seq(DownType) /\ before[t] \in Seq(DownType)
      <4>1. before[t] \in Seq(Plain) OBVIOUS
      <4>2. Plain \subseteq DownType BY DEF Plain
      <4>3. before[t] \in Seq(DownType) BY <4>1, <4>2, SeqMonotonic
      <4>4. <<>> \in Seq(DownType) /\ <<m>> \in Seq(DownType) OBVIOUS
      <4>5. down[t] \in Seq(DownType) BY <1>1 DEF Out
      <4>6. QED BY <4>3, <4>4, <4>5
    <3>2. \A j \in 1..Len(before[t]) : Carried(before[t][j], log')
      <4>1. \A j \in 1..Len(before[t]) : before[t][j] \in Plain BY ElementOfSeq
      <4>2. QED BY <4>1 DEF Plain, Carried
    <3>3. \A j \in 1..Len(rest) : Carried(rest[j], log')
      <4>1. CASE rest = <<>> BY <4>1
      <4>2. CASE rest = <<m>>
        <5>1. Len(rest) = 1 /\ rest[1] = m BY <4>2
        <5>2. \A j \in 1..Len(rest) : rest[j] = m BY <5>1
        <5>3. QED BY <5>2
      <4>3. QED BY <4>1, <4>2
    <3>4. down[t] \o before[t] \in Seq(DownType) BY <3>1, ConcatProperties
    <3>5. down'[t] = (down[t] \o before[t]) \o rest BY <2>2, <2>4
    <3>6. CASE \E j \in 1..Len(rest) : down'[t][i] = rest[j]
      BY <3>3, <3>6
    <3>7. CASE \E j \in 1..Len(down[t] \o before[t]) : down'[t][i] = (down[t] \o before[t])[j]
      <4>1. PICK j \in 1..Len(down[t] \o before[t]) : down'[t][i] = (down[t] \o before[t])[j]
        BY <3>7
      <4>2. \/ \E k \in 1..Len(down[t]) : down'[t][i] = down[t][k]
            \/ \E k \in 1..Len(before[t]) : down'[t][i] = before[t][k]
        BY <3>1, <4>1, ConcatElement
      <4>3. QED BY <2>1, <3>2, <4>2
    <3>8. QED BY <3>1, <3>4, <3>5, <3>6, <3>7, ConcatElement
  <2>5. QED BY <2>3, <2>4
<1>5. QED BY <1>2, <1>3, <1>4

LEMMA SpeaksPublished ==
  ASSUME IInv, TypeOK', Published, Speaks, UNCHANGED <<view, cache>>
  PROVE  Published'
<1>1. Out /\ log' \subseteq SnapshotType BY TypeParts DEF IInv, TypeOK
<1>2. CASE Unsent
  BY <1>2 DEF Unsent, Published, RevsUnique, EmittedPublished, WirePublished,
              ShownWasPublished, Carried
<1>3. ASSUME NEW forceFull \in BOOLEAN, NEW sinks \in SUBSET Tab,
             NEW before \in [Tab -> Seq(Plain)], NEW armed \in SUBSET Tab,
             EmitSnapshotNow(forceFull, sinks, before, armed)
      PROVE  Published'
  <2> DEFINE c == active'
             messages == msgs'[c]
             s == Snapshot(c, snapRev + 1, messages, FALSE)
             m == SnapshotMsg(c, messages, forceFull)
  <2>1. /\ snapRev' = snapRev + 1
        /\ emitted' = [conv |-> c, msgs |-> messages, rev |-> snapRev + 1]
        /\ Send(m, s, sinks, before, armed)
    BY <1>3 DEF EmitSnapshotNow
  <2>2. log' = log \cup {s} BY <2>1 DEF Send
  <2>3. s \in SnapshotType BY <1>1, <2>2
  <2>4. c \in Conv /\ messages \in Seq(Msg) /\ s.rev = snapRev + 1
    BY <2>3 DEF SnapshotType, Snapshot
  <2>5. m \in DownType BY <1>1, <2>4, SnapshotMsgType
  <2>6. Carried(m, log')
    <3>1. CASE Incremental(c, messages, forceFull)
      <4> DEFINE rest == SubSeq(messages, Len(emitted.msgs) + 1, Len(messages))
                 e == Snapshot(emitted.conv, emitted.rev, emitted.msgs, FALSE)
      <4>1. m = DeltaMsg(c, snapRev + 1, emitted.rev, rest) BY <3>1 DEF SnapshotMsg
      <4>2. emitted.conv = c /\ IsPrefix(emitted.msgs, messages) /\ emitted.msgs \in Seq(Msg)
        BY <1>1, <3>1 DEF Incremental, Out
      <4>3. e \in log BY <2>4, <4>2, ConstantsAssumption DEF Published, EmittedPublished
      <4>4. emitted.msgs \o rest = messages BY <2>4, <4>2, PrefixRest
      <4>5. e.conv = c /\ e.rev = emitted.rev /\ ~e.booting /\ e.msgs = emitted.msgs
        BY <4>2 DEF Snapshot
      <4>6. Snapshot(c, snapRev + 1, e.msgs \o rest, FALSE) \in log' BY <2>2, <4>4, <4>5
      <4>7. /\ m.type = "snapshot_delta" /\ m.conv = c /\ m.rev = snapRev + 1
            /\ m.base = emitted.rev /\ m.appended = rest
        BY <4>1 DEF DeltaMsg
      <4> HIDE DEF rest, e, m, s, c, messages
      <4>8. e \in log' BY <2>2, <4>3
      <4>9. QED BY <4>5, <4>6, <4>7, <4>8 DEF Carried
    <3>2. CASE ~Incremental(c, messages, forceFull)
      <4>1. m.type = "snapshot" /\ m.state = s BY <3>2 DEF SnapshotMsg, FullMsg
      <4>2. QED BY <2>2, <4>1 DEF Carried
    <3>3. QED BY <3>1, <3>2
  <2> HIDE DEF m, s, c, messages
  <2>7. RevsUnique' /\ WirePublished' BY <2>1, <2>3, <2>4, <2>5, <2>6, SendPublished
  <2>8. EmittedPublished' BY <2>1, <2>2 DEF EmittedPublished, s
  <2>9. ShownWasPublished' BY <2>2 DEF Published, ShownWasPublished
  <2>10. QED BY <2>7, <2>8, <2>9 DEF Published
<1>4. ASSUME NEW c \in Conv, c \in used', c \notin used, EmitSessionPreview(c)
      PROVE  Published'
  <2> DEFINE s == Snapshot(c, snapRev + 1, msgs'[c], TRUE)
  <2>1. /\ snapRev' = snapRev + 1
        /\ emitted' = [conv |-> NoConv, msgs |-> <<>>, rev |-> snapRev + 1]
        /\ Send(FullMsg(s), s, Sinks, Nothing, Armed)
    BY <1>4 DEF EmitSessionPreview
  <2>2. log' = log \cup {s} BY <2>1 DEF Send
  <2>3. s \in SnapshotType /\ s.rev = snapRev + 1 BY <1>1, <2>2 DEF Snapshot
  <2>4. Nothing \in [Tab -> Seq(Plain)]
    <3>1. <<>> \in Seq(Plain) OBVIOUS
    <3>2. QED BY <3>1 DEF Nothing
  <2> HIDE DEF s
  <2>5. FullMsg(s) \in DownType BY <2>3 DEF FullMsg, DownType
  <2>6. Carried(FullMsg(s), log') BY <2>2 DEF Carried, FullMsg
  <2>7. RevsUnique' /\ WirePublished'
    BY <2>1, <2>3, <2>4, <2>5, <2>6, NothingType, SendPublished
  <2>8. EmittedPublished' BY <2>1 DEF EmittedPublished
  <2>9. ShownWasPublished' BY <2>2 DEF Published, ShownWasPublished
  <2>10. QED BY <2>7, <2>8, <2>9 DEF Published
<1>5. QED BY <1>2, <1>3, <1>4 DEF Speaks

LEMMA PlainSends ==
  ASSUME TypeOK'
  PROVE  /\ Nothing \in [Tab -> Seq(Plain)] /\ Conversations \in [Tab -> Seq(Plain)]
         /\ \A t \in Tab : [Conversations EXCEPT ![t] = Append(@, ReadyMsg)] \in [Tab -> Seq(Plain)]
<1>1. open' \in SUBSET Conv BY DEF TypeOK
<1>2. ListMsg(open') \in Plain /\ ReadyMsg \in Plain
  BY <1>1 DEF ListMsg, ReadyMsg, Plain, DownType
<1>3. <<>> \in Seq(Plain) /\ <<ListMsg(open')>> \in Seq(Plain) BY <1>2
<1>4. Conversations \in [Tab -> Seq(Plain)] BY <1>3 DEF Conversations
<1>5. \A t \in Tab : Append(Conversations[t], ReadyMsg) \in Seq(Plain)
  BY <1>2, <1>4, AppendProperties
<1>6. QED BY <1>3, <1>4, <1>5 DEF Nothing

LEMMA FlushSpeaks ==
  ASSUME TypeOK', \/ Silent \/ ScheduleSnapshot
                  \/ \E forceFull \in BOOLEAN : FlushSnapshot(forceFull) \/ FlushAfterList(forceFull)
  PROVE  Speaks
<1>1. CASE Silent \/ ScheduleSnapshot BY <1>1 DEF Silent, ScheduleSnapshot, Speaks
<1>2. ASSUME NEW forceFull \in BOOLEAN, FlushSnapshot(forceFull) \/ FlushAfterList(forceFull)
      PROVE  Speaks
  <2>1. \/ EmitSnapshotNow(forceFull, Sinks, Nothing, Armed)
        \/ EmitSnapshotNow(forceFull, Sinks, Conversations, Armed)
    BY <1>2 DEF FlushSnapshot, FlushAfterList
  <2>2. QED BY <2>1, PlainSends, NothingType DEF Speaks
<1>3. QED BY <1>1, <1>2

LEMMA ServerSpeaks ==
  ASSUME TypeOK',
         \/ SnapshotTimer
         \/ \E c \in Conv : OnEvent(c) \/ Opened(c)
         \/ \E t \in Tab : SnapshotRetry(t) \/ Served(t)
  PROVE  Speaks /\ UNCHANGED <<view, cache>>
<1>1. CASE SnapshotTimer BY <1>1, FlushSpeaks DEF SnapshotTimer, tabs
<1>2. ASSUME NEW c \in Conv, OnEvent(c) PROVE Speaks /\ UNCHANGED <<view, cache>>
  BY <1>2, FlushSpeaks DEF OnEvent, tabs
<1>3. ASSUME NEW c \in Conv, Opened(c) PROVE Speaks /\ UNCHANGED <<view, cache>>
  <2>1. UNCHANGED tabs
    BY <1>3 DEF Opened, SessionBooted, SessionBound, SessionRefused, SessionFails,
                NewChatBooted, NewChatBound, NewChatFails
  <2>2. Silent \/ FlushSnapshot(TRUE) \/ FlushSnapshot(FALSE)
          \/ FlushAfterList(TRUE) \/ FlushAfterList(FALSE)
    BY <1>3 DEF Opened, SessionBooted, SessionBound, SessionRefused, SessionFails,
                NewChatBooted, NewChatBound, NewChatFails
  <2>3. QED BY <2>1, <2>2, FlushSpeaks DEF tabs
<1>4. ASSUME NEW t \in Tab, SnapshotRetry(t) PROVE Speaks /\ UNCHANGED <<view, cache>>
  <2>1. EmitSnapshotNow(FALSE, Sinks, Nothing, Armed \ {t}) /\ UNCHANGED tabs
    BY <1>4 DEF SnapshotRetry
  <2>2. Armed \ {t} \in SUBSET Tab BY NothingType
  <2>3. Speaks BY <2>1, <2>2, NothingType, PlainSends DEF Speaks
  <2>4. QED BY <2>1, <2>3 DEF tabs
<1>5. ASSUME NEW t \in Tab, Served(t) PROVE Speaks /\ UNCHANGED <<view, cache>>
  <2>1. UNCHANGED <<view, cache>>
    BY <1>5 DEF Served, TakeHello, TakeGetState, TakeSwitch, TakeNewChat,
                TakeSwitchSession, TakePrompt, Take, tabs
  <2>2. ASSUME NEW c, SwitchConversation(c) PROVE Speaks
    BY <2>2, FlushSpeaks DEF SwitchConversation
  <2>3. ASSUME TakeHello(t) PROVE Speaks
    <3>1. EmitSnapshotNow(FALSE, Sinks \cup {t},
            [Conversations EXCEPT ![t] = Append(@, ReadyMsg)], Armed)
      BY <2>3 DEF TakeHello
    <3>2. Sinks \cup {t} \in SUBSET Tab BY NothingType
    <3>3. QED BY <3>1, <3>2, NothingType, PlainSends DEF Speaks
  <2>4. ASSUME TakeGetState(t) PROVE Speaks BY <2>4, FlushSpeaks DEF TakeGetState
  <2>5. ASSUME TakeSwitch(t) PROVE Speaks BY <2>2, <2>5 DEF TakeSwitch
  <2>6. ASSUME TakeNewChat(t) PROVE Speaks BY <2>6, FlushSpeaks DEF TakeNewChat
  <2>7. ASSUME TakeSwitchSession(t) PROVE Speaks
    BY <2>2, <2>7, FlushSpeaks DEF TakeSwitchSession, Speaks
  <2>8. ASSUME TakePrompt(t) PROVE Speaks BY <2>8, FlushSpeaks DEF TakePrompt
  <2>9. Speaks BY <1>5, <2>3, <2>4, <2>5, <2>6, <2>7, <2>8 DEF Served
  <2>10. QED BY <2>1, <2>9
<1>6. QED BY <1>1, <1>2, <1>3, <1>4, <1>5

(* A tab takes a message: what it shows and keeps then was published.       *)
LEMMA ReceivePublished ==
  ASSUME IInv, Published, NEW t \in Tab, NEW type, Receive(t, type), ShownWasPublished'
  PROVE  Published'
<1>1. Out BY TypeParts DEF IInv
<1>2. down' = [down EXCEPT ![t] = Tail(@)] /\ down[t] # <<>>
      /\ UNCHANGED <<snapRev, emitted, log>>
  BY DEF Receive, emitter
<1>3. down[t] \in Seq(DownType) BY <1>1 DEF Out
<1>4. down'[t] = Tail(down[t]) BY <1>1, <1>2 DEF Out
<1>5. Len(Tail(down[t])) = Len(down[t]) - 1
      /\ \A i \in 1..Len(Tail(down[t])) : Tail(down[t])[i] = down[t][i + 1]
  BY <1>2, <1>3, HeadTailProperties
<1>6. \A i \in 1..Len(down'[t]) : Carried(down'[t][i], log)
  <2>1. Len(down[t]) \in Nat BY <1>3
  <2>2. QED BY <1>4, <1>5, <2>1 DEF Published, WirePublished
<1>7. \A x \in Tab : x # t => down'[x] = down[x] BY <1>1, <1>2 DEF Out
<1>8. WirePublished' BY <1>2, <1>6, <1>7 DEF Published, WirePublished
<1>9. RevsUnique' /\ EmittedPublished'
  BY <1>2 DEF Published, RevsUnique, EmittedPublished
<1>10. QED BY <1>8, <1>9 DEF Published

LEMMA HeadCarried ==
  ASSUME IInv, Published, NEW t \in Tab, NEW type, Receive(t, type)
  PROVE  Carried(Head(down[t]), log)
<1>1. down[t] \in Seq(DownType) /\ down[t] # <<>> BY TypeParts DEF IInv, Out, Receive
<1>2. Len(down[t]) \in Nat \ {0} BY <1>1, EmptySeq
<1>3. 1 \in 1..Len(down[t]) /\ Head(down[t]) = down[t][1] BY <1>1, <1>2
<1>4. QED BY <1>3 DEF Published, WirePublished

(* A merge of a published state with a delta that chains on it.             *)
LEMMA MergedPublished ==
  ASSUME IInv, Published, NEW s \in log \cup {NoSnapshot}, NEW d \in DownType,
         d.type = "snapshot_delta", Carried(d, log), Chains(s, d)
  PROVE  Merged(s, d) \in log
<1>1. PICK e \in log :
        /\ e.conv = d.conv /\ e.rev = d.base /\ ~e.booting
        /\ Snapshot(d.conv, d.rev, e.msgs \o d.appended, FALSE) \in log
  BY DEF Carried
<1>2. d.conv \in Conv BY DEF DownType
<1>3. s \in log BY <1>2, BlankIs, ConstantsAssumption DEF Chains
<1>4. s = e BY <1>1, <1>3 DEF Chains, Published, RevsUnique
<1>5. e \in SnapshotType BY TypeParts DEF IInv, Out
<1>6. Merged(e, d) = Snapshot(d.conv, d.rev, e.msgs \o d.appended, FALSE)
  <2>1. e.booting = FALSE BY <1>1, <1>5 DEF SnapshotType
  <2>2. QED BY <1>1, <2>1 DEF Merged
<1>7. QED BY <1>1, <1>4, <1>6

LEMMA CachePublished ==
  ASSUME IInv, Published, NEW t \in Tab, NEW s \in log, CacheSnapshot(t, s)
  PROVE  \A x \in Tab, c \in Conv : cache'[x][c] \in log \cup {NoSnapshot}
<1>1. TabsOK /\ s.conv \in Conv BY TypeParts DEF IInv, Out, SnapshotType
<1>2. \A x \in Tab, c \in Conv : cache[x][c] \in log \cup {NoSnapshot}
  BY DEF Published, ShownWasPublished
<1>3. QED BY <1>1, <1>2 DEF CacheSnapshot, TabsOK

LEMMA ReceivedPublished ==
  ASSUME IInv, Published, NEW t \in Tab, Received(t)
  PROVE  Published'
<1>1. Out /\ TabsOK BY TypeParts DEF IInv
<1>2. /\ \A x \in Tab : view[x] \in log \cup {NoSnapshot}
      /\ \A x \in Tab, c \in Conv : cache[x][c] \in log \cup {NoSnapshot}
  BY DEF Published, ShownWasPublished
<1>3. UNCHANGED log
  BY DEF Received, ReceiveReady, ReceiveConversations, ReceiveSnapshot, ReceiveDelta, Receive
<1>4. CASE ReceiveReady(t)
  <2>1. Receive(t, "ready") /\ UNCHANGED <<view, cache>> BY <1>4 DEF ReceiveReady
  <2>2. ShownWasPublished' BY <1>2, <1>3, <2>1 DEF ShownWasPublished
  <2>3. QED BY <2>1, <2>2, ReceivePublished
<1>5. CASE ReceiveConversations(t)
  <2> DEFINE convs == Head(down[t]).convs
  <2>1. /\ Receive(t, "conversations") /\ UNCHANGED view
        /\ cache' = [cache EXCEPT ![t] =
                      [c \in Conv |-> IF c \in convs THEN @[c] ELSE NoSnapshot]]
    BY <1>5 DEF ReceiveConversations
  <2> HIDE DEF convs
  <2>2. \A x \in Tab, c \in Conv : cache'[x][c] \in log \cup {NoSnapshot}
    BY <1>1, <1>2, <2>1 DEF TabsOK
  <2>3. ShownWasPublished' BY <1>2, <1>3, <2>1, <2>2 DEF ShownWasPublished
  <2>4. QED BY <2>1, <2>3, ReceivePublished
<1>6. CASE ReceiveSnapshot(t)
  <2> DEFINE s == Head(down[t]).state
  <2>1. Receive(t, "snapshot") /\ view' = [view EXCEPT ![t] = s] /\ CacheSnapshot(t, s)
    BY <1>6 DEF ReceiveSnapshot
  <2>2. s \in log BY <1>1, <2>1, HeadReceived, HeadCarried DEF Carried
  <2> HIDE DEF s
  <2>3. \A x \in Tab, c \in Conv : cache'[x][c] \in log \cup {NoSnapshot}
    BY <2>1, <2>2, CachePublished
  <2>4. \A x \in Tab : view'[x] \in log \cup {NoSnapshot}
    BY <1>1, <1>2, <2>1, <2>2 DEF TabsOK
  <2>5. ShownWasPublished' BY <1>3, <2>3, <2>4 DEF ShownWasPublished
  <2>6. QED BY <2>1, <2>5, ReceivePublished
<1>7. CASE ReceiveDelta(t)
  <2> DEFINE d == Head(down[t])
             cached == cache[t][d.conv]
  <2>1. /\ Receive(t, "snapshot_delta")
        /\ \/ /\ Chains(view[t], d)
              /\ view' = [view EXCEPT ![t] = Merged(@, d)]
              /\ CacheSnapshot(t, Merged(view[t], d))
           \/ /\ ~Chains(view[t], d)
              /\ IF Chains(cached, d) THEN CacheSnapshot(t, Merged(cached, d))
                                      ELSE UNCHANGED cache
              /\ UNCHANGED view
    BY <1>7 DEF ReceiveDelta
  <2>2. d \in DownType /\ d.type = "snapshot_delta" /\ Carried(d, log)
    BY <1>1, <2>1, HeadReceived, HeadCarried
  <2>3. d.conv \in Conv BY <2>2 DEF DownType
  <2>4. view[t] \in log \cup {NoSnapshot} /\ cached \in log \cup {NoSnapshot}
    BY <1>2, <2>3
  <2> HIDE DEF d, cached
  <2>5. /\ \A x \in Tab : view'[x] \in log \cup {NoSnapshot}
        /\ \A x \in Tab, c \in Conv : cache'[x][c] \in log \cup {NoSnapshot}
    <3>1. CASE Chains(view[t], d)
      <4>1. Merged(view[t], d) \in log BY <2>2, <2>4, <3>1, MergedPublished
      <4>2. view' = [view EXCEPT ![t] = Merged(view[t], d)] /\ CacheSnapshot(t, Merged(view[t], d))
        BY <2>1, <3>1
      <4>3. QED BY <1>1, <1>2, <4>1, <4>2, CachePublished DEF TabsOK
    <3>2. CASE ~Chains(view[t], d) /\ Chains(cached, d)
      <4>1. Merged(cached, d) \in log BY <2>2, <2>4, <3>2, MergedPublished
      <4>2. UNCHANGED view /\ CacheSnapshot(t, Merged(cached, d)) BY <2>1, <3>2
      <4>3. QED BY <1>2, <4>1, <4>2, CachePublished
    <3>3. CASE ~Chains(view[t], d) /\ ~Chains(cached, d) BY <1>2, <2>1, <3>3
    <3>4. QED BY <3>1, <3>2, <3>3
  <2>6. ShownWasPublished' BY <1>3, <2>5 DEF ShownWasPublished
  <2>7. QED BY <2>1, <2>6, ReceivePublished
<1>8. QED BY <1>4, <1>5, <1>6, <1>7 DEF Received

(* A tab acts, connects or loses its socket: it shows what it had or what   *)
(* it kept.                                                                 *)
LEMMA TabPublished ==
  ASSUME IInv, Published, NEW t \in Tab,
         \/ Clicked(t) \/ ClickTimeout(t) \/ ScheduledResync(t)
         \/ Connect(t) \/ Disconnect(t)
  PROVE  Published'
<1>1. Out /\ TabsOK BY TypeParts DEF IInv
<1>2. UNCHANGED <<snapRev, emitted, log, cache>>
  BY DEF Clicked, ClickSwitch, ClickNewChat, ClickSession, SendPrompt, ClickTimeout,
         ScheduledResync, Connect, Disconnect, InTab, emitter, tabs
<1>3. RevsUnique' /\ EmittedPublished'
  BY <1>2 DEF Published, RevsUnique, EmittedPublished
<1>4. WirePublished'
  <2>1. CASE Disconnect(t)
    <3>1. down' = [down EXCEPT ![t] = <<>>] BY <2>1 DEF Disconnect
    <3>2. down'[t] = <<>> /\ \A x \in Tab : x # t => down'[x] = down[x]
      BY <1>1, <3>1 DEF Out
    <3>3. \A i \in 1..Len(down'[t]) : FALSE BY <3>2
    <3>4. QED BY <1>2, <3>2, <3>3 DEF Published, WirePublished
  <2>2. CASE ~Disconnect(t)
    <3>1. UNCHANGED down
      BY <2>2 DEF Clicked, ClickSwitch, ClickNewChat, ClickSession, SendPrompt,
                  ClickTimeout, ScheduledResync, Connect, InTab
    <3>2. QED BY <1>2, <3>1 DEF Published, WirePublished
  <2>3. QED BY <2>1, <2>2
<1>5. \A x \in Tab : view'[x] \in log \cup {NoSnapshot}
  <2>1. /\ \A x \in Tab : view[x] \in log \cup {NoSnapshot}
        /\ \A c \in Conv : cache[t][c] \in log \cup {NoSnapshot}
    BY DEF Published, ShownWasPublished
  <2>2. ASSUME NEW c \in Conv, ClickSwitch(t, c)
        PROVE  UNCHANGED view \/ view' = [view EXCEPT ![t] = cache[t][c]]
    BY <2>2, <1>1 DEF ClickSwitch, TabsOK
  <2>3. CASE ~\E c \in Conv : ClickSwitch(t, c)
    <3>1. UNCHANGED view
      BY <2>3 DEF Clicked, ClickNewChat, ClickSession, SendPrompt, ClickTimeout,
                  ScheduledResync, Connect, Disconnect, tabs
    <3>2. QED BY <2>1, <3>1
  <2>4. QED BY <1>1, <2>1, <2>2, <2>3 DEF TabsOK
<1>6. ShownWasPublished' BY <1>2, <1>5 DEF Published, ShownWasPublished
<1>7. QED BY <1>3, <1>4, <1>6 DEF Published

LEMMA InitPublished == Init => Published
  BY BlankIs DEF Init, Published, RevsUnique, EmittedPublished, WirePublished,
                 ShownWasPublished, Nothing

LEMMA NextPublished ==
  ASSUME Budget["restart"] = 0
  PROVE  IInv /\ Published /\ [Next]_vars => Published'
<1> SUFFICES ASSUME IInv, Published, [Next]_vars PROVE Published'
  OBVIOUS
<1>1. IInv' /\ TypeOK' BY NextIInv DEF IInv
<1>2. CASE UNCHANGED vars
  <2>1. UNCHANGED <<snapRev, emitted, log, down, view, cache>>
    BY <1>2 DEF vars, emitter, wires, tabs
  <2>2. QED BY <2>1 DEF Published, RevsUnique, EmittedPublished, WirePublished,
                        ShownWasPublished
<1>3. CASE \/ SnapshotTimer
           \/ \E c \in Conv : OnEvent(c) \/ Opened(c)
           \/ \E t \in Tab : SnapshotRetry(t) \/ Served(t)
  BY <1>1, <1>3, ServerSpeaks, SpeaksPublished
<1>4. ASSUME NEW t \in Tab, Received(t) PROVE Published'
  BY <1>4, ReceivedPublished
<1>5. ASSUME NEW t \in Tab,
             \/ Clicked(t) \/ ClickTimeout(t) \/ ScheduledResync(t)
             \/ Connect(t) \/ Disconnect(t)
      PROVE  Published'
  BY <1>5, TabPublished
<1>6. CASE Restart
  <2>1. spent["restart"] \in Nat /\ spent["restart"] < 0
    BY <1>6, TypeParts DEF IInv, TabsOK, Kind, Restart, Spend
  <2>2. QED BY <2>1
<1>7. QED BY <1>2, <1>3, <1>4, <1>5, <1>6 DEF Next

(* While one server process lives, every state a tab shows, and every state *)
(* it keeps to paint at a click, is one the server published, message for   *)
(* message: for any number of tabs, drops, reconnects and overlapping       *)
(* openings, no delta is ever merged into a state it was not made for.      *)
THEOREM PublishedOnly ==
  ASSUME Budget["restart"] = 0
  PROVE  Spec => []ShownWasPublished
<1>1. Published => ShownWasPublished BY DEF Published
<1>2. QED BY <1>1, InitIInv, NextIInv, InitPublished, NextPublished, PTL DEF Spec

-----------------------------------------------------------------------------
(* The tabs implement the board.                                            *)

(* The messages that bring a state, and the revision they bring.            *)
News == {m \in DownType : m.type \in {"snapshot", "snapshot_delta"}}
RevOf(m) == IF m.type = "snapshot" THEN m.state.rev ELSE m.rev

(* A wire brings the revisions in their order, none below revision r.       *)
Ascends(q) ==
  \A i, j \in 1..Len(q) :
    i <= j /\ q[i] \in News /\ q[j] \in News => RevOf(q[i]) <= RevOf(q[j])
Above(q, r) == \A i \in 1..Len(q) : q[i] \in News => r <= RevOf(q[i])

(* What is under way to a tab is no older than what it shows or keeps.      *)
WireInOrder ==
  \A t \in Tab :
    /\ Ascends(down[t]) /\ Above(down[t], view[t].rev)
    /\ \A c \in Conv : Above(down[t], cache[t][c].rev)

(* The previews of a conversation come before all else that is published of *)
(* it: its id is new when it is previewed.                                  *)
PreviewsFirst ==
  /\ \A e \in log : e.conv \in used
  /\ \A s, e \in log : s.booting /\ e.conv = s.conv => s.rev <= e.rev

(* What a tab keeps of a conversation is of it, and no older than what it   *)
(* shows of it.                                                             *)
CacheIsCurrent ==
  \A t \in Tab, c \in Conv :
    /\ cache[t][c].conv \in {c, NoConv}
    /\ view[t].conv = c /\ cache[t][c] # NoSnapshot => view[t].rev <= cache[t][c].rev

BoardIInv == WireInOrder /\ PreviewsFirst /\ CacheIsCurrent

(* The revision a message brings is a number.                               *)
LEMMA NewsRev == \A m \in News : RevOf(m) \in Nat
  BY DEF News, RevOf, DownType, SnapshotType

(* What follows the first message of a wire in order is in order, and no    *)
(* older than that message.                                                 *)
LEMMA WireTail ==
  ASSUME NEW q \in Seq(DownType), q # <<>>, Ascends(q)
  PROVE  /\ Ascends(Tail(q))
         /\ \A r \in Nat : Above(q, r) => Above(Tail(q), r)
         /\ Head(q) \in News => Above(Tail(q), RevOf(Head(q)))
         /\ \A r \in Nat : Above(q, r) /\ Head(q) \in News => r <= RevOf(Head(q))
<1>1. /\ Len(q) \in Nat \ {0} /\ Len(Tail(q)) = Len(q) - 1 /\ Head(q) = q[1]
      /\ \A i \in 1..Len(Tail(q)) : Tail(q)[i] = q[i + 1]
  BY HeadTailProperties, EmptySeq, LenProperties
<1>2. \A i \in 1..Len(Tail(q)) : i + 1 \in 1..Len(q) /\ Tail(q)[i] = q[i + 1] /\ 1 <= i + 1
  BY <1>1
<1>3. 1 \in 1..Len(q) BY <1>1
<1>4. Ascends(Tail(q))
  <2> SUFFICES ASSUME NEW i \in 1..Len(Tail(q)), NEW j \in 1..Len(Tail(q)), i <= j,
                      Tail(q)[i] \in News, Tail(q)[j] \in News
               PROVE  RevOf(Tail(q)[i]) <= RevOf(Tail(q)[j])
    BY DEF Ascends
  <2>1. i + 1 <= j + 1 OBVIOUS
  <2>2. QED BY <2>1, <1>2 DEF Ascends
<1>5. QED BY <1>1, <1>2, <1>3, <1>4 DEF Ascends, Above

(* A message with the newest revision, sent last or dropped, keeps a wire   *)
(* in order.                                                                *)
LEMMA WireSent ==
  ASSUME NEW q \in Seq(DownType), NEW before \in Seq(Plain), NEW m \in News,
         NEW rest \in {<<>>, <<m>>}, \A i \in 1..Len(q) : q[i] \in News => RevOf(q[i]) <= RevOf(m)
  PROVE  /\ Ascends(q) => Ascends((q \o before) \o rest)
         /\ \A r \in Nat : r <= RevOf(m) /\ Above(q, r) => Above((q \o before) \o rest, r)
<1> DEFINE a == q \o before
           b == a \o rest
<1>1. Plain \subseteq DownType /\ Plain \cap News = {} BY DEF Plain, News
<1>2. before \in Seq(DownType) /\ \A i \in 1..Len(before) : before[i] \in Plain
  BY <1>1, SeqMonotonic, ElementOfSeq
<1>3. m \in DownType BY DEF News
<1>4. rest \in Seq(DownType) /\ Len(rest) \in {0, 1} /\ \A i \in 1..Len(rest) : rest[i] = m
  <2>1. CASE rest = <<>> BY <2>1
  <2>2. CASE rest = <<m>> BY <2>2, <1>3
  <2>3. QED BY <2>1, <2>2
<1>5. /\ a \in Seq(DownType) /\ Len(a) = Len(q) + Len(before)
      /\ \A i \in 1..Len(q) + Len(before) :
           a[i] = IF i <= Len(q) THEN q[i] ELSE before[i - Len(q)]
  BY <1>2, ConcatProperties
<1>6. /\ Len(b) = Len(a) + Len(rest)
      /\ \A i \in 1..Len(a) + Len(rest) :
           b[i] = IF i <= Len(a) THEN a[i] ELSE rest[i - Len(a)]
  BY <1>4, <1>5, ConcatProperties
<1>7. Len(q) \in Nat /\ Len(before) \in Nat /\ Len(rest) \in Nat
  BY <1>2, <1>4, LenProperties
<1> HIDE DEF a, b
<1>8. \A i \in 1..Len(b) : b[i] \in News =>
        \/ i \in 1..Len(q) /\ b[i] = q[i]
        \/ i > Len(a) /\ b[i] = m
  <2> SUFFICES ASSUME NEW i \in 1..Len(b), b[i] \in News
               PROVE  \/ i \in 1..Len(q) /\ b[i] = q[i]
                      \/ i > Len(a) /\ b[i] = m
    OBVIOUS
  <2>1. CASE i <= Len(q) BY <2>1, <1>5, <1>6, <1>7
  <2>2. CASE i > Len(q) /\ i <= Len(a)
    <3>1. i - Len(q) \in 1..Len(before) /\ b[i] = before[i - Len(q)]
      BY <2>2, <1>5, <1>6, <1>7
    <3>2. QED BY <3>1, <1>1, <1>2
  <2>3. CASE i > Len(a)
    <3>1. i - Len(a) \in 1..Len(rest) /\ b[i] = rest[i - Len(a)]
      BY <2>3, <1>5, <1>6, <1>7
    <3>2. QED BY <2>3, <3>1, <1>4
  <2>4. QED BY <2>1, <2>2, <2>3, <1>5, <1>7
<1>9. Len(a) >= Len(q) /\ Len(a) \in Nat /\ RevOf(m) \in Nat BY <1>5, <1>7, NewsRev
<1>10. ASSUME Ascends(q) PROVE Ascends(b)
  <2> SUFFICES ASSUME NEW i \in 1..Len(b), NEW j \in 1..Len(b), i <= j,
                      b[i] \in News, b[j] \in News
               PROVE  RevOf(b[i]) <= RevOf(b[j])
    BY DEF Ascends
  <2>1. CASE j \in 1..Len(q) /\ b[j] = q[j]
    <3>1. ~(i > Len(a)) BY <2>1, <1>9
    <3>2. i \in 1..Len(q) /\ b[i] = q[i] BY <3>1, <1>8
    <3>3. QED BY <2>1, <3>2, <1>10 DEF Ascends
  <2>2. CASE b[j] = m
    <3>1. CASE i \in 1..Len(q) /\ b[i] = q[i] BY <2>2, <3>1
    <3>2. CASE b[i] = m BY <2>2, <3>2, <1>9
    <3>3. QED BY <3>1, <3>2, <1>8
  <2>3. QED BY <2>1, <2>2, <1>8
<1>11. ASSUME NEW r \in Nat, r <= RevOf(m), Above(q, r) PROVE Above(b, r)
  BY <1>8, <1>11 DEF Above
<1>12. QED BY <1>10, <1>11 DEF a, b

(* A new state under the newest revision is published on the board.         *)
LEMMA NewsBoard ==
  ASSUME IInv, Published, BoardIInv, UNCHANGED <<view, cache>>, used \subseteq used',
         NEW s \in SnapshotType, s.rev = snapRev + 1, s.conv \in used',
         s.booting => s.conv \notin used,
         NEW m \in News, RevOf(m) = s.rev, NEW sinks \in SUBSET Tab,
         NEW before \in [Tab -> Seq(Plain)], NEW armed \in SUBSET Tab,
         Send(m, s, sinks, before, armed)
  PROVE  BoardIInv' /\ Board!Publish
<1>1. Out /\ TabsOK BY TypeParts DEF IInv
<1>2. log' = log \cup {s} BY DEF Send
<1>3. \A e \in log : e \in SnapshotType /\ e.rev \in Nat /\ e.rev < s.rev
  BY <1>1 DEF Published, RevsUnique, Out, SnapshotType
<1>4. s.rev \in Nat BY DEF SnapshotType
<1>5. Board!Publish
  <2>1. s \in log' /\ \A older \in log : older.rev < s.rev BY <1>2, <1>3
  <2>2. QED BY <1>2, <2>1 DEF Board!Publish
<1>6. PreviewsFirst'
  <2>1. \A e \in log' : e.conv \in used' BY <1>2 DEF BoardIInv, PreviewsFirst
  <2>2. ASSUME NEW p \in log', NEW e \in log', p.booting, e.conv = p.conv
        PROVE  p.rev <= e.rev
    <3>1. CASE p \in log /\ e \in log BY <2>2, <3>1 DEF BoardIInv, PreviewsFirst
    <3>2. CASE e = s BY <1>2, <1>3, <1>4, <3>2
    <3>3. CASE p = s /\ e \in log
      BY <2>2, <3>3 DEF BoardIInv, PreviewsFirst
    <3>4. QED BY <1>2, <3>1, <3>2, <3>3
  <2>3. QED BY <2>1, <2>2 DEF PreviewsFirst
<1>7. CacheIsCurrent' BY DEF BoardIInv, CacheIsCurrent
<1>8. WireInOrder'
  <2> SUFFICES ASSUME NEW t \in Tab
               PROVE  /\ Ascends(down'[t]) /\ Above(down'[t], view[t].rev)
                      /\ \A c \in Conv : Above(down'[t], cache[t][c].rev)
    BY DEF WireInOrder
  <2>1. PICK rest \in {<<>>, <<m>>} :
          down'[t] = IF t \notin sinks THEN down[t] ELSE (down[t] \o before[t]) \o rest
    BY DEF Send
  <2>2. /\ Ascends(down[t]) /\ Above(down[t], view[t].rev)
        /\ \A c \in Conv : Above(down[t], cache[t][c].rev)
    BY DEF BoardIInv, WireInOrder
  <2>3. down[t] \in Seq(DownType) /\ before[t] \in Seq(Plain) BY <1>1 DEF Out
  <2>4. \A e \in log \cup {NoSnapshot} : e.rev \in Nat /\ e.rev <= RevOf(m)
    BY <1>3, <1>4, BlankIs
  <2>5. \A i \in 1..Len(down[t]) : down[t][i] \in News => RevOf(down[t][i]) <= RevOf(m)
    <3> SUFFICES ASSUME NEW i \in 1..Len(down[t]), down[t][i] \in News
                 PROVE  RevOf(down[t][i]) <= RevOf(m)
      OBVIOUS
    <3> DEFINE n == down[t][i]
    <3>1. Carried(n, log) BY DEF Published, WirePublished
    <3> HIDE DEF n
    <3>2. n \in News BY DEF n
    <3>3. CASE n.type = "snapshot"
      <4>1. n.state \in log /\ RevOf(n) = n.state.rev BY <3>1, <3>3 DEF Carried, RevOf
      <4>2. QED BY <4>1, <2>4 DEF n
    <3>4. CASE n.type = "snapshot_delta"
      <4>1. \E e \in log : e.rev = n.rev
        BY <3>1, <3>4 DEF Carried, Snapshot
      <4>2. RevOf(n) = n.rev BY <3>4 DEF RevOf
      <4>3. QED BY <4>1, <4>2, <2>4 DEF n
    <3>5. QED BY <3>2, <3>3, <3>4 DEF News
  <2>6. view[t] \in log \cup {NoSnapshot} /\ \A c \in Conv : cache[t][c] \in log \cup {NoSnapshot}
    BY DEF Published, ShownWasPublished
  <2>7. /\ view[t].rev \in Nat /\ view[t].rev <= RevOf(m)
        /\ \A c \in Conv : cache[t][c].rev \in Nat /\ cache[t][c].rev <= RevOf(m)
    BY <2>4, <2>6
  <2>8. CASE t \notin sinks BY <2>1, <2>2, <2>8
  <2>9. CASE t \in sinks
    <3> DEFINE q == down[t]
    <3>1. q \in Seq(DownType) /\ \A i \in 1..Len(q) : q[i] \in News => RevOf(q[i]) <= RevOf(m)
      BY <2>3, <2>5
    <3>2. Ascends(q) BY <2>2
    <3> HIDE DEF q
    <3>3. /\ Ascends((q \o before[t]) \o rest)
          /\ \A r \in Nat : r <= RevOf(m) /\ Above(q, r) => Above((q \o before[t]) \o rest, r)
      BY <2>3, <3>1, <3>2, WireSent
    <3>4. down'[t] = (q \o before[t]) \o rest BY <2>1, <2>9 DEF q
    <3>5. Above(q, view[t].rev) /\ \A c \in Conv : Above(q, cache[t][c].rev)
      BY <2>2 DEF q
    <3>6. QED BY <3>3, <3>4, <3>5, <2>7
  <2>10. QED BY <2>8, <2>9
<1>9. QED BY <1>5, <1>6, <1>7, <1>8 DEF BoardIInv

LEMMA SpeaksBoard ==
  ASSUME IInv, TypeOK', Published, BoardIInv, Speaks, UNCHANGED <<view, cache>>,
         used \subseteq used'
  PROVE  BoardIInv' /\ [Board!Next]_<<log, view>>
<1>1. Out /\ log' \subseteq SnapshotType BY TypeParts DEF IInv, TypeOK
<1>2. CASE Unsent
  BY <1>2 DEF Unsent, BoardIInv, WireInOrder, PreviewsFirst, CacheIsCurrent
<1>3. ASSUME NEW forceFull \in BOOLEAN, NEW sinks \in SUBSET Tab,
             NEW before \in [Tab -> Seq(Plain)], NEW armed \in SUBSET Tab,
             EmitSnapshotNow(forceFull, sinks, before, armed)
      PROVE  BoardIInv' /\ Board!Publish
  <2> DEFINE c == active'
             messages == msgs'[c]
             s == Snapshot(c, snapRev + 1, messages, FALSE)
             m == SnapshotMsg(c, messages, forceFull)
  <2>1. Send(m, s, sinks, before, armed) BY <1>3 DEF EmitSnapshotNow
  <2>2. s \in SnapshotType BY <1>1, <2>1 DEF Send
  <2>3. c \in Conv /\ messages \in Seq(Msg) /\ s.rev = snapRev + 1 /\ s.conv = c /\ ~s.booting
    BY <2>2 DEF SnapshotType, Snapshot
  <2>4. m \in DownType BY <1>1, <2>3, SnapshotMsgType
  <2>5. m \in News /\ RevOf(m) = snapRev + 1
    <3>1. CASE Incremental(c, messages, forceFull)
      <4>1. m.type = "snapshot_delta" /\ m.rev = snapRev + 1
        BY <3>1 DEF SnapshotMsg, DeltaMsg
      <4>2. QED BY <2>4, <4>1 DEF News, RevOf
    <3>2. CASE ~Incremental(c, messages, forceFull)
      <4>1. m.type = "snapshot" /\ m.state = s BY <3>2 DEF SnapshotMsg, FullMsg
      <4>2. QED BY <2>3, <2>4, <4>1 DEF News, RevOf
    <3>3. QED BY <3>1, <3>2
  <2>6. c \in used' BY <2>3, ConstantsAssumption DEF TypeOK
  <2> HIDE DEF m, s, c, messages
  <2>7. QED BY <2>1, <2>2, <2>3, <2>5, <2>6, NewsBoard
<1>4. ASSUME NEW c \in Conv, c \in used', c \notin used, EmitSessionPreview(c)
      PROVE  BoardIInv' /\ Board!Publish
  <2> DEFINE s == Snapshot(c, snapRev + 1, msgs'[c], TRUE)
             m == FullMsg(s)
  <2>1. Send(m, s, Sinks, Nothing, Armed) BY <1>4 DEF EmitSessionPreview
  <2>2. s \in SnapshotType /\ s.rev = snapRev + 1 /\ s.conv = c
    BY <1>1, <2>1 DEF Send, Snapshot
  <2>3. m \in News /\ RevOf(m) = s.rev BY <2>2 DEF FullMsg, DownType, News, RevOf
  <2>4. Nothing \in [Tab -> Seq(Plain)]
    <3>1. <<>> \in Seq(Plain) OBVIOUS
    <3>2. QED BY <3>1 DEF Nothing
  <2> HIDE DEF m, s
  <2>5. QED BY <1>4, <2>1, <2>2, <2>3, <2>4, NothingType, NewsBoard
<1>5. QED BY <1>2, <1>3, <1>4 DEF Speaks, Board!Next

(* An id that was given out stays given out while the process lives.        *)
LEMMA UsedGrows ==
  ASSUME \/ SnapshotTimer
         \/ \E c \in Conv : OnEvent(c) \/ Opened(c)
         \/ \E t \in Tab : SnapshotRetry(t) \/ Served(t)
  PROVE  used \subseteq used'
<1>1. CASE SnapshotTimer BY <1>1 DEF SnapshotTimer, table
<1>2. ASSUME NEW c \in Conv, OnEvent(c) \/ Opened(c) PROVE used \subseteq used'
  BY <1>2 DEF OnEvent, Opened, SessionBooted, SessionBound, SessionRefused, SessionFails,
              NewChatBooted, NewChatBound, NewChatFails
<1>3. ASSUME NEW t \in Tab, SnapshotRetry(t) PROVE used \subseteq used'
  BY <1>3 DEF SnapshotRetry, table
<1>4. ASSUME NEW t \in Tab, Served(t) PROVE used \subseteq used'
  <2>1. ASSUME NEW c, SwitchConversation(c) PROVE used \subseteq used'
    BY <2>1 DEF SwitchConversation, table
  <2>2. CASE TakeHello(t) BY <2>2 DEF TakeHello, CreateSession, table
  <2>3. CASE TakeGetState(t) \/ TakePrompt(t) BY <2>3 DEF TakeGetState, TakePrompt, table
  <2>4. CASE TakeSwitch(t) BY <2>1, <2>4 DEF TakeSwitch
  <2>5. CASE TakeNewChat(t) BY <2>5 DEF TakeNewChat
  <2>6. CASE TakeSwitchSession(t) BY <2>1, <2>6 DEF TakeSwitchSession, table
  <2>7. QED BY <1>4, <2>2, <2>3, <2>4, <2>5, <2>6 DEF Served
<1>5. QED BY <1>1, <1>2, <1>3, <1>4

(* What a tab shows and keeps after a step, if it is in order there.        *)
TabInOrder(q, v, k) ==
  /\ Ascends(q) /\ Above(q, v.rev) /\ \A c \in Conv : Above(q, k[c].rev)
  /\ \A c \in Conv :
       /\ k[c].conv \in {c, NoConv}
       /\ v.conv = c /\ k[c] # NoSnapshot => v.rev <= k[c].rev

LEMMA InOrder ==
  BoardIInv <=> PreviewsFirst /\ \A t \in Tab : TabInOrder(down[t], view[t], cache[t])
  BY DEF BoardIInv, WireInOrder, CacheIsCurrent, TabInOrder

(* A step of one tab shows a published state, or nothing new.               *)
LEMMA TabBoard ==
  ASSUME BoardIInv, NEW t \in Tab, UNCHANGED <<log, used>>,
         \A x \in Tab : x # t => /\ down'[x] = down[x] /\ view'[x] = view[x]
                                 /\ cache'[x] = cache[x],
         TabInOrder(down'[t], view'[t], cache'[t])
  PROVE  BoardIInv'
<1>1. PreviewsFirst' BY DEF BoardIInv, PreviewsFirst
<1>2. \A x \in Tab : TabInOrder(down'[x], view'[x], cache'[x])
  <2> SUFFICES ASSUME NEW x \in Tab PROVE TabInOrder(down'[x], view'[x], cache'[x])
    OBVIOUS
  <2>1. TabInOrder(down[x], view[x], cache[x]) BY InOrder
  <2>2. QED BY <2>1
<1>3. QED BY <1>1, <1>2
     DEF BoardIInv, WireInOrder, CacheIsCurrent, TabInOrder

(* A delta that chains on a published state makes a settled state of the    *)
(* delta's revision.                                                        *)
LEMMA MergedSettled ==
  ASSUME IInv, Published, NEW s \in log \cup {NoSnapshot}, NEW d \in DownType,
         d.type = "snapshot_delta", Carried(d, log), Chains(s, d)
  PROVE  /\ Merged(s, d) \in log /\ Merged(s, d).rev = d.rev
         /\ Merged(s, d).conv = d.conv /\ Merged(s, d).booting = FALSE
<1>1. PICK e \in log : e.conv = d.conv /\ e.rev = d.base /\ ~e.booting
  BY DEF Carried
<1>2. d.conv \in Conv BY DEF DownType
<1>3. s \in log BY <1>2, BlankIs, ConstantsAssumption DEF Chains
<1>4. s = e BY <1>1, <1>3 DEF Chains, Published, RevsUnique
<1>5. e \in SnapshotType BY TypeParts DEF IInv, Out
<1>6. e.booting = FALSE BY <1>1, <1>5 DEF SnapshotType
<1>7. QED BY <1>1, <1>4, <1>6, MergedPublished DEF Merged, Snapshot

(* A newer state of a conversation is kept: what is kept stays in order.    *)
LEMMA KeepInOrder ==
  ASSUME NEW q \in Seq(DownType), NEW v, NEW k \in [Conv -> SnapshotType \cup {NoSnapshot}],
         NEW s \in SnapshotType, NEW w, TabInOrder(q, v, k), Above(q, s.rev),
         \/ w = s
         \/ w = v /\ v.rev <= s.rev
  PROVE  TabInOrder(q, w, [k EXCEPT ![s.conv] = s])
<1>1. s.conv \in Conv /\ s.rev \in Nat BY DEF SnapshotType
<1>2. QED BY <1>1 DEF TabInOrder

LEMMA ReceivedBoard ==
  ASSUME IInv, Published, BoardIInv, NEW t \in Tab, Received(t)
  PROVE  BoardIInv' /\ [Board!Next]_<<log, view>>
<1> DEFINE h == Head(down[t])
           q == Tail(down[t])
<1>1. Out /\ TabsOK BY TypeParts DEF IInv
<1>2. /\ down[t] # <<>> /\ down' = [down EXCEPT ![t] = q] /\ UNCHANGED <<log, used>>
      /\ Carried(h, log) /\ h \in DownType
  <2>1. ASSUME NEW type, Receive(t, type)
        PROVE  /\ down[t] # <<>> /\ down' = [down EXCEPT ![t] = q] /\ UNCHANGED <<log, used>>
               /\ Carried(h, log) /\ h \in DownType
    <3>1. h \in DownType BY <1>1, <2>1, HeadReceived
    <3>2. Carried(h, log) BY <2>1, HeadCarried
    <3>3. QED BY <2>1, <3>1, <3>2 DEF Receive, table
  <2>2. QED BY <2>1
     DEF Received, ReceiveReady, ReceiveConversations, ReceiveSnapshot, ReceiveDelta
<1>3. down[t] \in Seq(DownType) /\ q \in Seq(DownType) BY <1>1, <1>2 DEF Out
<1>4. /\ \A x \in Tab : view[x] \in log \cup {NoSnapshot}
      /\ \A x \in Tab, c \in Conv : cache[x][c] \in log \cup {NoSnapshot}
  BY DEF Published, ShownWasPublished
<1>5. \A e \in log \cup {NoSnapshot} : e.rev \in Nat
  BY <1>1, BlankIs DEF Out, SnapshotType
<1>6. TabInOrder(down[t], view[t], cache[t]) /\ PreviewsFirst BY InOrder
<1>7. /\ TabInOrder(q, view[t], cache[t])
      /\ h \in News => /\ Above(q, RevOf(h)) /\ view[t].rev <= RevOf(h)
                       /\ \A c \in Conv : cache[t][c].rev <= RevOf(h)
  <2>1. /\ Ascends(q) /\ \A r \in Nat : Above(down[t], r) => Above(q, r)
        /\ h \in News => Above(q, RevOf(h))
        /\ \A r \in Nat : Above(down[t], r) /\ h \in News => r <= RevOf(h)
    BY <1>2, <1>3, <1>6, WireTail DEF TabInOrder
  <2>2. view[t].rev \in Nat /\ \A c \in Conv : cache[t][c].rev \in Nat BY <1>4, <1>5
  <2> HIDE DEF h, q
  <2>3. QED BY <1>6, <2>1, <2>2 DEF TabInOrder
<1>8. down'[t] = q /\ \A x \in Tab : x # t => down'[x] = down[x] BY <1>1, <1>2 DEF Out
<1>9. view[t] \in SnapshotType \cup {NoSnapshot} /\ cache[t] \in [Conv -> SnapshotType \cup {NoSnapshot}]
  BY <1>1 DEF TabsOK
<1>10. log \subseteq SnapshotType BY <1>1 DEF Out
<1> HIDE DEF h, q
<1>11. CASE ReceiveReady(t)
  <2>1. UNCHANGED <<view, cache>> BY <1>11 DEF ReceiveReady
  <2>2. BoardIInv' BY <1>2, <1>7, <1>8, <2>1, TabBoard
  <2>3. QED BY <1>2, <2>1, <2>2
<1>12. CASE ReceiveConversations(t)
  <2>1. /\ UNCHANGED view
        /\ cache' = [cache EXCEPT ![t] =
                      [c \in Conv |-> IF c \in h.convs THEN @[c] ELSE NoSnapshot]]
    BY <1>12 DEF ReceiveConversations, h
  <2>2. /\ cache'[t] = [c \in Conv |-> IF c \in h.convs THEN cache[t][c] ELSE NoSnapshot]
        /\ \A x \in Tab : x # t => cache'[x] = cache[x]
    BY <1>1, <2>1 DEF TabsOK
  <2>3. TabInOrder(q, view[t], cache'[t])
    <3>1. Above(q, 0)
      <4>1. \A i \in 1..Len(q) : q[i] \in News => 0 <= RevOf(q[i]) BY NewsRev
      <4>2. QED BY <4>1 DEF Above
    <3>2. NoSnapshot.rev = 0 BY BlankIs
    <3>3. QED BY <1>7, <2>2, <3>1, <3>2, BlankIs DEF TabInOrder
  <2>4. BoardIInv' BY <1>2, <1>8, <2>1, <2>2, <2>3, TabBoard
  <2>5. QED BY <1>2, <2>1, <2>4
<1>13. CASE ReceiveSnapshot(t)
  <2> DEFINE s == h.state
  <2>1. /\ h.type = "snapshot" /\ view' = [view EXCEPT ![t] = s] /\ CacheSnapshot(t, s)
    BY <1>13 DEF ReceiveSnapshot, Receive, h
  <2>2. s \in log /\ h \in News /\ RevOf(h) = s.rev BY <1>2, <2>1 DEF Carried, News, RevOf
  <2> HIDE DEF s
  <2>3. s \in SnapshotType /\ s.conv \in Conv BY <1>10, <2>2 DEF SnapshotType
  <2>4. view'[t] = s /\ \A x \in Tab : x # t => view'[x] = view[x]
    BY <1>1, <2>1 DEF TabsOK
  <2>5. /\ \A x \in Tab : x # t => cache'[x] = cache[x]
        /\ TabInOrder(q, s, cache'[t])
    <3>1. CASE s.booting
      <4>1. UNCHANGED cache BY <2>1, <3>1 DEF CacheSnapshot
      <4>2. \A c \in Conv : s.conv = c /\ cache[t][c] # NoSnapshot => s.rev <= cache[t][c].rev
        <5> SUFFICES ASSUME NEW c \in Conv, s.conv = c, cache[t][c] # NoSnapshot
                     PROVE  s.rev <= cache[t][c].rev
          OBVIOUS
        <5>1. cache[t][c] \in log /\ cache[t][c] \in SnapshotType BY <1>4, <1>10
        <5>2. cache[t][c].conv = c
          BY <1>6, <5>1, ConstantsAssumption DEF TabInOrder, SnapshotType
        <5>3. QED BY <1>6, <2>2, <3>1, <5>1, <5>2 DEF PreviewsFirst
      <4>3. QED BY <1>7, <2>2, <4>1, <4>2 DEF TabInOrder
    <3>2. CASE ~s.booting
      <4>1. cache' = [cache EXCEPT ![t][s.conv] = s] BY <2>1, <3>2 DEF CacheSnapshot
      <4>2. /\ cache'[t] = [cache[t] EXCEPT ![s.conv] = s]
            /\ \A x \in Tab : x # t => cache'[x] = cache[x]
        BY <1>1, <4>1 DEF TabsOK
      <4>3. TabInOrder(q, s, [cache[t] EXCEPT ![s.conv] = s])
        BY <1>3, <1>7, <1>9, <2>2, <2>3, KeepInOrder
      <4>4. QED BY <4>2, <4>3
    <3>3. QED BY <3>1, <3>2
  <2>6. BoardIInv' BY <1>2, <1>8, <2>4, <2>5, TabBoard
  <2>7. Board!Show(t, s)
    <3>1. s.rev >= view[t].rev BY <1>4, <1>5, <1>7, <2>2
    <3>2. QED BY <1>2, <2>1, <3>1 DEF Board!Show
  <2>8. QED BY <2>2, <2>6, <2>7 DEF Board!Next
<1>14. CASE ReceiveDelta(t)
  <2> DEFINE cached == cache[t][h.conv]
  <2>1. /\ h.type = "snapshot_delta"
        /\ \/ /\ Chains(view[t], h)
              /\ view' = [view EXCEPT ![t] = Merged(@, h)]
              /\ CacheSnapshot(t, Merged(view[t], h))
           \/ /\ ~Chains(view[t], h)
              /\ IF Chains(cached, h) THEN CacheSnapshot(t, Merged(cached, h))
                                      ELSE UNCHANGED cache
              /\ UNCHANGED view
    BY <1>14 DEF ReceiveDelta, Receive, h
  <2>2. h \in News /\ RevOf(h) = h.rev /\ h.conv \in Conv
    BY <1>2, <2>1 DEF News, RevOf, DownType
  <2>3. /\ Above(q, h.rev) /\ view[t].rev <= h.rev /\ view[t].rev \in Nat
        /\ view[t] \in log \cup {NoSnapshot} /\ cached \in log \cup {NoSnapshot}
    BY <1>4, <1>5, <1>7, <2>2
  <2> HIDE DEF cached
  <2>4. ASSUME NEW s \in log, s.rev = h.rev, s.booting = FALSE, CacheSnapshot(t, s),
               NEW w, w = s \/ w = view[t]
        PROVE  /\ \A x \in Tab : x # t => cache'[x] = cache[x]
               /\ TabInOrder(q, w, cache'[t])
    <3>1. cache' = [cache EXCEPT ![t][s.conv] = s] BY <2>4 DEF CacheSnapshot
    <3>2. /\ cache'[t] = [cache[t] EXCEPT ![s.conv] = s]
          /\ \A x \in Tab : x # t => cache'[x] = cache[x]
      BY <1>1, <3>1 DEF TabsOK
    <3>3. TabInOrder(q, w, [cache[t] EXCEPT ![s.conv] = s])
      BY <1>3, <1>7, <1>9, <1>10, <2>3, <2>4, KeepInOrder
    <3>4. QED BY <3>2, <3>3
  <2>5. CASE Chains(view[t], h)
    <3> DEFINE s == Merged(view[t], h)
    <3>1. s \in log /\ s.rev = h.rev /\ s.booting = FALSE
      BY <1>2, <2>1, <2>3, <2>5, MergedSettled
    <3>2. view' = [view EXCEPT ![t] = s] /\ CacheSnapshot(t, s) BY <2>1, <2>5
    <3> HIDE DEF s
    <3>3. view'[t] = s /\ \A x \in Tab : x # t => view'[x] = view[x]
      BY <1>1, <3>2 DEF TabsOK
    <3>4. /\ \A x \in Tab : x # t => cache'[x] = cache[x]
          /\ TabInOrder(q, s, cache'[t])
      BY <2>4, <3>1, <3>2
    <3>5. BoardIInv' BY <1>2, <1>8, <3>3, <3>4, TabBoard
    <3>6. Board!Show(t, s)
      <4>1. s.rev >= view[t].rev BY <1>5, <2>3, <3>1
      <4>2. QED BY <1>2, <3>2, <4>1 DEF Board!Show
    <3>7. QED BY <3>1, <3>5, <3>6 DEF Board!Next
  <2>6. CASE ~Chains(view[t], h)
    <3>1. UNCHANGED view BY <2>1, <2>6
    <3>2. /\ \A x \in Tab : x # t => cache'[x] = cache[x]
          /\ TabInOrder(q, view[t], cache'[t])
      <4>1. CASE Chains(cached, h)
        <5> DEFINE s == Merged(cached, h)
        <5>1. s \in log /\ s.rev = h.rev /\ s.booting = FALSE
          BY <1>2, <2>1, <2>3, <4>1, MergedSettled
        <5>2. CacheSnapshot(t, s) BY <2>1, <2>6, <4>1
        <5> HIDE DEF s
        <5>3. QED BY <2>4, <5>1, <5>2
      <4>2. CASE ~Chains(cached, h) BY <1>7, <2>1, <2>6, <4>2
      <4>3. QED BY <4>1, <4>2
    <3>3. BoardIInv' BY <1>2, <1>8, <3>1, <3>2, TabBoard
    <3>4. QED BY <1>2, <3>1, <3>3
  <2>7. QED BY <2>5, <2>6
<1>15. QED BY <1>11, <1>12, <1>13, <1>14 DEF Received

LEMMA ActsOnBoard ==
  ASSUME IInv, Published, BoardIInv, NEW t \in Tab,
         \/ Clicked(t) \/ ClickTimeout(t) \/ ScheduledResync(t)
         \/ Connect(t) \/ Disconnect(t)
  PROVE  BoardIInv' /\ [Board!Next]_<<log, view>>
<1>1. Out /\ TabsOK BY TypeParts DEF IInv
<1>2. UNCHANGED <<log, used, cache>>
  BY DEF Clicked, ClickSwitch, ClickNewChat, ClickSession, SendPrompt, ClickTimeout,
         ScheduledResync, Connect, Disconnect, InTab, table, tabs
<1>3. TabInOrder(down[t], view[t], cache[t]) BY InOrder
<1>4. CASE Disconnect(t)
  <2>1. down' = [down EXCEPT ![t] = <<>>] /\ UNCHANGED view BY <1>4 DEF Disconnect
  <2>2. down'[t] = <<>> /\ \A x \in Tab : x # t => down'[x] = down[x]
    BY <1>1, <2>1 DEF Out
  <2>3. \A i \in 1..Len(<<>>) : FALSE OBVIOUS
  <2>4. TabInOrder(<<>>, view[t], cache[t])
    BY <1>3, <2>3 DEF TabInOrder, Ascends, Above
  <2>5. BoardIInv' BY <1>2, <2>1, <2>2, <2>4, TabBoard
  <2>6. QED BY <1>2, <2>1, <2>5
<1>5. CASE ~Disconnect(t)
  <2>1. UNCHANGED down
    BY <1>5 DEF Clicked, ClickSwitch, ClickNewChat, ClickSession, SendPrompt,
                ClickTimeout, ScheduledResync, Connect, InTab
  <2>2. CASE UNCHANGED view
    <3>1. BoardIInv' BY <1>2, <1>3, <2>1, <2>2, TabBoard
    <3>2. QED BY <1>2, <2>2, <3>1
  <2>3. CASE ~UNCHANGED view
    <3>1. PICK c \in Conv : ClickSwitch(t, c)
      BY <1>5, <2>3 DEF Clicked, ClickNewChat, ClickSession, SendPrompt, ClickTimeout,
                        ScheduledResync, Connect, tabs
    <3> DEFINE s == cache[t][c]
    <3>2. view' = [view EXCEPT ![t] = s] /\ s # NoSnapshot
      BY <1>1, <2>3, <3>1 DEF ClickSwitch, TabsOK
    <3>3. s \in log /\ s \in SnapshotType
      BY <1>1, <3>2 DEF Published, ShownWasPublished, Out
    <3>4. s.conv = c
      BY <1>3, <3>3, ConstantsAssumption DEF TabInOrder, SnapshotType
    <3>5. view[t].conv = c => view[t].rev <= s.rev BY <1>3, <3>2 DEF TabInOrder
    <3>6. view[t].rev \in Nat /\ s.rev \in Nat
      BY <1>1, <3>3, BlankIs DEF TabsOK, SnapshotType
    <3>7. TabInOrder(down[t], s, cache[t])
      BY <1>3, <3>4, <3>6 DEF TabInOrder
    <3> HIDE DEF s
    <3>8. view'[t] = s /\ \A x \in Tab : x # t => view'[x] = view[x]
      BY <1>1, <3>2 DEF TabsOK
    <3>9. BoardIInv' BY <1>2, <2>1, <3>7, <3>8, TabBoard
    <3>10. Board!Show(t, s) BY <1>2, <3>2, <3>4, <3>5, <3>6 DEF Board!Show
    <3>11. QED BY <3>3, <3>9, <3>10 DEF Board!Next
  <2>4. QED BY <2>2, <2>3
<1>6. QED BY <1>4, <1>5

LEMMA InitBoard == Init => BoardIInv /\ Board!Init
<1> SUFFICES ASSUME Init PROVE BoardIInv /\ Board!Init
  OBVIOUS
<1>1. \A t \in Tab : down[t] = <<>> BY DEF Init, Nothing
<1>2. \A i \in 1..Len(<<>>) : FALSE OBVIOUS
<1>3. WireInOrder BY <1>1, <1>2 DEF WireInOrder, Ascends, Above
<1>4. PreviewsFirst /\ CacheIsCurrent
  BY BlankIs DEF Init, PreviewsFirst, CacheIsCurrent
<1>5. Board!Init BY DEF Init, Board!Init
<1>6. QED BY <1>3, <1>4, <1>5 DEF BoardIInv

LEMMA NextBoard ==
  ASSUME Budget["restart"] = 0
  PROVE  IInv /\ Published /\ BoardIInv /\ [Next]_vars
           => BoardIInv' /\ [Board!Next]_<<log, view>>
<1> SUFFICES ASSUME IInv, Published, BoardIInv, [Next]_vars
             PROVE  BoardIInv' /\ [Board!Next]_<<log, view>>
  OBVIOUS
<1>1. TypeOK' BY NextIInv DEF IInv
<1>2. CASE UNCHANGED vars
  BY <1>2 DEF vars, table, wires, tabs, BoardIInv, WireInOrder, PreviewsFirst, CacheIsCurrent
<1>3. CASE \/ SnapshotTimer
           \/ \E c \in Conv : OnEvent(c) \/ Opened(c)
           \/ \E t \in Tab : SnapshotRetry(t) \/ Served(t)
  BY <1>1, <1>3, ServerSpeaks, UsedGrows, SpeaksBoard
<1>4. ASSUME NEW t \in Tab,
             \/ Received(t)
             \/ Clicked(t) \/ ClickTimeout(t) \/ ScheduledResync(t)
             \/ Connect(t) \/ Disconnect(t)
      PROVE  BoardIInv' /\ [Board!Next]_<<log, view>>
  BY <1>4, ReceivedBoard, ActsOnBoard
<1>5. CASE Restart
  <2>1. spent["restart"] \in Nat /\ spent["restart"] < 0
    BY <1>5, TypeParts DEF IInv, TabsOK, Kind, Restart, Spend
  <2>2. QED BY <2>1
<1>6. QED BY <1>2, <1>3, <1>4, <1>5 DEF Next

(* While one server process lives the protocol implements the board: the    *)
(* server publishes one state after another, and a tab that receives a      *)
(* snapshot, merges a delta or paints a kept state at a click never shows a *)
(* conversation older than it just did, for any number of tabs, chats and   *)
(* dropped snapshots.                                                       *)
THEOREM TheBoardIsKept ==
  ASSUME Budget["restart"] = 0
  PROVE  Spec => ImplementsBoard
<1>1. Init => IInv /\ Published /\ BoardIInv /\ Board!Init
  BY InitIInv, InitPublished, InitBoard
<1>2. IInv /\ Published /\ BoardIInv /\ [Next]_vars
        => /\ IInv' /\ Published' /\ BoardIInv'
           /\ [Board!Next]_<<log, view>>
  BY NextIInv, NextPublished, NextBoard
<1>3. QED BY <1>1, <1>2, PTL DEF Spec, ImplementsBoard, Board!Spec

-----------------------------------------------------------------------------
(* Clicks are answered.                                                     *)

(* The messages that bring the list, and those that settle a click.         *)
Lists == {m \in DownType : m.type = "conversations"}
Fulls == {m \in DownType : m.type = "snapshot"}

(* Position i of a wire q, 0 being what the tab has now, shows a list other *)
(* than o; another chat than a, or a click p that waits.                    *)
StaleList(q, l, o, i) == IF i = 0 THEN l # o ELSE q[i] \in Lists /\ q[i].convs # o
StaleView(q, v, p, a, i) ==
  IF i = 0 THEN v # a \/ p # NoConv ELSE q[i] \in Fulls /\ q[i].state.conv # a

ListAt(q, o, j) == q[j] \in Lists /\ q[j].convs = o
FullAt(q, a, k) == q[k] \in Fulls /\ q[k].state.conv = a

(* What is stale is mended by something behind it on the wire.              *)
ListMended(q, l, o) ==
  \A i \in 0..Len(q) : StaleList(q, l, o, i) => \E j \in i + 1..Len(q) : ListAt(q, o, j)
ListThenFull(q, l, o) ==
  \A i \in 0..Len(q) : StaleList(q, l, o, i) =>
    \E j \in i + 1..Len(q) : ListAt(q, o, j) /\ \E k \in j + 1..Len(q) : q[k] \in Fulls
ViewMended(q, v, p, a) ==
  \A i \in 0..Len(q) : StaleView(q, v, p, a, i) => \E k \in i + 1..Len(q) : FullAt(q, a, k)

(* The server will answer with a full snapshot: it is asked for one or for  *)
(* another chat, the tab is about to ask, or a session is being opened.     *)
AsksFull(m, o, a) ==
  \/ m.type = "get_state"
  \/ m.type = "switch_conversation" /\ m.conv \in o \ {a}
Awaited(u, q, o, a, stages) ==
  \/ \E i \in 1..Len(u) : AsksFull(u[i], o, a)
  \/ \E i \in 1..Len(q) : q[i].type = "ready"
  \/ \E c \in Conv : stages[c] = "session"

(* A tab gets the list, and then the active chat or an answer for certain.  *)
Followed(u, q, l, v, p, o, a, stages) ==
  /\ ListMended(q, l, o)
  /\ \/ Awaited(u, q, o, a, stages)
     \/ ListThenFull(q, l, o) /\ ViewMended(q, v, p, a)

(* Between the boot of a session and its binding the table has changed and  *)
(* no tab was told.                                                         *)
Binding(stages) == \E c \in Conv : stages[c] = "sessionBind"

TabFollowed(t) ==
  Followed(up[t], down[t], list[t], view[t].conv, pending[t], open, active, opening)
TabsFollowed == ~Binding(opening) => \A t \in Tab : attached[t] => TabFollowed(t)

EmittedActive == ~Binding(opening) => emitted.conv \in {NoConv, active}

NothingDropped == drops = 0 /\ \A t \in Tab : retry[t] = FALSE

NoNewChats ==
  /\ \A c \in Conv : opening[c] \in {"no", "session", "sessionBind"}
  /\ \A t \in Tab :
       /\ pending[t] # NewChat
       /\ \A i \in 1..Len(up[t]) : up[t][i].type # "new_chat"

SocketsOpen ==
  /\ \A t \in Tab : attached[t] \/ up[t] # <<>> \/ down[t] # <<>> => connected[t]
  /\ used = {} => \A t \in Tab : ~attached[t]

ClickIInv == TabsFollowed /\ EmittedActive /\ NothingDropped /\ NoNewChats /\ SocketsOpen

(* What leaves neither the list nor the view of a tab stale.                *)
ListFits(m, o) == m \in Lists => m.convs = o
ViewFits(m, a) == m \in Fulls => m.state.conv = a

(* More on a wire mends what was mended.                                    *)
LEMMA ConcatAt ==
  ASSUME NEW q \in Seq(DownType), NEW e \in Seq(DownType)
  PROVE  /\ q \o e \in Seq(DownType) /\ Len(q) \in Nat /\ Len(e) \in Nat
         /\ Len(q \o e) = Len(q) + Len(e)
         /\ \A i \in 1..Len(q) : i \in 1..Len(q \o e) /\ (q \o e)[i] = q[i]
         /\ \A i \in 1..Len(q \o e) : i \notin 1..Len(q) =>
              i - Len(q) \in 1..Len(e) /\ (q \o e)[i] = e[i - Len(q)]
         /\ \A i \in 1..Len(e) : Len(q) + i \in 1..Len(q \o e)
                                 /\ (q \o e)[Len(q) + i] = e[i]
<1>1. /\ q \o e \in Seq(DownType) /\ Len(q) \in Nat /\ Len(e) \in Nat
      /\ Len(q \o e) = Len(q) + Len(e)
      /\ \A i \in 1..Len(q) + Len(e) :
           (q \o e)[i] = IF i <= Len(q) THEN q[i] ELSE e[i - Len(q)]
  BY ConcatProperties, LenProperties
<1>2. QED BY <1>1

LEMMA ListExtended ==
  ASSUME NEW q \in Seq(DownType), NEW e \in Seq(DownType), NEW o, NEW l,
         \A i \in 1..Len(e) : ListFits(e[i], o)
  PROVE  /\ ListMended(q, l, o) => ListMended(q \o e, l, o)
         /\ ListThenFull(q, l, o) => ListThenFull(q \o e, l, o)
<1> DEFINE w == q \o e
<1>1. /\ Len(q) \in Nat /\ Len(e) \in Nat /\ Len(w) = Len(q) + Len(e)
      /\ \A i \in 1..Len(q) : i \in 1..Len(w) /\ w[i] = q[i]
      /\ \A i \in 1..Len(w) : i \notin 1..Len(q) =>
           i - Len(q) \in 1..Len(e) /\ w[i] = e[i - Len(q)]
  BY ConcatAt
<1> HIDE DEF w
<1>2. \A i \in 0..Len(w) : StaleList(w, l, o, i) => i \in 0..Len(q) /\ StaleList(q, l, o, i)
  <2> SUFFICES ASSUME NEW i \in 0..Len(w), StaleList(w, l, o, i)
               PROVE  i \in 0..Len(q) /\ StaleList(q, l, o, i)
    OBVIOUS
  <2>1. CASE i = 0 BY <1>1, <2>1 DEF StaleList
  <2>2. CASE i \in 1..Len(q) BY <1>1, <2>2 DEF StaleList
  <2>3. CASE i # 0 /\ i \notin 1..Len(q)
    <3>1. i - Len(q) \in 1..Len(e) /\ w[i] = e[i - Len(q)] BY <1>1, <2>3
    <3>2. w[i] \in Lists /\ w[i].convs # o BY <2>3 DEF StaleList
    <3>3. QED BY <3>1, <3>2 DEF ListFits
  <2>4. QED BY <2>1, <2>2, <2>3
<1>3. ASSUME ListMended(q, l, o) PROVE ListMended(w, l, o)
  <2> SUFFICES ASSUME NEW i \in 0..Len(w), StaleList(w, l, o, i)
               PROVE  \E j \in i + 1..Len(w) : ListAt(w, o, j)
    BY DEF ListMended
  <2>1. PICK j \in i + 1..Len(q) : ListAt(q, o, j) BY <1>2, <1>3 DEF ListMended
  <2>2. i \in 0..Len(q) BY <1>2
  <2>3. j \in 1..Len(q) /\ j \in i + 1..Len(w) BY <1>1, <2>2
  <2>4. QED BY <1>1, <2>1, <2>3 DEF ListAt
<1>4. ASSUME ListThenFull(q, l, o) PROVE ListThenFull(w, l, o)
  <2> SUFFICES ASSUME NEW i \in 0..Len(w), StaleList(w, l, o, i)
               PROVE  \E j \in i + 1..Len(w) :
                        ListAt(w, o, j) /\ \E k \in j + 1..Len(w) : w[k] \in Fulls
    BY DEF ListThenFull
  <2>1. PICK j \in i + 1..Len(q) :
          ListAt(q, o, j) /\ \E k \in j + 1..Len(q) : q[k] \in Fulls
    BY <1>2, <1>4 DEF ListThenFull
  <2>2. PICK k \in j + 1..Len(q) : q[k] \in Fulls BY <2>1
  <2>3. i \in 0..Len(q) BY <1>2
  <2>4. /\ j \in 1..Len(q) /\ j \in i + 1..Len(w)
        /\ k \in 1..Len(q) /\ k \in j + 1..Len(w)
    BY <1>1, <2>3
  <2>5. w[j] = q[j] /\ w[k] = q[k] BY <1>1, <2>4
  <2>6. QED BY <2>1, <2>2, <2>4, <2>5 DEF ListAt
<1>5. QED BY <1>3, <1>4 DEF w

LEMMA ViewExtended ==
  ASSUME NEW q \in Seq(DownType), NEW e \in Seq(DownType), NEW a, NEW v, NEW p,
         \A i \in 1..Len(e) : ViewFits(e[i], a), ViewMended(q, v, p, a)
  PROVE  ViewMended(q \o e, v, p, a)
<1> DEFINE w == q \o e
<1>1. /\ Len(q) \in Nat /\ Len(e) \in Nat /\ Len(w) = Len(q) + Len(e)
      /\ \A i \in 1..Len(q) : i \in 1..Len(w) /\ w[i] = q[i]
      /\ \A i \in 1..Len(w) : i \notin 1..Len(q) =>
           i - Len(q) \in 1..Len(e) /\ w[i] = e[i - Len(q)]
  BY ConcatAt
<1> HIDE DEF w
<1> SUFFICES ASSUME NEW i \in 0..Len(w), StaleView(w, v, p, a, i)
             PROVE  \E k \in i + 1..Len(w) : FullAt(w, a, k)
  BY DEF ViewMended, w
<1>2. i \in 0..Len(q) /\ StaleView(q, v, p, a, i)
  <2>1. CASE i = 0 BY <1>1, <2>1 DEF StaleView
  <2>2. CASE i \in 1..Len(q) BY <1>1, <2>2 DEF StaleView
  <2>3. CASE i # 0 /\ i \notin 1..Len(q)
    <3>1. i - Len(q) \in 1..Len(e) /\ w[i] = e[i - Len(q)] BY <1>1, <2>3
    <3>2. w[i] \in Fulls /\ w[i].state.conv # a BY <2>3 DEF StaleView
    <3>3. QED BY <3>1, <3>2 DEF ViewFits
  <2>4. QED BY <2>1, <2>2, <2>3
<1>3. PICK k \in i + 1..Len(q) : FullAt(q, a, k) BY <1>2 DEF ViewMended
<1>4. k \in 1..Len(q) /\ k \in i + 1..Len(w) BY <1>1, <1>2
<1>5. QED BY <1>1, <1>3, <1>4 DEF FullAt

LEMMA AwaitedExtended ==
  ASSUME NEW q \in Seq(DownType), NEW e \in Seq(DownType), NEW u, NEW o, NEW a,
         NEW stages, Awaited(u, q, o, a, stages)
  PROVE  Awaited(u, q \o e, o, a, stages)
<1> DEFINE w == q \o e
<1>1. \A i \in 1..Len(q) : i \in 1..Len(w) /\ w[i] = q[i] BY ConcatAt
<1> HIDE DEF w
<1>2. QED BY <1>1 DEF Awaited, w

(* A full snapshot of the active chat mends the view and, behind a current  *)
(* list, all; a current list mends every list before it.                    *)
LEMMA FullMends ==
  ASSUME NEW q \in Seq(DownType), NEW m \in Fulls, NEW a, m.state.conv = a
  PROVE  /\ \A v, p : ViewMended(q \o <<m>>, v, p, a)
         /\ \A l, o : ListMended(q, l, o) => ListThenFull(q \o <<m>>, l, o)
<1> DEFINE w == q \o <<m>>
           n == Len(q) + 1
<1>1. m \in DownType /\ m \notin Lists BY DEF Fulls, Lists
<1>2. <<m>> \in Seq(DownType) /\ Len(<<m>>) = 1 /\ <<m>>[1] = m BY <1>1
<1>3. /\ Len(q) \in Nat /\ Len(w) = n
      /\ \A i \in 1..Len(q) : i \in 1..Len(w) /\ w[i] = q[i]
      /\ n \in 1..Len(w) /\ w[n] = m
  BY <1>2, ConcatAt
<1> HIDE DEF w
<1>4. ASSUME NEW v, NEW p PROVE ViewMended(w, v, p, a)
  <2> SUFFICES ASSUME NEW i \in 0..Len(w), StaleView(w, v, p, a, i)
               PROVE  \E k \in i + 1..Len(w) : FullAt(w, a, k)
    BY DEF ViewMended
  <2>1. i # n BY <1>3 DEF StaleView
  <2>2. n \in i + 1..Len(w) BY <1>3, <2>1
  <2>3. QED BY <1>3, <2>2 DEF FullAt
<1>5. ASSUME NEW l, NEW o, ListMended(q, l, o) PROVE ListThenFull(w, l, o)
  <2> SUFFICES ASSUME NEW i \in 0..Len(w), StaleList(w, l, o, i)
               PROVE  \E j \in i + 1..Len(w) :
                        ListAt(w, o, j) /\ \E k \in j + 1..Len(w) : w[k] \in Fulls
    BY DEF ListThenFull
  <2>1. i # n BY <1>1, <1>3 DEF StaleList
  <2>2. i \in 0..Len(q) BY <1>3, <2>1
  <2>3. StaleList(q, l, o, i) BY <1>3, <2>2 DEF StaleList
  <2>4. PICK j \in i + 1..Len(q) : ListAt(q, o, j) BY <1>5, <2>2, <2>3 DEF ListMended
  <2>5. j \in 1..Len(q) /\ j \in i + 1..Len(w) /\ n \in j + 1..Len(w) BY <1>3, <2>2
  <2>6. QED BY <1>3, <2>4, <2>5 DEF ListAt
<1>6. QED BY <1>4, <1>5 DEF w

LEMMA ListMends ==
  ASSUME NEW q \in Seq(DownType), NEW e \in Seq(DownType), NEW o,
         Len(e) >= 1, ListAt(e, o, 1), \A i \in 1..Len(e) : ListFits(e[i], o)
  PROVE  \A l : ListMended(q \o e, l, o)
<1> DEFINE w == q \o e
           n == Len(q) + 1
<1>1. 1 \in 1..Len(e) BY LenProperties
<1>2. /\ Len(q) \in Nat /\ Len(e) \in Nat /\ Len(w) = Len(q) + Len(e)
      /\ n \in 1..Len(w) /\ w[n] = e[1]
      /\ \A i \in 1..Len(w) : i \notin 1..Len(q) =>
           i - Len(q) \in 1..Len(e) /\ w[i] = e[i - Len(q)]
  BY <1>1, ConcatAt
<1> HIDE DEF w
<1> SUFFICES ASSUME NEW l, NEW i \in 0..Len(w), StaleList(w, l, o, i)
             PROVE  \E j \in i + 1..Len(w) : ListAt(w, o, j)
  BY DEF ListMended, w
<1>3. i = 0 \/ i \in 1..Len(q)
  <2> SUFFICES ASSUME i # 0, i \notin 1..Len(q) PROVE FALSE
    OBVIOUS
  <2>1. i - Len(q) \in 1..Len(e) /\ w[i] = e[i - Len(q)] BY <1>2
  <2>2. w[i] \in Lists /\ w[i].convs # o BY DEF StaleList
  <2>3. QED BY <2>1, <2>2 DEF ListFits
<1>4. n \in i + 1..Len(w) BY <1>2, <1>3
<1>5. QED BY <1>2, <1>4 DEF ListAt

(* What the tab takes off its wire: the list or the view it then has.       *)
LEMMA TailAt ==
  ASSUME NEW q \in Seq(DownType), q # <<>>
  PROVE  /\ Tail(q) \in Seq(DownType) /\ Head(q) = q[1] /\ Head(q) \in DownType
         /\ Len(q) \in Nat \ {0} /\ Len(Tail(q)) = Len(q) - 1
         /\ \A i \in 1..Len(Tail(q)) : i + 1 \in 1..Len(q) /\ Tail(q)[i] = q[i + 1]
         /\ \A i \in 2..Len(q) : i - 1 \in 1..Len(Tail(q)) /\ Tail(q)[i - 1] = q[i]
<1>1. /\ Tail(q) \in Seq(DownType) /\ Head(q) = q[1] /\ Head(q) \in DownType
      /\ Len(q) \in Nat \ {0} /\ Len(Tail(q)) = Len(q) - 1
      /\ \A i \in 1..Len(Tail(q)) : Tail(q)[i] = q[i + 1]
  BY HeadTailProperties, EmptySeq, LenProperties
<1>2. \A i \in 2..Len(q) : i - 1 \in 1..Len(Tail(q)) /\ (i - 1) + 1 = i BY <1>1
<1>3. QED BY <1>1, <1>2

LEMMA ListTaken ==
  ASSUME NEW q \in Seq(DownType), q # <<>>, NEW l, NEW n, NEW o,
         IF Head(q) \in Lists THEN n = Head(q).convs ELSE n = l
  PROVE  /\ ListMended(q, l, o) => ListMended(Tail(q), n, o)
         /\ ListThenFull(q, l, o) => ListThenFull(Tail(q), n, o)
<1> DEFINE w == Tail(q)
<1>1. /\ Head(q) = q[1] /\ Len(q) \in Nat \ {0} /\ Len(w) = Len(q) - 1
      /\ \A i \in 1..Len(w) : i + 1 \in 1..Len(q) /\ w[i] = q[i + 1]
      /\ \A i \in 2..Len(q) : i - 1 \in 1..Len(w) /\ w[i - 1] = q[i]
  BY TailAt
<1> HIDE DEF w
<1>2. \A i \in 0..Len(w) : StaleList(w, n, o, i) =>
        \/ i + 1 \in 0..Len(q) /\ StaleList(q, l, o, i + 1)
        \/ i = 0 /\ 0 \in 0..Len(q) /\ StaleList(q, l, o, 0) /\ ~ListAt(q, o, 1)
  <2> SUFFICES ASSUME NEW i \in 0..Len(w), StaleList(w, n, o, i)
               PROVE  \/ i + 1 \in 0..Len(q) /\ StaleList(q, l, o, i + 1)
                      \/ i = 0 /\ 0 \in 0..Len(q) /\ StaleList(q, l, o, 0) /\ ~ListAt(q, o, 1)
    OBVIOUS
  <2>1. CASE i # 0
    <3>1. i \in 1..Len(w) /\ i + 1 # 0 /\ i + 1 \in 0..Len(q) BY <1>1, <2>1
    <3>2. w[i] \in Lists /\ w[i].convs # o BY <2>1 DEF StaleList
    <3>3. QED BY <1>1, <3>1, <3>2 DEF StaleList
  <2>2. CASE i = 0 /\ Head(q) \in Lists
    <3>1. 1 \in 0..Len(q) /\ q[1] \in Lists /\ q[1].convs # o
      BY <1>1, <2>2 DEF StaleList
    <3>2. QED BY <2>2, <3>1 DEF StaleList
  <2>3. CASE i = 0 /\ Head(q) \notin Lists
    BY <1>1, <2>3 DEF StaleList, ListAt
  <2>4. QED BY <2>1, <2>2, <2>3
<1>3. ASSUME ListMended(q, l, o) PROVE ListMended(w, n, o)
  <2> SUFFICES ASSUME NEW i \in 0..Len(w), StaleList(w, n, o, i)
               PROVE  \E j \in i + 1..Len(w) : ListAt(w, o, j)
    BY DEF ListMended
  <2>1. PICK j \in i + 2..Len(q) : ListAt(q, o, j)
    <3>1. CASE i + 1 \in 0..Len(q) /\ StaleList(q, l, o, i + 1)
      <4>1. \E j \in (i + 1) + 1..Len(q) : ListAt(q, o, j)
        BY <1>3, <3>1 DEF ListMended
      <4>2. (i + 1) + 1 = i + 2 OBVIOUS
      <4>3. QED BY <4>1, <4>2
    <3>2. CASE i = 0 /\ 0 \in 0..Len(q) /\ StaleList(q, l, o, 0) /\ ~ListAt(q, o, 1)
      <4>1. PICK j \in 0 + 1..Len(q) : ListAt(q, o, j) BY <1>3, <3>2 DEF ListMended
      <4>2. j # 1 BY <3>2, <4>1
      <4>3. j \in i + 2..Len(q) BY <1>1, <3>2, <4>2
      <4>4. QED BY <4>1, <4>3
    <3>3. QED BY <1>2, <3>1, <3>2
  <2>2. j \in 2..Len(q) /\ j - 1 \in i + 1..Len(w) BY <1>1
  <2>3. QED BY <1>1, <2>1, <2>2 DEF ListAt
<1>4. ASSUME ListThenFull(q, l, o) PROVE ListThenFull(w, n, o)
  <2> SUFFICES ASSUME NEW i \in 0..Len(w), StaleList(w, n, o, i)
               PROVE  \E j \in i + 1..Len(w) :
                        ListAt(w, o, j) /\ \E k \in j + 1..Len(w) : w[k] \in Fulls
    BY DEF ListThenFull
  <2>1. PICK j \in i + 2..Len(q) :
          ListAt(q, o, j) /\ \E k \in j + 1..Len(q) : q[k] \in Fulls
    <3>1. CASE i + 1 \in 0..Len(q) /\ StaleList(q, l, o, i + 1)
      <4>1. \E j \in (i + 1) + 1..Len(q) :
               ListAt(q, o, j) /\ \E k \in j + 1..Len(q) : q[k] \in Fulls
        BY <1>4, <3>1 DEF ListThenFull
      <4>2. (i + 1) + 1 = i + 2 OBVIOUS
      <4>3. QED BY <4>1, <4>2
    <3>2. CASE i = 0 /\ 0 \in 0..Len(q) /\ StaleList(q, l, o, 0) /\ ~ListAt(q, o, 1)
      <4>1. PICK j \in 0 + 1..Len(q) :
               ListAt(q, o, j) /\ \E k \in j + 1..Len(q) : q[k] \in Fulls
        BY <1>4, <3>2 DEF ListThenFull
      <4>2. j # 1 BY <3>2, <4>1
      <4>3. j \in i + 2..Len(q) BY <1>1, <3>2, <4>2
      <4>4. QED BY <4>1, <4>3
    <3>3. QED BY <1>2, <3>1, <3>2
  <2>2. PICK k \in j + 1..Len(q) : q[k] \in Fulls BY <2>1
  <2>3. /\ j \in 2..Len(q) /\ j - 1 \in i + 1..Len(w)
        /\ k \in 2..Len(q) /\ k - 1 \in (j - 1) + 1..Len(w)
    BY <1>1
  <2>4. w[j - 1] = q[j] /\ w[k - 1] = q[k] BY <1>1, <2>3
  <2>5. ListAt(w, o, j - 1) /\ w[k - 1] \in Fulls BY <2>1, <2>2, <2>4 DEF ListAt
  <2>6. QED BY <2>3, <2>5
<1>5. QED BY <1>3, <1>4 DEF w

LEMMA ViewTaken ==
  ASSUME NEW q \in Seq(DownType), q # <<>>, NEW v, NEW p, NEW x, NEW y, NEW a,
         IF Head(q) \in Fulls THEN x = Head(q).state.conv /\ y = NoConv
                              ELSE x = v /\ y = p,
         ViewMended(q, v, p, a)
  PROVE  ViewMended(Tail(q), x, y, a)
<1> DEFINE w == Tail(q)
<1>1. /\ Head(q) = q[1] /\ Len(q) \in Nat \ {0} /\ Len(w) = Len(q) - 1
      /\ \A i \in 1..Len(w) : i + 1 \in 1..Len(q) /\ w[i] = q[i + 1]
      /\ \A i \in 2..Len(q) : i - 1 \in 1..Len(w) /\ w[i - 1] = q[i]
  BY TailAt
<1> HIDE DEF w
<1> SUFFICES ASSUME NEW i \in 0..Len(w), StaleView(w, x, y, a, i)
             PROVE  \E k \in i + 1..Len(w) : FullAt(w, a, k)
  BY DEF ViewMended, w
<1>2. \/ i + 1 \in 0..Len(q) /\ StaleView(q, v, p, a, i + 1)
      \/ i = 0 /\ 0 \in 0..Len(q) /\ StaleView(q, v, p, a, 0) /\ ~FullAt(q, a, 1)
  <2>1. CASE i # 0
    <3>1. i \in 1..Len(w) /\ i + 1 # 0 /\ i + 1 \in 0..Len(q) BY <1>1, <2>1
    <3>2. w[i] \in Fulls /\ w[i].state.conv # a BY <2>1 DEF StaleView
    <3>3. QED BY <1>1, <3>1, <3>2 DEF StaleView
  <2>2. CASE i = 0 /\ Head(q) \in Fulls
    <3>1. 1 \in 0..Len(q) /\ q[1] \in Fulls /\ q[1].state.conv # a
      BY <1>1, <2>2 DEF StaleView
    <3>2. QED BY <2>2, <3>1 DEF StaleView
  <2>3. CASE i = 0 /\ Head(q) \notin Fulls
    BY <1>1, <2>3 DEF StaleView, FullAt
  <2>4. QED BY <2>1, <2>2, <2>3
<1>3. PICK k \in i + 2..Len(q) : FullAt(q, a, k)
  <2>1. CASE i + 1 \in 0..Len(q) /\ StaleView(q, v, p, a, i + 1)
    <3>1. \E k \in (i + 1) + 1..Len(q) : FullAt(q, a, k) BY <2>1 DEF ViewMended
    <3>2. (i + 1) + 1 = i + 2 OBVIOUS
    <3>3. QED BY <3>1, <3>2
  <2>2. CASE i = 0 /\ 0 \in 0..Len(q) /\ StaleView(q, v, p, a, 0) /\ ~FullAt(q, a, 1)
    <3>1. PICK k \in 0 + 1..Len(q) : FullAt(q, a, k) BY <2>2 DEF ViewMended
    <3>2. k # 1 BY <2>2, <3>1
    <3>3. k \in i + 2..Len(q) BY <1>1, <2>2, <3>2
    <3>4. QED BY <3>1, <3>3
  <2>3. QED BY <1>2, <2>1, <2>2
<1>4. k \in 2..Len(q) /\ k - 1 \in i + 1..Len(w) BY <1>1
<1>5. QED BY <1>1, <1>3, <1>4 DEF FullAt

(* What a message does to a tab that is followed, or not yet.               *)
LEMMA FollowSent ==
  ASSUME NEW q \in Seq(DownType), NEW b \in Seq(DownType), NEW m \in DownType,
         NEW u, NEW w, NEW l, NEW v, NEW p, NEW o, NEW a, NEW was, NEW stages,
         \A i \in 1..Len(b) : ListFits(b[i], o) /\ ViewFits(b[i], a),
         ListFits(m, o), ViewFits(m, a),
         \/ ListMended(q, l, o)
         \/ Len(b) >= 1 /\ ListAt(b, o, 1),
         \/ m \in Fulls
         \/ Awaited(w, (q \o b) \o <<m>>, o, a, stages)
         \/ /\ Followed(u, q, l, v, p, o, a, was)
            /\ Awaited(u, q, o, a, was) => Awaited(w, (q \o b) \o <<m>>, o, a, stages)
  PROVE  Followed(w, (q \o b) \o <<m>>, l, v, p, o, a, stages)
<1> DEFINE e == <<m>>
           r == q \o b
<1>1. e \in Seq(DownType) /\ Len(e) = 1 /\ \A i \in 1..Len(e) : e[i] = m OBVIOUS
<1>2. r \in Seq(DownType) BY ConcatProperties
<1>3. ListMended(r, l, o)
  <2>1. CASE ListMended(q, l, o) BY <2>1, ListExtended
  <2>2. CASE Len(b) >= 1 /\ ListAt(b, o, 1) BY <2>2, ListMends
  <2>3. QED BY <2>1, <2>2
<1>4. ListMended(r \o e, l, o)
  <2>1. \A i \in 1..Len(e) : ListFits(e[i], o) BY <1>1
  <2> HIDE DEF e, r
  <2>2. QED BY <1>1, <1>2, <1>3, <2>1, ListExtended
<1>5. CASE m \in Fulls
  <2>1. m.state.conv = a BY <1>5 DEF ViewFits
  <2> HIDE DEF r
  <2>2. ViewMended(r \o <<m>>, v, p, a) /\ ListThenFull(r \o <<m>>, l, o)
    BY <1>2, <1>3, <1>5, <2>1, FullMends
  <2>3. QED BY <1>4, <2>2 DEF Followed, r
<1>6. CASE Awaited(w, (q \o b) \o <<m>>, o, a, stages) BY <1>4, <1>6 DEF Followed
<1>7. CASE /\ Followed(u, q, l, v, p, o, a, was)
           /\ ~Awaited(u, q, o, a, was)
  <2>1. ListThenFull(q, l, o) /\ ViewMended(q, v, p, a) BY <1>7 DEF Followed
  <2>2. ListThenFull(r, l, o) /\ ViewMended(r, v, p, a)
    BY <2>1, ListExtended, ViewExtended
  <2>3. \A i \in 1..Len(e) : ListFits(e[i], o) /\ ViewFits(e[i], a) BY <1>1
  <2> HIDE DEF e, r
  <2>4. ListThenFull(r \o e, l, o) /\ ViewMended(r \o e, v, p, a)
    BY <1>1, <1>2, <2>2, <2>3, ListExtended, ViewExtended
  <2>5. QED BY <1>4, <2>4 DEF Followed, e, r
<1>8. QED BY <1>5, <1>6, <1>7

(* A request that is not for a full snapshot is taken, or one is made.      *)
LEMMA AskTaken ==
  ASSUME NEW u \in Seq(UpType), u # <<>>, NEW q, NEW o, NEW a, NEW stages,
         ~AsksFull(Head(u), o, a), Awaited(u, q, o, a, stages)
  PROVE  Awaited(Tail(u), q, o, a, stages)
<1>1. /\ Head(u) = u[1] /\ Len(u) \in Nat \ {0} /\ Len(Tail(u)) = Len(u) - 1
      /\ \A i \in 1..Len(Tail(u)) : Tail(u)[i] = u[i + 1]
  BY HeadTailProperties, EmptySeq, LenProperties
<1>2. ASSUME NEW i \in 1..Len(u), AsksFull(u[i], o, a)
      PROVE  \E k \in 1..Len(Tail(u)) : AsksFull(Tail(u)[k], o, a)
  <2>1. i # 1 BY <1>1, <1>2
  <2>2. i - 1 \in 1..Len(Tail(u)) /\ (i - 1) + 1 = i BY <1>1, <2>1
  <2>3. Tail(u)[i - 1] = u[i] BY <1>1, <2>2
  <2>4. QED BY <1>2, <2>2, <2>3
<1>3. QED BY <1>2 DEF Awaited

LEMMA AskMade ==
  ASSUME NEW u \in Seq(UpType), NEW m \in UpType, NEW q, NEW o, NEW a, NEW stages
  PROVE  /\ Awaited(u, q, o, a, stages) => Awaited(Append(u, m), q, o, a, stages)
         /\ AsksFull(m, o, a) => Awaited(Append(u, m), q, o, a, stages)
<1> DEFINE w == Append(u, m)
           n == Len(u) + 1
<1>1. /\ Len(u) \in Nat /\ Len(w) = n /\ w[n] = m
      /\ \A i \in 1..Len(u) : w[i] = u[i]
  BY AppendProperties, LenProperties
<1> HIDE DEF w
<1>2. n \in 1..Len(w) /\ \A i \in 1..Len(u) : i \in 1..Len(w) BY <1>1
<1>3. QED BY <1>1, <1>2 DEF Awaited, w

(* Emission: one more message on the wire of every sink, none dropped.      *)
Told(m, sinks, before) ==
  down' = [t \in Tab |-> IF t \notin sinks THEN down[t] ELSE (down[t] \o before[t]) \o <<m>>]

LEMMA AllTold ==
  ASSUME MaxDrops = 0, IInv, NothingDropped, NEW m, NEW s, NEW sinks \in SUBSET Tab,
         NEW before, Send(m, s, sinks, before, Armed)
  PROVE  NothingDropped' /\ Told(m, sinks, before)
<1> PICK dropped \in SUBSET {t \in sinks : sentFull[t]} :
      /\ drops + Cardinality(dropped) <= MaxDrops
      /\ drops' = drops + Cardinality(dropped)
      /\ down' = [t \in Tab |->
                   IF t \notin sinks THEN down[t]
                   ELSE down[t] \o before[t] \o (IF t \in dropped THEN <<>> ELSE <<m>>)]
      /\ retry' = [t \in Tab |-> t \in Armed \cup dropped]
  BY DEF Send
<1>1. dropped \in SUBSET Tab /\ IsFiniteSet(dropped)
  BY ConstantsAssumption, FS_Subset
<1>2. Cardinality(dropped) = 0
  <2>1. Cardinality(dropped) \in Nat BY <1>1, TabFinite
  <2>2. QED BY <2>1 DEF NothingDropped
<1>3. dropped = {} BY <1>1, <1>2, FS_EmptySet
<1>4. Armed = {} BY DEF Armed, NothingDropped
<1>5. drops' = 0 BY <1>2 DEF NothingDropped
<1>6. \A t \in Tab : retry'[t] = FALSE
  <2>1. \A t \in Tab : t \notin Armed \cup dropped BY <1>3, <1>4
  <2>2. \A t \in Tab : ~retry'[t] BY <2>1
  <2>3. retry' \in [Tab -> BOOLEAN] OBVIOUS
  <2>4. QED BY <2>2, <2>3
<1>7. Told(m, sinks, before)
  <2>1. \A t \in Tab : (IF t \in dropped THEN <<>> ELSE <<m>>) = <<m>> BY <1>3
  <2>2. QED BY <2>1 DEF Told
<1>8. QED BY <1>5, <1>6, <1>7 DEF NothingDropped

(* What emitSnapshotNow tells: a full snapshot of the active chat, or a     *)
(* delta when no full one was asked for and the chat is the last emitted.   *)
LEMMA ActiveTold ==
  ASSUME MaxDrops = 0, IInv, IInv', NothingDropped, NEW forceFull \in BOOLEAN,
         NEW sinks \in SUBSET Tab, NEW before,
         EmitSnapshotNow(forceFull, sinks, before, Armed)
  PROVE  /\ NothingDropped' /\ emitted'.conv = active' /\ active' \in Conv
         /\ \E m \in DownType :
              /\ Told(m, sinks, before) /\ m \notin Lists /\ ViewFits(m, active')
              /\ m \in Fulls \/ (forceFull = FALSE /\ emitted.conv = active')
<1> DEFINE c == active'
           messages == msgs'[c]
           s == Snapshot(c, snapRev + 1, messages, FALSE)
           m == SnapshotMsg(c, messages, forceFull)
<1>1. /\ Send(m, s, sinks, before, Armed)
      /\ emitted' = [conv |-> c, msgs |-> messages, rev |-> snapRev + 1]
  BY DEF EmitSnapshotNow
<1>2. Out /\ log' \subseteq SnapshotType BY TypeParts DEF IInv, TypeOK
<1>3. s \in SnapshotType BY <1>1, <1>2 DEF Send
<1>4. c \in Conv /\ messages \in Seq(Msg) /\ s.conv = c
  BY <1>3 DEF SnapshotType, Snapshot
<1>5. m \in DownType BY <1>2, <1>4, SnapshotMsgType
<1>6. NothingDropped' /\ Told(m, sinks, before)
  <2> HIDE DEF m, s, c, messages
  <2>1. QED BY <1>1, AllTold
<1>7. emitted'.conv = c BY <1>1
<1>8. /\ m \notin Lists /\ ViewFits(m, c)
      /\ m \in Fulls \/ (forceFull = FALSE /\ emitted.conv = c)
  <2>1. CASE Incremental(c, messages, forceFull)
    <3>1. m.type = "snapshot_delta" BY <2>1 DEF SnapshotMsg, DeltaMsg
    <3>2. forceFull = FALSE /\ emitted.conv = c BY <2>1 DEF Incremental
    <3>3. QED BY <3>1, <3>2 DEF Lists, Fulls, ViewFits
  <2>2. CASE ~Incremental(c, messages, forceFull)
    <3>1. m.type = "snapshot" /\ m.state = s BY <2>2 DEF SnapshotMsg, FullMsg
    <3>2. QED BY <1>4, <1>5, <3>1 DEF Lists, Fulls, ViewFits
  <2>3. QED BY <2>1, <2>2
<1> HIDE DEF m
<1>9. QED BY <1>4, <1>5, <1>6, <1>7, <1>8 DEF c

(* A request that is taken, and not for a full snapshot, or none.           *)
Kept(t) ==
  \/ up'[t] = up[t]
  \/ up[t] # <<>> /\ up'[t] = Tail(up[t]) /\ ~AsksFull(Head(up[t]), open, active)

LEMMA KeptAwaits ==
  ASSUME IInv, NEW t \in Tab, Kept(t), NEW q,
         Awaited(up[t], q, open, active, opening)
  PROVE  Awaited(up'[t], q, open, active, opening)
<1>1. up[t] \in Seq(UpType) BY TypeParts DEF IInv, TabsOK
<1>2. QED BY <1>1, AskTaken DEF Kept

LEMMA SentDown ==
  ASSUME IInv, NEW t \in Tab
  PROVE  down[t] \in Seq(DownType) /\ up[t] \in Seq(UpType)
  BY TypeParts DEF IInv, Out, TabsOK

(* What the server does without telling anybody.                            *)
LEMMA SilentFollowed ==
  ASSUME IInv, TabsFollowed,
         UNCHANGED <<open, active, opening, attached, down, list, view, pending>>,
         \A t \in Tab : Kept(t)
  PROVE  TabsFollowed'
<1> SUFFICES ASSUME ~Binding(opening), NEW t \in Tab, attached[t]
             PROVE  TabFollowed(t)'
  BY DEF TabsFollowed
<1>1. TabFollowed(t) BY DEF TabsFollowed
<1>2. Awaited(up[t], down[t], open, active, opening)
        => Awaited(up'[t], down[t], open, active, opening)
  BY KeptAwaits
<1>3. QED BY <1>1, <1>2 DEF TabFollowed, Followed

(* What it tells of a table that is as it was.                              *)
LEMMA FlushFollowed ==
  ASSUME MaxDrops = 0, IInv, IInv', TabsFollowed, NothingDropped,
         UNCHANGED <<open, active, attached, list, view, pending>>,
         Binding(opening) => Binding(opening'),
         NEW forceFull \in BOOLEAN, FlushSnapshot(forceFull),
         \/ forceFull = TRUE
         \/ opening' = opening /\ \A t \in Tab : Kept(t)
  PROVE  TabsFollowed' /\ EmittedActive' /\ NothingDropped'
<1>1. EmitSnapshotNow(forceFull, Sinks, Nothing, Armed) BY DEF FlushSnapshot
<1>2. PICK m \in DownType :
        /\ Told(m, Sinks, Nothing) /\ m \notin Lists /\ ViewFits(m, active')
        /\ m \in Fulls \/ (forceFull = FALSE /\ emitted.conv = active')
  BY <1>1, NothingType, ActiveTold
<1>3. NothingDropped' /\ emitted'.conv = active'
  BY <1>1, NothingType, ActiveTold
<1>4. EmittedActive' BY <1>3 DEF EmittedActive
<1>5. TabsFollowed'
  <2> SUFFICES ASSUME ~Binding(opening'), NEW t \in Tab, attached[t]
               PROVE  TabFollowed(t)'
    BY DEF TabsFollowed
  <2>1. TabFollowed(t) BY DEF TabsFollowed
  <2>2. down'[t] = (down[t] \o <<>>) \o <<m>>
    BY <1>2 DEF Told, Sinks, Nothing
  <2>3. down[t] \in Seq(DownType) /\ <<>> \in Seq(DownType) BY SentDown
  <2>4. \/ m \in Fulls
        \/ Awaited(up[t], down[t], open, active, opening)
             => Awaited(up'[t], (down[t] \o <<>>) \o <<m>>, open, active, opening')
    <3> SUFFICES ASSUME m \notin Fulls, Awaited(up[t], down[t], open, active, opening)
                 PROVE  Awaited(up'[t], (down[t] \o <<>>) \o <<m>>, open, active, opening')
      OBVIOUS
    <3>1. opening' = opening /\ Kept(t) BY <1>2
    <3>2. Awaited(up'[t], down[t], open, active, opening) BY <3>1, KeptAwaits
    <3>3. down[t] \o <<>> = down[t] /\ <<m>> \in Seq(DownType) BY <2>3
    <3>4. Awaited(up'[t], down[t] \o <<m>>, open, active, opening)
      BY <2>3, <3>2, <3>3, AwaitedExtended
    <3>5. QED BY <3>1, <3>3, <3>4
  <2>5. ListFits(m, open) /\ ViewFits(m, active) BY <1>2 DEF ListFits
  <2>6. ListMended(down[t], list[t], open) BY <2>1 DEF TabFollowed, Followed
  <2>7. \A i \in 1..Len(<<>>) : FALSE OBVIOUS
  <2>8. Followed(up'[t], (down[t] \o <<>>) \o <<m>>, list[t], view[t].conv, pending[t],
                 open, active, opening')
    BY <2>1, <2>3, <2>4, <2>5, <2>6, <2>7, FollowSent DEF TabFollowed
  <2>9. QED BY <2>2, <2>8 DEF TabFollowed
<1>6. QED BY <1>3, <1>4, <1>5

(* The list and a full snapshot mend every tab.                             *)
LEMMA ListFollowed ==
  ASSUME MaxDrops = 0, IInv, IInv', NothingDropped,
         UNCHANGED <<attached, list, view, pending>>,
         NEW forceFull \in BOOLEAN, FlushAfterList(forceFull),
         forceFull = TRUE \/ emitted.conv # active'
  PROVE  TabsFollowed' /\ EmittedActive' /\ NothingDropped'
<1>1. EmitSnapshotNow(forceFull, Sinks, Conversations, Armed) BY DEF FlushAfterList
<1>2. PICK m \in DownType :
        /\ Told(m, Sinks, Conversations) /\ m \notin Lists /\ ViewFits(m, active')
        /\ m \in Fulls
  BY <1>1, NothingType, ActiveTold
<1>3. NothingDropped' /\ emitted'.conv = active'
  BY <1>1, NothingType, ActiveTold
<1>4. EmittedActive' BY <1>3 DEF EmittedActive
<1>5. TabsFollowed'
  <2> SUFFICES ASSUME NEW t \in Tab, attached[t] PROVE TabFollowed(t)'
    BY DEF TabsFollowed
  <2> DEFINE b == <<ListMsg(open')>>
  <2>1. down'[t] = (down[t] \o b) \o <<m>>
    BY <1>2 DEF Told, Sinks, Conversations
  <2>2. open' \in SUBSET Conv BY TypeParts DEF IInv, TypeOK
  <2>3. ListMsg(open') \in DownType BY <2>2 DEF ListMsg, DownType
  <2>4. /\ b \in Seq(DownType) /\ Len(b) = 1 /\ ListAt(b, open', 1)
        /\ \A i \in 1..Len(b) : ListFits(b[i], open') /\ ViewFits(b[i], active')
    BY <2>3 DEF ListMsg, Lists, Fulls, ListAt, ListFits, ViewFits
  <2>5. down[t] \in Seq(DownType) BY SentDown
  <2>6. ListFits(m, open') BY <1>2 DEF ListFits
  <2> HIDE DEF b
  <2>7. Followed(up'[t], (down[t] \o b) \o <<m>>, list[t], view[t].conv, pending[t],
                 open', active', opening')
    BY <1>2, <2>4, <2>5, <2>6, FollowSent
  <2>8. QED BY <2>1, <2>7 DEF TabFollowed
<1>6. QED BY <1>3, <1>4, <1>5

(* The handlers.                                                            *)
TabsTold == TabsFollowed /\ EmittedActive /\ NothingDropped

LEMMA HelloFollowed ==
  ASSUME MaxDrops = 0, IInv, IInv', ClickIInv, NEW t \in Tab, TakeHello(t)
  PROVE  TabsTold'
<1> DEFINE before == [Conversations EXCEPT ![t] = Append(@, ReadyMsg)]
<1>1. /\ Take(t, "hello") /\ attached' = [attached EXCEPT ![t] = TRUE]
      /\ EmitSnapshotNow(FALSE, Sinks \cup {t}, before, Armed)
      /\ UNCHANGED <<list, view, pending, opening>>
      /\ used # {} => UNCHANGED table
  BY DEF TakeHello, Take, tabs, CreateSession, table
<1>2. Sinks \cup {t} \in SUBSET Tab BY NothingType
<1>3. NothingDropped /\ TabsFollowed BY DEF ClickIInv
<1> HIDE DEF before
<1>4. PICK m \in DownType :
        /\ Told(m, Sinks \cup {t}, before) /\ m \notin Lists /\ ViewFits(m, active')
        /\ m \in Fulls \/ (FALSE = FALSE /\ emitted.conv = active')
  BY <1>1, <1>2, <1>3, ActiveTold
<1>5. NothingDropped' /\ emitted'.conv = active'
  BY <1>1, <1>2, <1>3, ActiveTold
<1>6. EmittedActive' BY <1>5 DEF EmittedActive
<1>7. ListMsg(open') \in Lists /\ ListMsg(open') \notin Fulls /\ ListMsg(open').convs = open'
  <2>1. open' \in SUBSET Conv BY TypeParts DEF IInv, TypeOK
  <2>2. QED BY <2>1 DEF ListMsg, DownType, Lists, Fulls
<1>8. ReadyMsg \in DownType /\ ReadyMsg \notin Lists /\ ReadyMsg \notin Fulls
      /\ ReadyMsg.type = "ready"
  BY DEF ReadyMsg, DownType, Lists, Fulls
<1>9. ListFits(m, open') BY <1>4 DEF ListFits
<1>10. TabsFollowed'
  <2> SUFFICES ASSUME ~Binding(opening'), NEW x \in Tab, attached'[x]
               PROVE  TabFollowed(x)'
    BY DEF TabsFollowed
  <2>1. down[x] \in Seq(DownType) BY SentDown
  <2>2. CASE x = t
    <3> DEFINE b == before[t]
               q == down[t] \o b
    <3>1. b = Append(<<ListMsg(open')>>, ReadyMsg) BY DEF before, Conversations
    <3>2. down'[t] = (down[t] \o b) \o <<m>> BY <1>4 DEF Told
    <3>3. /\ b \in Seq(DownType) /\ Len(b) = 2 /\ b[1] = ListMsg(open') /\ b[2] = ReadyMsg
          /\ ListAt(b, open', 1)
      <4>1. <<ListMsg(open')>> \in Seq(DownType) BY <1>7 DEF Lists
      <4>2. QED BY <1>7, <1>8, <3>1, <4>1, AppendProperties DEF ListAt
    <3>4. \A i \in 1..Len(b) : ListFits(b[i], open') /\ ViewFits(b[i], active')
      BY <1>7, <1>8, <3>3 DEF ListFits, ViewFits
    <3> HIDE DEF b
    <3>5. \E i \in 1..Len(q) : q[i].type = "ready"
      <4>1. 2 \in 1..Len(b) /\ b[2].type = "ready" BY <1>8, <3>3
      <4>2. down[t] \in Seq(DownType) /\ b \in Seq(DownType) BY <2>1, <2>2, <3>3
      <4>3. \A i \in 1..Len(b) : Len(down[t]) + i \in 1..Len(q)
                                /\ q[Len(down[t]) + i] = b[i]
        BY <4>2, ConcatAt
      <4>4. QED BY <4>1, <4>3
    <3>6. Awaited(up'[t], q, open', active', opening') BY <3>5 DEF Awaited
    <3>7. q \in Seq(DownType) /\ <<m>> \in Seq(DownType) BY <2>1, <2>2, <3>3, ConcatAt
    <3> HIDE DEF q
    <3>8. Awaited(up'[t], q \o <<m>>, open', active', opening')
      BY <3>6, <3>7, AwaitedExtended
    <3>9. Len(b) >= 1 BY <3>3
    <3>10. Followed(up'[t], (down[t] \o b) \o <<m>>, list[t], view[t].conv, pending[t],
                    open', active', opening')
      BY <1>4, <1>9, <2>1, <2>2, <3>3, <3>4, <3>8, <3>9, FollowSent DEF q
    <3>11. QED BY <1>1, <2>2, <3>2, <3>10 DEF TabFollowed
  <2>3. CASE x # t
    <3>1. attached[x] BY <1>1, <2>3 DEF IInv, TypeOK
    <3>2. used # {} BY <3>1 DEF ClickIInv, SocketsOpen
    <3>3. UNCHANGED <<open, active, opening>> BY <1>1, <3>2 DEF table
    <3>4. TabFollowed(x) /\ ~Binding(opening) BY <1>1, <1>3, <3>1 DEF TabsFollowed
    <3> DEFINE b == <<ListMsg(open')>>
    <3>5. before[x] = b BY <2>3 DEF before, Conversations
    <3>6. down'[x] = (down[x] \o b) \o <<m>> BY <1>4, <3>1, <3>5 DEF Told, Sinks
    <3>7. up'[x] = up[x] BY <1>1, <2>3 DEF Take, IInv, TypeOK
    <3>8. b \in Seq(DownType) /\ Len(b) = 1 /\ b[1] = ListMsg(open')
      BY <1>7 DEF Lists
    <3>9. \A i \in 1..Len(b) : ListFits(b[i], open') /\ ViewFits(b[i], active')
      BY <1>7, <3>8 DEF ListFits, ViewFits
    <3> HIDE DEF b
    <3>10. Awaited(up[x], down[x], open, active, opening)
             => Awaited(up'[x], (down[x] \o b) \o <<m>>, open', active', opening')
      <4> SUFFICES ASSUME Awaited(up[x], down[x], open, active, opening)
                   PROVE  Awaited(up[x], (down[x] \o b) \o <<m>>, open, active, opening)
        BY <3>3, <3>7
      <4>1. Awaited(up[x], down[x] \o b, open, active, opening)
        BY <2>1, <3>8, AwaitedExtended
      <4>2. down[x] \o b \in Seq(DownType) /\ <<m>> \in Seq(DownType)
        BY <2>1, <3>8, ConcatAt
      <4>3. QED BY <4>1, <4>2, AwaitedExtended
    <3>11. Followed(up[x], down[x], list[x], view[x].conv, pending[x], open', active', opening)
      BY <3>3, <3>4 DEF TabFollowed
    <3>12. Awaited(up[x], down[x], open', active', opening)
             => Awaited(up'[x], (down[x] \o b) \o <<m>>, open', active', opening')
      BY <3>3, <3>10
    <3>13. ListMended(down[x], list[x], open') BY <3>11 DEF Followed
    <3>14. Followed(up'[x], (down[x] \o b) \o <<m>>, list[x], view[x].conv, pending[x],
                    open', active', opening')
      BY <1>4, <1>9, <2>1, <3>8, <3>9, <3>11, <3>12, <3>13, FollowSent
    <3>15. QED BY <1>1, <3>6, <3>14 DEF TabFollowed
  <2>4. QED BY <2>2, <2>3
<1>11. QED BY <1>5, <1>6, <1>10 DEF TabsTold

(* A request that does not ask for a full snapshot was taken from one tab.  *)
LEMMA TakeKept ==
  ASSUME IInv, NEW t \in Tab, NEW type, Take(t, type),
         ~AsksFull(Head(up[t]), open, active)
  PROVE  \A x \in Tab : Kept(x)
<1>1. up' = [up EXCEPT ![t] = Tail(@)] /\ up[t] # <<>> BY DEF Take
<1>2. \A x \in Tab : IF x = t THEN up'[x] = Tail(up[x]) ELSE up'[x] = up[x]
  BY <1>1 DEF IInv, TypeOK
<1>3. QED BY <1>1, <1>2 DEF Kept

LEMMA SwitchFollowed ==
  ASSUME MaxDrops = 0, IInv, IInv', ClickIInv, NEW t \in Tab, NEW type, Take(t, type),
         UNCHANGED attached, NEW c, SwitchConversation(c),
         c \notin open \/ c = active => ~AsksFull(Head(up[t]), open, active)
  PROVE  TabsTold'
<1>1. TabsTold BY DEF TabsTold, ClickIInv
<1>2. UNCHANGED <<list, view, pending>> BY DEF Take, tabs
<1>3. CASE c \notin open \/ c = active
  <2>1. UNCHANGED <<open, active, opening, down, drops, retry, emitted>>
    BY <1>3 DEF SwitchConversation, Silent, Unsent, table
  <2>2. \A x \in Tab : Kept(x) BY <1>3, TakeKept
  <2>3. TabsFollowed' BY <1>1, <1>2, <2>1, <2>2, SilentFollowed DEF TabsTold
  <2>4. QED BY <1>1, <2>1, <2>3 DEF TabsTold, EmittedActive, NothingDropped
<1>4. CASE ~(c \notin open \/ c = active)
  <2>1. /\ active' = c /\ c # active /\ UNCHANGED opening
        /\ FlushAfterList(FALSE)
    BY <1>4 DEF SwitchConversation, Activate
  <2>2. c \in Conv BY <1>4 DEF IInv, TypeOK
  <2>3. CASE Binding(opening)
    <3>1. EmitSnapshotNow(FALSE, Sinks, Conversations, Armed) BY <2>1 DEF FlushAfterList
    <3>2. NothingDropped' BY <1>1, <3>1, NothingType, ActiveTold DEF TabsTold
    <3>3. QED BY <2>1, <2>3, <3>2 DEF TabsTold, TabsFollowed, EmittedActive
  <2>4. CASE ~Binding(opening)
    <3>1. emitted.conv # active'
      BY <1>1, <2>1, <2>2, <2>4, ConstantsAssumption DEF TabsTold, EmittedActive
    <3>2. NothingDropped BY <1>1 DEF TabsTold
    <3>3. QED BY <1>2, <2>1, <3>1, <3>2, ListFollowed DEF TabsTold
  <2>5. QED BY <2>3, <2>4
<1>5. QED BY <1>3, <1>4

LEMMA PreviewFollowed ==
  ASSUME MaxDrops = 0, IInv, IInv', ClickIInv, NEW t \in Tab, Take(t, "switch_session"),
         UNCHANGED <<attached, active, open>>, NEW c \in Conv \ used,
         opening' = [opening EXCEPT ![c] = "session"], EmitSessionPreview(c)
  PROVE  TabsTold'
<1> DEFINE s == Snapshot(c, snapRev + 1, msgs'[c], TRUE)
           m == FullMsg(s)
<1>1. TabsTold BY DEF TabsTold, ClickIInv
<1>2. Send(m, s, Sinks, Nothing, Armed) /\ emitted'.conv = NoConv
  BY DEF EmitSessionPreview
<1>3. m \in DownType /\ m \notin Lists
  <2>1. s \in SnapshotType BY <1>2 DEF Send, IInv, TypeOK
  <2>2. QED BY <2>1 DEF FullMsg, DownType, Lists
<1> HIDE DEF m, s
<1>4. NothingDropped' /\ Told(m, Sinks, Nothing)
  BY <1>1, <1>2, NothingType, AllTold DEF TabsTold
<1>5. EmittedActive' BY <1>2 DEF EmittedActive
<1>6. opening[c] = "no" /\ opening'[c] = "session" /\ Binding(opening') = Binding(opening)
  BY DEF IInv, OpeningUsed, TypeOK, Binding
<1>7. TabsFollowed'
  <2> SUFFICES ASSUME ~Binding(opening'), NEW x \in Tab, attached[x]
               PROVE  TabFollowed(x)'
    BY DEF TabsFollowed
  <2>1. TabFollowed(x) BY <1>1, <1>6 DEF TabsTold, TabsFollowed
  <2>2. down'[x] = (down[x] \o <<>>) \o <<m>> BY <1>4 DEF Told, Sinks, Nothing
  <2>3. down[x] \in Seq(DownType) /\ down[x] \o <<>> = down[x]
    BY SentDown
  <2>4. <<m>> \in Seq(DownType) /\ \A i \in 1..Len(<<m>>) : ListFits(<<m>>[i], open)
    BY <1>3 DEF ListFits
  <2>5. ListMended(down[x], list[x], open) BY <2>1 DEF TabFollowed, Followed
  <2>6. ListMended(down[x] \o <<m>>, list[x], open)
    BY <2>3, <2>4, <2>5, ListExtended
  <2>7. Awaited(up'[x], down'[x], open, active, opening') BY <1>6 DEF Awaited
  <2>8. UNCHANGED list BY DEF Take, tabs
  <2>9. QED BY <2>2, <2>3, <2>6, <2>7, <2>8 DEF TabFollowed, Followed
<1>8. QED BY <1>4, <1>5, <1>7 DEF TabsTold

LEMMA ServedFollowed ==
  ASSUME MaxDrops = 0, IInv, IInv', ClickIInv, NEW t \in Tab, Served(t)
  PROVE  TabsTold'
<1>1. TabsTold BY DEF TabsTold, ClickIInv
<1>2. CASE TakeHello(t) BY <1>2, HelloFollowed
<1>3. ASSUME NEW type, Take(t, type), UNCHANGED <<table, attached>>,
             NEW forceFull \in BOOLEAN, FlushSnapshot(forceFull),
             forceFull = TRUE \/ ~AsksFull(Head(up[t]), open, active)
      PROVE  TabsTold'
  <2>1. UNCHANGED <<open, active, opening, list, view, pending>>
    BY <1>3 DEF Take, tabs, table
  <2>2. forceFull = TRUE \/ (opening' = opening /\ \A x \in Tab : Kept(x))
    BY <1>3, <2>1, TakeKept
  <2>3. QED BY <1>1, <1>3, <2>1, <2>2, FlushFollowed DEF TabsTold
<1>4. CASE TakeGetState(t) BY <1>3, <1>4 DEF TakeGetState
<1>5. CASE TakeSwitch(t)
  <2>1. /\ Take(t, "switch_conversation") /\ UNCHANGED attached
        /\ SwitchConversation(Head(up[t]).conv)
    BY <1>5 DEF TakeSwitch
  <2>2. Head(up[t]).type = "switch_conversation" BY <2>1 DEF Take
  <2>3. Head(up[t]).conv \notin open \/ Head(up[t]).conv = active
          => ~AsksFull(Head(up[t]), open, active)
    BY <2>2 DEF AsksFull
  <2>4. QED BY <2>1, <2>3, SwitchFollowed
<1>6. CASE TakeNewChat(t)
  <2>1. Head(up[t]).type = "new_chat" /\ up[t] # <<>> BY <1>6 DEF TakeNewChat, Take
  <2>2. Head(up[t]) = up[t][1] /\ 1 \in 1..Len(up[t])
    BY <2>1, SentDown, HeadTailProperties, EmptySeq, LenProperties
  <2>3. QED BY <2>1, <2>2 DEF ClickIInv, NoNewChats
<1>7. CASE TakeSwitchSession(t)
  <2>1. /\ Take(t, "switch_session") /\ UNCHANGED attached
        /\ Head(up[t]).type = "switch_session"
    BY <1>7 DEF TakeSwitchSession, Take
  <2>2. ~AsksFull(Head(up[t]), open, active) BY <2>1 DEF AsksFull
  <2>3. CASE \E c \in open : SwitchConversation(c)
    BY <2>1, <2>2, <2>3, SwitchFollowed
  <2>4. CASE UNCHANGED table /\ \E forceFull \in BOOLEAN : FlushSnapshot(forceFull)
    BY <1>3, <2>1, <2>2, <2>4
  <2>5. ASSUME NEW c \in Conv \ used, opening' = [opening EXCEPT ![c] = "session"],
               UNCHANGED <<active, open>>, EmitSessionPreview(c)
        PROVE  TabsTold'
    BY <2>1, <2>5, PreviewFollowed
  <2>6. QED BY <1>7, <2>3, <2>4, <2>5 DEF TakeSwitchSession
<1>8. CASE TakePrompt(t)
  <2>1. /\ Take(t, "prompt") /\ UNCHANGED <<table, attached>>
        /\ Head(up[t]).type = "prompt"
        /\ Silent \/ FlushSnapshot(FALSE)
    BY <1>8 DEF TakePrompt, Take
  <2>2. ~AsksFull(Head(up[t]), open, active) BY <2>1 DEF AsksFull
  <2>3. CASE Silent
    <3>1. UNCHANGED <<open, active, opening, down, drops, retry, emitted, list, view, pending>>
      BY <2>1, <2>3 DEF Silent, Unsent, table, Take, tabs
    <3>2. TabsFollowed' BY <1>1, <2>1, <2>2, <3>1, TakeKept, SilentFollowed DEF TabsTold
    <3>3. QED BY <1>1, <3>1, <3>2 DEF TabsTold, EmittedActive, NothingDropped
  <2>4. CASE FlushSnapshot(FALSE) BY <1>3, <2>1, <2>2, <2>4
  <2>5. QED BY <2>1, <2>3, <2>4
<1>9. QED BY <1>2, <1>4, <1>5, <1>6, <1>7, <1>8 DEF Served

(* Events, the timer and the boots of sessions.                             *)
LEMMA EventFollowed ==
  ASSUME MaxDrops = 0, IInv, IInv', ClickIInv,
         SnapshotTimer \/ \E c \in Conv : OnEvent(c)
  PROVE  TabsTold'
<1>1. TabsTold BY DEF TabsTold, ClickIInv
<1>2. /\ UNCHANGED <<open, active, opening, attached, up, list, view, pending>>
      /\ FlushSnapshot(FALSE) \/ ScheduleSnapshot
  BY DEF SnapshotTimer, OnEvent, table, tabs
<1>3. \A x \in Tab : Kept(x) BY <1>2 DEF Kept
<1>4. CASE FlushSnapshot(FALSE)
  <2>1. Binding(opening) => Binding(opening') BY <1>2
  <2>2. QED BY <1>1, <1>2, <1>3, <1>4, <2>1, FlushFollowed DEF TabsTold
<1>5. CASE ScheduleSnapshot
  <2>1. UNCHANGED <<down, drops, retry, emitted>> BY <1>5 DEF ScheduleSnapshot, Unsent
  <2>2. TabsFollowed' BY <1>1, <1>2, <1>3, <2>1, SilentFollowed DEF TabsTold
  <2>3. QED BY <1>1, <1>2, <2>1, <2>2 DEF TabsTold, EmittedActive, NothingDropped
<1>6. QED BY <1>2, <1>4, <1>5

LEMMA OpenedFollowed ==
  ASSUME MaxDrops = 0, "refused" \notin Outcomes, IInv, IInv', ClickIInv,
         NEW c \in Conv, Opened(c)
  PROVE  TabsTold'
<1>1. TabsTold BY DEF TabsTold, ClickIInv
<1>2. opening[c] \in {"no", "session", "sessionBind"} /\ opening \in [Conv -> Stages]
  BY DEF ClickIInv, NoNewChats, IInv, TypeOK
<1>3. CASE SessionBooted(c)
  <2>1. opening' = [opening EXCEPT ![c] = "sessionBind"] /\ UNCHANGED <<drops, retry>>
    BY <1>3 DEF SessionBooted, Silent, Unsent
  <2>2. Binding(opening') BY <1>2, <2>1 DEF Binding
  <2>3. QED BY <1>1, <2>1, <2>2 DEF TabsTold, TabsFollowed, EmittedActive, NothingDropped
<1>4. CASE SessionBound(c)
  <2>1. FlushAfterList(TRUE) /\ UNCHANGED <<attached, list, view, pending>>
    BY <1>4 DEF SessionBound, tabs
  <2>2. QED BY <1>1, <2>1, ListFollowed DEF TabsTold
<1>5. CASE SessionFails(c)
  <2>1. /\ opening[c] = "session" /\ opening' = [opening EXCEPT ![c] = "no"]
        /\ FlushSnapshot(TRUE) /\ UNCHANGED <<active, open, attached, list, view, pending>>
    BY <1>5 DEF SessionFails, tabs
  <2>2. Binding(opening) => Binding(opening') BY <1>2, <2>1 DEF Binding
  <2>3. QED BY <1>1, <2>1, <2>2, FlushFollowed DEF TabsTold
<1>6. QED
  BY <1>2, <1>3, <1>4, <1>5
  DEF Opened, SessionRefused, NewChatBooted, NewChatBound, NewChatFails

(* The tab: what it receives.                                               *)
LEMMA OthersFollowed ==
  ASSUME TabsFollowed, NEW t \in Tab, UNCHANGED <<open, active, opening>>,
         \A x \in Tab : x # t => /\ up'[x] = up[x] /\ down'[x] = down[x] /\ list'[x] = list[x]
                                 /\ view'[x] = view[x] /\ pending'[x] = pending[x]
                                 /\ attached'[x] => attached[x],
         ~Binding(opening) /\ attached'[t] => TabFollowed(t)'
  PROVE  TabsFollowed'
<1> SUFFICES ASSUME ~Binding(opening'), NEW x \in Tab, attached'[x]
             PROVE  TabFollowed(x)'
  BY DEF TabsFollowed
<1>1. CASE x = t BY <1>1
<1>2. CASE x # t
  <2>1. TabFollowed(x) BY <1>2 DEF TabsFollowed
  <2>2. QED BY <1>2, <2>1 DEF TabFollowed
<1>3. QED BY <1>1, <1>2

LEMMA ReceivedFollowed ==
  ASSUME IInv, IInv', ClickIInv, NEW t \in Tab, Received(t)
  PROVE  TabsTold'
<1> DEFINE q == down[t]
           h == Head(q)
           l == list[t]
           n == list'[t]
           x == view'[t].conv
<1>1. TabsTold BY DEF TabsTold, ClickIInv
<1>2. TabsOK /\ Out BY TypeParts DEF IInv
<1>3. /\ q # <<>> /\ down' = [down EXCEPT ![t] = Tail(q)]
      /\ UNCHANGED <<open, active, opening, attached, retry, drops, emitted>>
  BY DEF Received, ReceiveReady, ReceiveConversations, ReceiveSnapshot, ReceiveDelta, Receive,
         table, sockets, emitter
<1>4. q \in Seq(DownType) BY SentDown
<1>5. down'[t] = Tail(q) /\ \A y \in Tab : y # t => down'[y] = down[y] BY <1>2, <1>3 DEF Out
<1>6. \A y \in Tab : y # t => /\ up'[y] = up[y] /\ list'[y] = list[y]
                              /\ view'[y] = view[y] /\ pending'[y] = pending[y]
  BY <1>2 DEF Received, ReceiveReady, ReceiveConversations, ReceiveSnapshot, ReceiveDelta, Ask,
              TabsOK
<1>7. IF h \in Lists THEN n = h.convs ELSE n = l
  <2>1. CASE ReceiveConversations(t)
    <3>1. h.type = "conversations" /\ list' = [list EXCEPT ![t] = h.convs]
      BY <2>1 DEF ReceiveConversations, Receive
    <3>2. h \in Lists BY <1>3, <1>4, <3>1, TailAt DEF Lists
    <3>3. QED BY <1>2, <3>1, <3>2 DEF TabsOK
  <2>2. CASE ~ReceiveConversations(t)
    <3>1. h.type # "conversations" /\ list' = list
      BY <2>2 DEF Received, ReceiveReady, ReceiveSnapshot, ReceiveDelta, Receive
    <3>2. QED BY <3>1 DEF Lists
  <2>3. QED BY <2>1, <2>2
<1>8. IF h \in Fulls THEN x = h.state.conv /\ pending'[t] = NoConv
                     ELSE x = view[t].conv /\ pending'[t] = pending[t]
  <2>1. CASE ReceiveSnapshot(t)
    <3>1. /\ h.type = "snapshot" /\ view' = [view EXCEPT ![t] = h.state]
          /\ pending' = [pending EXCEPT ![t] = NoConv]
      BY <2>1 DEF ReceiveSnapshot, Receive
    <3>2. h \in Fulls BY <1>3, <1>4, <3>1, TailAt DEF Fulls
    <3>3. QED BY <1>2, <3>1, <3>2 DEF TabsOK
  <2>2. CASE ReceiveDelta(t)
    <3>1. /\ h.type = "snapshot_delta" /\ UNCHANGED pending
          /\ \/ view' = [view EXCEPT ![t] = Merged(@, h)]
             \/ UNCHANGED view
      BY <2>2 DEF ReceiveDelta, Receive
    <3>2. Merged(view[t], h).conv = view[t].conv BY DEF Merged, Snapshot
    <3>3. QED BY <1>2, <3>1, <3>2 DEF TabsOK, Fulls
  <2>3. CASE ~ReceiveSnapshot(t) /\ ~ReceiveDelta(t)
    <3>1. h.type # "snapshot" /\ UNCHANGED <<view, pending>>
      BY <2>3 DEF Received, ReceiveReady, ReceiveConversations, Receive
    <3>2. QED BY <3>1 DEF Fulls
  <2>4. QED BY <2>1, <2>2, <2>3
<1>9. Awaited(up[t], q, open, active, opening)
        => Awaited(up'[t], Tail(q), open, active, opening)
  <2>1. CASE ReceiveReady(t)
    <3> DEFINE g == [type |-> "get_state"]
    <3>1. up'[t] = Append(up[t], g)
      BY <1>2, <2>1 DEF ReceiveReady, Ask, TabsOK
    <3>2. g \in UpType /\ AsksFull(g, open, active) BY DEF UpType, AsksFull
    <3> HIDE DEF g
    <3>3. up[t] \in Seq(UpType) BY SentDown
    <3>4. QED BY <3>1, <3>2, <3>3, AskMade
  <2>2. CASE ~ReceiveReady(t)
    <3>1. h.type # "ready" /\ up'[t] = up[t]
      BY <2>2 DEF Received, ReceiveConversations, ReceiveSnapshot, ReceiveDelta, Receive
    <3>2. ASSUME NEW i \in 1..Len(q), q[i].type = "ready"
          PROVE  \E k \in 1..Len(Tail(q)) : Tail(q)[k].type = "ready"
      <4>1. i # 1 BY <1>3, <1>4, <3>1, <3>2, TailAt
      <4>2. i \in 2..Len(q) BY <1>3, <1>4, <4>1, TailAt
      <4>3. i - 1 \in 1..Len(Tail(q)) /\ Tail(q)[i - 1] = q[i]
        BY <1>3, <1>4, <4>2, TailAt
      <4>4. QED BY <3>2, <4>3
    <3> HIDE DEF q
    <3>3. QED BY <3>1, <3>2 DEF Awaited
  <2>3. QED BY <2>1, <2>2
<1>10. ASSUME ~Binding(opening), attached[t] PROVE TabFollowed(t)'
  <2>1. Followed(up[t], q, l, view[t].conv, pending[t], open, active, opening)
    BY <1>1, <1>10 DEF TabsTold, TabsFollowed, TabFollowed
  <2> HIDE DEF q, l, n, x, h
  <2>2. /\ ListMended(q, l, open) => ListMended(Tail(q), n, open)
        /\ ListThenFull(q, l, open) => ListThenFull(Tail(q), n, open)
    BY <1>3, <1>4, <1>7, ListTaken DEF h
  <2>3. ViewMended(q, view[t].conv, pending[t], active)
          => ViewMended(Tail(q), x, pending'[t], active)
    BY <1>3, <1>4, <1>8, ViewTaken DEF h
  <2>4. Followed(up'[t], Tail(q), n, x, pending'[t], open, active, opening)
    BY <1>9, <2>1, <2>2, <2>3 DEF Followed
  <2>5. QED BY <1>3, <1>5, <2>4 DEF TabFollowed, n, x
<1>11. TabsFollowed'
  BY <1>1, <1>3, <1>5, <1>6, <1>10, OthersFollowed DEF TabsTold
<1>12. QED BY <1>1, <1>3, <1>11 DEF TabsTold, EmittedActive, NothingDropped

(* The tab: its user and its timers.                                        *)
LEMMA AskFollowed ==
  ASSUME ClickIInv, IInv, NEW t \in Tab, NEW m \in UpType,
         \/ up' = [up EXCEPT ![t] = Append(@, m)]
         \/ UNCHANGED up,
         UNCHANGED <<open, active, opening, attached, retry, drops, emitted, down, list>>,
         \/ UNCHANGED <<view, pending>>
         \/ /\ up' = [up EXCEPT ![t] = Append(@, m)] /\ AsksFull(m, open, active)
            /\ \A y \in Tab : y # t => view'[y] = view[y] /\ pending'[y] = pending[y]
         \/ UNCHANGED view /\ pending' = [pending EXCEPT ![t] = NoConv]
         \/ /\ view[t].conv # active \/ pending[t] # NoConv
            /\ \A y \in Tab : y # t => view'[y] = view[y] /\ pending'[y] = pending[y]
         \/ /\ list[t] # open
            /\ \A y \in Tab : y # t => view'[y] = view[y] /\ pending'[y] = pending[y]
  PROVE  TabsTold'
<1>1. TabsTold BY DEF TabsTold, ClickIInv
<1>2. TabsOK BY TypeParts DEF IInv
<1>3. up[t] \in Seq(UpType) /\ down[t] \in Seq(DownType) BY SentDown
<1>4. /\ \A y \in Tab : y # t => up'[y] = up[y] /\ view'[y] = view[y]
                                 /\ pending'[y] = pending[y]
      /\ up'[t] = Append(up[t], m) \/ up'[t] = up[t]
  BY <1>2 DEF TabsOK
<1>5. Awaited(up[t], down[t], open, active, opening)
        => Awaited(up'[t], down[t], open, active, opening)
  <2>1. Awaited(up[t], down[t], open, active, opening)
          => Awaited(Append(up[t], m), down[t], open, active, opening)
    BY <1>3, AskMade
  <2>2. QED BY <1>4, <2>1
<1>6. ASSUME ~Binding(opening), attached[t] PROVE TabFollowed(t)'
  <2>1. Followed(up[t], down[t], list[t], view[t].conv, pending[t], open, active, opening)
    BY <1>1, <1>6 DEF TabsTold, TabsFollowed, TabFollowed
  <2> SUFFICES ASSUME ~Awaited(up'[t], down[t], open, active, opening)
               PROVE  /\ ListThenFull(down[t], list[t], open)
                      /\ ViewMended(down[t], view'[t].conv, pending'[t], active)
    BY <2>1 DEF TabFollowed, Followed
  <2>2. /\ ListThenFull(down[t], list[t], open)
        /\ ViewMended(down[t], view[t].conv, pending[t], active)
    BY <1>5, <2>1 DEF Followed
  <2>3. CASE UNCHANGED <<view, pending>> BY <2>2, <2>3
  <2>4. CASE up' = [up EXCEPT ![t] = Append(@, m)] /\ AsksFull(m, open, active)
    <3>1. up'[t] = Append(up[t], m) BY <1>2, <2>4 DEF TabsOK
    <3>2. QED BY <1>3, <2>4, <3>1, AskMade
  <2>5. CASE UNCHANGED view /\ pending' = [pending EXCEPT ![t] = NoConv]
    <3>1. pending'[t] = NoConv /\ view'[t] = view[t] BY <1>2, <2>5 DEF TabsOK
    <3>2. \A i \in 0..Len(down[t]) :
            StaleView(down[t], view[t].conv, NoConv, active, i)
              => StaleView(down[t], view[t].conv, pending[t], active, i)
      BY DEF StaleView
    <3>3. QED BY <2>2, <3>1, <3>2 DEF ViewMended
  <2>6. CASE \E k \in 1..Len(down[t]) : FullAt(down[t], active, k)
    <3>1. PICK k \in 1..Len(down[t]) : FullAt(down[t], active, k) BY <2>6
    <3>2. k \in 0 + 1..Len(down[t]) BY <3>1
    <3>3. ASSUME NEW i \in 0..Len(down[t]),
                 StaleView(down[t], view'[t].conv, pending'[t], active, i)
          PROVE  \E j \in i + 1..Len(down[t]) : FullAt(down[t], active, j)
      <4>1. CASE i = 0 BY <3>1, <3>2, <4>1
      <4>2. CASE i # 0
        <5>1. StaleView(down[t], view[t].conv, pending[t], active, i)
          BY <3>3, <4>2 DEF StaleView
        <5>2. QED BY <2>2, <5>1 DEF ViewMended
      <4>3. QED BY <4>1, <4>2
    <3>4. QED BY <2>2, <3>3 DEF ViewMended
  <2>7. CASE view[t].conv # active \/ pending[t] # NoConv
    <3>1. 0 \in 0..Len(down[t]) BY <1>3, LenProperties
    <3>2. StaleView(down[t], view[t].conv, pending[t], active, 0) BY <2>7 DEF StaleView
    <3>3. \E k \in 0 + 1..Len(down[t]) : FullAt(down[t], active, k)
      BY <2>2, <3>1, <3>2 DEF ViewMended
    <3>4. QED BY <2>6, <3>3
  <2>8. CASE list[t] # open
    <3>1. 0 \in 0..Len(down[t]) BY <1>3, LenProperties
    <3>2. StaleList(down[t], list[t], open, 0) BY <2>8 DEF StaleList
    <3>3. PICK j \in 0 + 1..Len(down[t]) :
            ListAt(down[t], open, j) /\ \E k \in j + 1..Len(down[t]) : down[t][k] \in Fulls
      BY <2>2, <3>1, <3>2 DEF ListThenFull
    <3>4. PICK k \in j + 1..Len(down[t]) : down[t][k] \in Fulls BY <3>3
    <3>5. k \in 1..Len(down[t]) /\ k # 0 BY <3>3
    <3>6. CASE down[t][k].state.conv = active
      <4>1. FullAt(down[t], active, k) BY <3>4, <3>6 DEF FullAt
      <4>2. QED BY <2>6, <3>5, <4>1
    <3>7. CASE down[t][k].state.conv # active
      <4>1. StaleView(down[t], view[t].conv, pending[t], active, k)
        BY <3>4, <3>5, <3>7 DEF StaleView
      <4>2. PICK z \in k + 1..Len(down[t]) : FullAt(down[t], active, z)
        BY <2>2, <3>5, <4>1 DEF ViewMended
      <4>3. z \in 1..Len(down[t]) BY <3>5
      <4>4. QED BY <2>6, <4>2, <4>3
    <3>8. QED BY <3>6, <3>7
  <2>9. QED BY <2>3, <2>4, <2>5, <2>7, <2>8
<1>7. TabsFollowed' BY <1>1, <1>4, <1>6, OthersFollowed DEF TabsTold
<1>8. QED BY <1>1, <1>7 DEF TabsTold, EmittedActive, NothingDropped

LEMMA ActsFollowed ==
  ASSUME "new" \notin Clicks, IInv, ClickIInv, NEW t \in Tab,
         Clicked(t) \/ ClickTimeout(t) \/ ScheduledResync(t) \/ Connect(t) \/ Disconnect(t)
  PROVE  TabsTold'
<1>1. TabsTold BY DEF TabsTold, ClickIInv
<1>2. TabsOK BY TypeParts DEF IInv
<1> DEFINE ask == [type |-> "get_state"]
<1>3. ask \in UpType BY DEF UpType
<1>4. CASE Clicked(t) \/ ClickTimeout(t) \/ ScheduledResync(t)
  <2>1. UNCHANGED <<open, active, opening, attached, retry, drops, emitted, down, list>>
    BY <1>4 DEF Clicked, ClickSwitch, ClickNewChat, ClickSession, SendPrompt, ClickTimeout,
                ScheduledResync, InTab, table, sockets, emitter, tabs
  <2>2. ASSUME NEW c \in Conv, ClickSwitch(t, c) PROVE TabsTold'
    <3> DEFINE m == [type |-> "switch_conversation", conv |-> c]
    <3>1. /\ c \in list[t] /\ up' = [up EXCEPT ![t] = Append(@, m)]
          /\ IF view[t].conv = c /\ pending[t] # NewChat
             THEN UNCHANGED <<pending, view>>
             ELSE /\ pending' = [pending EXCEPT ![t] = c]
                  /\ view' = [view EXCEPT ![t] =
                               IF cache[t][c] = NoSnapshot THEN @ ELSE cache[t][c]]
      BY <2>2 DEF ClickSwitch, Ask
    <3>2. m \in UpType BY DEF UpType
    <3>3. \A y \in Tab : y # t => view'[y] = view[y] /\ pending'[y] = pending[y]
      BY <1>2, <3>1 DEF TabsOK
    <3>4. pending[t] # NewChat BY DEF ClickIInv, NoNewChats
    <3>5. AsksFull(m, open, active) <=> c \in open \ {active} BY DEF AsksFull
    <3> HIDE DEF m
    <3>6. CASE view[t].conv = c BY <2>1, <3>1, <3>2, <3>4, <3>6, AskFollowed
    <3>7. CASE c \in open \ {active} BY <2>1, <3>1, <3>2, <3>3, <3>5, <3>7, AskFollowed
    <3>8. CASE c \notin open
      <4>1. list[t] # open BY <3>1, <3>8
      <4>2. QED BY <2>1, <3>1, <3>2, <3>3, <4>1, AskFollowed
    <3>9. CASE c = active /\ view[t].conv # c
      BY <2>1, <3>1, <3>2, <3>3, <3>9, AskFollowed
    <3>10. QED BY <3>6, <3>7, <3>8, <3>9
  <2>3. ASSUME NEW m \in UpType, Ask(t, m), UNCHANGED <<view, pending>> PROVE TabsTold'
    BY <2>1, <2>3, AskFollowed DEF Ask
  <2>4. CASE ClickSession(t)
    <3>1. [type |-> "switch_session"] \in UpType BY DEF UpType
    <3>2. QED BY <2>3, <2>4, <3>1 DEF ClickSession, tabs
  <2>5. CASE SendPrompt(t)
    <3>1. view[t].conv \in Conv
      BY <1>2, <2>5 DEF SendPrompt, TabsOK, SnapshotType
    <3>2. [type |-> "prompt", shown |-> view[t].conv] \in UpType BY <3>1 DEF UpType
    <3>3. QED BY <2>3, <2>5, <3>2 DEF SendPrompt, tabs
  <2>6. CASE ClickTimeout(t)
    <3>1. UNCHANGED <<up, view>> /\ pending' = [pending EXCEPT ![t] = NoConv]
      BY <2>6 DEF ClickTimeout
    <3>2. QED BY <1>3, <2>1, <3>1, AskFollowed
  <2>7. CASE ScheduledResync(t)
    <3>1. /\ Ask(t, ask) \/ UNCHANGED up
          /\ UNCHANGED <<view, pending>>
      BY <2>7 DEF ScheduledResync
    <3>2. QED BY <1>3, <2>1, <3>1, AskFollowed DEF Ask
  <2>8. ~ClickNewChat(t) BY DEF ClickNewChat
  <2>9. QED BY <1>4, <2>2, <2>4, <2>5, <2>6, <2>7, <2>8 DEF Clicked
<1>5. CASE Connect(t)
  <2>1. /\ ~connected[t] /\ \A y \in Tab : y # t => up'[y] = up[y]
        /\ UNCHANGED <<open, active, opening, attached, retry, drops, emitted, down,
                       list, view, pending>>
    BY <1>2, <1>5 DEF Connect, InTab, table, sockets, emitter, TabsOK
  <2>2. ~attached[t] BY <2>1 DEF ClickIInv, SocketsOpen
  <2>3. TabsFollowed' BY <1>1, <2>1, <2>2, OthersFollowed DEF TabsTold
  <2>4. QED BY <1>1, <2>1, <2>3 DEF TabsTold, EmittedActive, NothingDropped
<1>6. CASE Disconnect(t)
  <2>1. /\ \A y \in Tab : y # t => up'[y] = up[y] /\ down'[y] = down[y]
                                   /\ attached'[y] = attached[y]
        /\ ~attached'[t] /\ retry' = [retry EXCEPT ![t] = FALSE]
        /\ UNCHANGED <<open, active, opening, drops, emitted, list, view, pending>>
    BY <1>2, <1>6, TypeParts DEF Disconnect, table, emitter, TabsOK, IInv, Out
  <2>2. TabsFollowed' BY <1>1, <2>1, OthersFollowed DEF TabsTold
  <2>3. NothingDropped'
    <3>1. \A y \in Tab : retry[y] = FALSE BY <1>1 DEF TabsTold, NothingDropped
    <3>2. \A y \in Tab : retry'[y] = FALSE
      BY <2>1, <3>1, TypeParts DEF IInv, Out
    <3>3. QED BY <1>1, <2>1, <3>2 DEF TabsTold, NothingDropped
  <2>4. QED BY <1>1, <2>1, <2>2, <2>3 DEF TabsTold, EmittedActive
<1>7. QED BY <1>4, <1>5, <1>6

(* What a step of the server does to the sockets: it takes a request, or    *)
(* leaves a socket that is not attached as it is.                           *)
LEMMA SinksOnly ==
  ASSUME NEW forceFull, NEW c, NEW x \in Tab, ~attached[x], down \in [Tab -> Seq(DownType)],
         \/ FlushSnapshot(forceFull) \/ FlushAfterList(forceFull)
         \/ EmitSessionPreview(c) \/ Silent \/ ScheduleSnapshot
  PROVE  down'[x] = down[x]
<1>1. ASSUME NEW m, NEW s, NEW before, Send(m, s, Sinks, before, Armed)
      PROVE  down'[x] = down[x]
  <2>1. x \notin Sinks BY DEF Sinks
  <2>2. QED BY <1>1, <2>1 DEF Send
<1>2. ASSUME NEW before, EmitSnapshotNow(forceFull, Sinks, before, Armed)
      PROVE  down'[x] = down[x]
  BY <1>1, <1>2 DEF EmitSnapshotNow
<1>3. CASE FlushSnapshot(forceFull) BY <1>2, <1>3 DEF FlushSnapshot
<1>4. CASE FlushAfterList(forceFull) BY <1>2, <1>4 DEF FlushAfterList
<1>5. CASE EmitSessionPreview(c) BY <1>1, <1>5 DEF EmitSessionPreview
<1>6. CASE Silent \/ ScheduleSnapshot BY <1>6 DEF Silent, ScheduleSnapshot, Unsent
<1>7. QED BY <1>3, <1>4, <1>5, <1>6

Requested(x) ==
  \/ up'[x] = up[x] /\ attached'[x] = attached[x] /\ (~attached[x] => down'[x] = down[x])
  \/ up[x] # <<>> /\ up'[x] = Tail(up[x])

LEMMA ServerRequested ==
  ASSUME IInv,
         \/ SnapshotTimer
         \/ \E c \in Conv : OnEvent(c) \/ Opened(c)
         \/ \E t \in Tab : Served(t)
  PROVE  UNCHANGED tabs /\ \A x \in Tab : Requested(x)
<1>1. TabsOK /\ Out BY TypeParts DEF IInv
<1>2. CASE SnapshotTimer
  <2>1. UNCHANGED <<attached, up, tabs>> /\ FlushSnapshot(FALSE) BY <1>2 DEF SnapshotTimer
  <2>2. QED BY <1>1, <2>1, SinksOnly DEF Requested, Out
<1>3. ASSUME NEW c \in Conv, OnEvent(c) \/ Opened(c)
      PROVE  UNCHANGED tabs /\ \A x \in Tab : Requested(x)
  <2>1. /\ UNCHANGED <<attached, up, tabs>>
        /\ \/ \E forceFull \in BOOLEAN : FlushSnapshot(forceFull) \/ FlushAfterList(forceFull)
           \/ Silent \/ ScheduleSnapshot
    BY <1>3 DEF OnEvent, Opened, SessionBooted, SessionBound, SessionRefused, SessionFails,
                NewChatBooted, NewChatBound, NewChatFails
  <2>2. QED BY <1>1, <2>1, SinksOnly DEF Requested, Out
<1>4. ASSUME NEW t \in Tab, Served(t)
      PROVE  UNCHANGED tabs /\ \A x \in Tab : Requested(x)
  <2>1. ASSUME NEW type, Take(t, type)
        PROVE  /\ UNCHANGED tabs /\ up[t] # <<>> /\ up'[t] = Tail(up[t])
               /\ \A x \in Tab : x # t => up'[x] = up[x]
    BY <1>1, <2>1 DEF Take, TabsOK
  <2>2. CASE TakeHello(t)
    <3>1. Take(t, "hello") BY <2>2 DEF TakeHello
    <3>2. ASSUME NEW x \in Tab, x # t
          PROVE  attached'[x] = attached[x] /\ (~attached[x] => down'[x] = down[x])
      <4>1. attached'[x] = attached[x] BY <1>1, <2>2, <3>2 DEF TakeHello, TabsOK
      <4>2. ASSUME ~attached[x] PROVE down'[x] = down[x]
        <5>1. x \notin Sinks \cup {t} BY <3>2, <4>2 DEF Sinks
        <5>2. QED BY <2>2, <5>1 DEF TakeHello, EmitSnapshotNow, Send
      <4>3. QED BY <4>1, <4>2
    <3>3. QED BY <2>1, <3>1, <3>2 DEF Requested
  <2>3. CASE ~TakeHello(t)
    <3>1. \E type : Take(t, type)
      BY <1>4, <2>3 DEF Served, TakeGetState, TakeSwitch, TakeNewChat, TakeSwitchSession,
                        TakePrompt
    <3>2. UNCHANGED attached
      BY <1>4, <2>3 DEF Served, TakeGetState, TakeSwitch, TakeNewChat, TakeSwitchSession,
                        TakePrompt
    <3>3. \/ \E forceFull \in BOOLEAN : FlushSnapshot(forceFull) \/ FlushAfterList(forceFull)
          \/ \E c \in Conv : EmitSessionPreview(c)
          \/ Silent
      <4>1. ASSUME NEW c, SwitchConversation(c)
            PROVE  Silent \/ \E forceFull \in BOOLEAN : FlushAfterList(forceFull)
        BY <4>1 DEF SwitchConversation
      <4>2. CASE TakeGetState(t) \/ TakePrompt(t) BY <4>2 DEF TakeGetState, TakePrompt
      <4>3. CASE TakeSwitch(t) BY <4>1, <4>3 DEF TakeSwitch
      <4>4. CASE TakeNewChat(t) BY <4>4 DEF TakeNewChat
      <4>5. CASE TakeSwitchSession(t) BY <4>1, <4>5 DEF TakeSwitchSession
      <4>6. QED BY <1>4, <2>3, <4>2, <4>3, <4>4, <4>5 DEF Served
    <3>4. \A x \in Tab : ~attached[x] => down'[x] = down[x]
      BY <1>1, <3>3, SinksOnly DEF Out
    <3>5. QED BY <2>1, <3>1, <3>2, <3>4 DEF Requested
  <2>4. QED BY <2>2, <2>3
<1>5. QED BY <1>2, <1>3, <1>4

(* No new chat is asked for, so none is opened.                             *)
NoNew(u) == \A i \in 1..Len(u) : u[i].type # "new_chat"

LEMMA NoNewKept ==
  ASSUME NEW u \in Seq(UpType), NoNew(u)
  PROVE  /\ u # <<>> => NoNew(Tail(u))
         /\ \A m \in UpType : m.type # "new_chat" => NoNew(Append(u, m))
<1>1. ASSUME u # <<>> PROVE NoNew(Tail(u))
  <2>1. /\ Len(u) \in Nat \ {0} /\ Len(Tail(u)) = Len(u) - 1
        /\ \A i \in 1..Len(Tail(u)) : Tail(u)[i] = u[i + 1]
    BY <1>1, HeadTailProperties, EmptySeq, LenProperties
  <2>2. \A i \in 1..Len(Tail(u)) : i + 1 \in 1..Len(u) BY <2>1
  <2>3. QED BY <2>1, <2>2 DEF NoNew
<1>2. ASSUME NEW m \in UpType, m.type # "new_chat" PROVE NoNew(Append(u, m))
  <2>1. /\ Len(u) \in Nat /\ Len(Append(u, m)) = Len(u) + 1
        /\ Append(u, m)[Len(u) + 1] = m
        /\ \A i \in 1..Len(u) : Append(u, m)[i] = u[i]
    BY AppendProperties, LenProperties
  <2>2. \A i \in 1..Len(u) + 1 : i \in 1..Len(u) \/ i = Len(u) + 1 BY <2>1
  <2>3. QED BY <1>2, <2>1, <2>2 DEF NoNew
<1>3. QED BY <1>1, <1>2

(* A tab asks for something else than a new chat, on an open socket, or     *)
(* for nothing.                                                             *)
Asks(t) ==
  \/ UNCHANGED up
  \/ /\ connected[t]
     /\ \E m \in UpType : m.type # "new_chat" /\ up' = [up EXCEPT ![t] = Append(@, m)]

LEMMA TabAsks ==
  ASSUME "new" \notin Clicks, IInv, ClickIInv, NEW t \in Tab,
         Received(t) \/ Clicked(t) \/ ClickTimeout(t) \/ ScheduledResync(t)
  PROVE  Asks(t)
<1>1. TabsOK BY TypeParts DEF IInv
<1>2. CASE ReceiveReady(t)
  <2>1. down[t] # <<>> BY <1>2 DEF ReceiveReady, Receive
  <2>2. connected[t] BY <2>1 DEF ClickIInv, SocketsOpen
  <2>3. [type |-> "get_state"] \in UpType BY DEF UpType
  <2>4. QED BY <1>2, <2>2, <2>3 DEF ReceiveReady, Ask, Asks
<1>3. CASE ReceiveConversations(t) \/ ReceiveSnapshot(t) \/ ReceiveDelta(t) \/ ClickTimeout(t)
  BY <1>3 DEF ReceiveConversations, ReceiveSnapshot, ReceiveDelta, ClickTimeout, Asks
<1>4. ASSUME NEW c \in Conv, ClickSwitch(t, c) PROVE Asks(t)
  <2>1. [type |-> "switch_conversation", conv |-> c] \in UpType BY DEF UpType
  <2>2. QED BY <1>4, <2>1 DEF ClickSwitch, Ask, Asks
<1>5. CASE ClickSession(t)
  <2>1. [type |-> "switch_session"] \in UpType BY DEF UpType
  <2>2. QED BY <1>5, <2>1 DEF ClickSession, Ask, Asks
<1>6. CASE SendPrompt(t)
  <2>1. view[t].conv \in Conv BY <1>1, <1>6 DEF SendPrompt, TabsOK, SnapshotType
  <2>2. [type |-> "prompt", shown |-> view[t].conv] \in UpType BY <2>1 DEF UpType
  <2>3. QED BY <1>6, <2>2 DEF SendPrompt, Ask, Asks
<1>7. CASE ScheduledResync(t)
  <2>1. [type |-> "get_state"] \in UpType BY DEF UpType
  <2>2. QED BY <1>7, <2>1 DEF ScheduledResync, Ask, Asks
<1>8. ~ClickNewChat(t) BY DEF ClickNewChat
<1>9. QED BY <1>2, <1>3, <1>4, <1>5, <1>6, <1>7, <1>8 DEF Received, Clicked

(* The stages of the boots.                                                 *)
LEMMA StagesKept ==
  ASSUME "new" \notin Clicks, IInv, ClickIInv, [Next]_vars
  PROVE  \A c \in Conv : opening'[c] \in {"no", "session", "sessionBind"}
<1> DEFINE Fine == \A c \in Conv : opening'[c] \in {"no", "session", "sessionBind"}
<1>1. /\ \A c \in Conv : opening[c] \in {"no", "session", "sessionBind"}
      /\ opening \in [Conv -> Stages]
  BY DEF ClickIInv, NoNewChats, IInv, TypeOK
<1>2. CASE UNCHANGED opening BY <1>1, <1>2
<1>3. ASSUME NEW c \in Conv, NEW s \in {"no", "session", "sessionBind"},
             opening' = [opening EXCEPT ![c] = s]
      PROVE  Fine
  BY <1>1, <1>3
<1>4. ASSUME NEW c \in Conv, OnEvent(c) \/ Opened(c) PROVE Fine
  <2>1. CASE OnEvent(c) BY <1>2, <2>1 DEF OnEvent
  <2>2. CASE SessionBooted(c) BY <1>3, <2>2 DEF SessionBooted
  <2>3. CASE SessionBound(c) \/ SessionRefused(c) \/ SessionFails(c)
    BY <1>3, <2>3 DEF SessionBound, SessionRefused, SessionFails
  <2>4. CASE NewChatBooted(c) \/ NewChatBound(c) \/ NewChatFails(c)
    BY <1>1, <2>4 DEF NewChatBooted, NewChatBound, NewChatFails
  <2>5. QED BY <1>4, <2>1, <2>2, <2>3, <2>4 DEF Opened
<1>5. ASSUME NEW t \in Tab, Served(t) PROVE Fine
  <2>1. ASSUME NEW c, SwitchConversation(c) PROVE UNCHANGED opening
    BY <2>1 DEF SwitchConversation, table
  <2>2. CASE TakeHello(t) BY <1>2, <2>2 DEF TakeHello, CreateSession, table
  <2>3. CASE TakeGetState(t) \/ TakePrompt(t) BY <1>2, <2>3 DEF TakeGetState, TakePrompt, table
  <2>4. CASE TakeSwitch(t) BY <1>2, <2>1, <2>4 DEF TakeSwitch
  <2>5. CASE TakeNewChat(t)
    <3>1. Head(up[t]).type = "new_chat" /\ up[t] # <<>> BY <2>5 DEF TakeNewChat, Take
    <3>2. Head(up[t]) = up[t][1] /\ 1 \in 1..Len(up[t])
      BY <3>1, SentDown, HeadTailProperties, EmptySeq, LenProperties
    <3>3. QED BY <3>1, <3>2 DEF ClickIInv, NoNewChats
  <2>6. CASE TakeSwitchSession(t)
    BY <1>2, <1>3, <2>1, <2>6 DEF TakeSwitchSession, table
  <2>7. QED BY <1>5, <2>2, <2>3, <2>4, <2>5, <2>6 DEF Served
<1>6. CASE Restart BY <1>6 DEF Restart
<1>7. CASE ~Restart /\ ~(\E c \in Conv : OnEvent(c) \/ Opened(c)) /\ ~(\E t \in Tab : Served(t))
  <2>1. UNCHANGED opening
    BY <1>7 DEF Next, vars, SnapshotTimer, SnapshotRetry, Received, ReceiveReady,
                ReceiveConversations, ReceiveSnapshot, ReceiveDelta, Receive, Clicked,
                ClickSwitch, ClickNewChat, ClickSession, SendPrompt, ClickTimeout,
                ScheduledResync, Connect, Disconnect, InTab, table
  <2>2. QED BY <1>2, <2>1
<1>8. QED BY <1>4, <1>5, <1>6, <1>7

LEMMA PendingKept ==
  ASSUME "new" \notin Clicks, IInv, ClickIInv, [Next]_vars, NEW t \in Tab
  PROVE  pending'[t] # NewChat
<1>1. pending[t] # NewChat BY DEF ClickIInv, NoNewChats
<1>2. TabsOK BY TypeParts DEF IInv
<1>3. ASSUME NEW x \in Tab, NEW c \in Conv \cup {NoConv}, pending' = [pending EXCEPT ![x] = c]
      PROVE  pending'[t] # NewChat
  BY <1>1, <1>2, <1>3, ConstantsAssumption DEF TabsOK
<1>4. CASE UNCHANGED pending BY <1>1, <1>4
<1>5. ASSUME NEW x \in Tab, Received(x) \/ Clicked(x) \/ ClickTimeout(x)
      PROVE  pending'[t] # NewChat
  <2>1. ASSUME NEW c \in Conv, ClickSwitch(x, c) PROVE pending'[t] # NewChat
    BY <1>3, <1>4, <2>1 DEF ClickSwitch
  <2>2. CASE ReceiveSnapshot(x) \/ ClickTimeout(x)
    BY <1>3, <2>2 DEF ReceiveSnapshot, ClickTimeout
  <2>3. CASE \/ ReceiveReady(x) \/ ReceiveConversations(x) \/ ReceiveDelta(x)
             \/ ClickSession(x) \/ SendPrompt(x)
    BY <1>4, <2>3 DEF ReceiveReady, ReceiveConversations, ReceiveDelta, ClickSession,
                      SendPrompt, tabs
  <2>4. ~ClickNewChat(x) BY DEF ClickNewChat
  <2>5. QED BY <1>5, <2>1, <2>2, <2>3, <2>4 DEF Received, Clicked
<1>6. CASE ~(\E x \in Tab : Received(x) \/ Clicked(x) \/ ClickTimeout(x))
  <2>1. CASE \/ SnapshotTimer
             \/ \E c \in Conv : OnEvent(c) \/ Opened(c)
             \/ \E x \in Tab : Served(x)
    BY <1>4, <2>1, ServerRequested DEF tabs
  <2>2. CASE ~(\/ SnapshotTimer
               \/ \E c \in Conv : OnEvent(c) \/ Opened(c)
               \/ \E x \in Tab : Served(x))
    <3>1. UNCHANGED pending
      BY <1>6, <2>2 DEF Next, vars, SnapshotRetry, ScheduledResync, Connect, Disconnect,
                        Restart, tabs
    <3>2. QED BY <1>4, <3>1
  <2>3. QED BY <2>1, <2>2
<1>7. QED BY <1>5, <1>6

(* The sockets after a step.                                                *)
LEMMA WiresKept ==
  ASSUME "new" \notin Clicks, IInv, IInv', ClickIInv, [Next]_vars, NEW t \in Tab
  PROVE  /\ NoNew(up'[t])
         /\ attached'[t] \/ up'[t] # <<>> \/ down'[t] # <<>> => connected'[t]
<1> DEFINE Goal == /\ NoNew(up'[t])
                   /\ attached'[t] \/ up'[t] # <<>> \/ down'[t] # <<>> => connected'[t]
<1>1. TabsOK /\ Out BY TypeParts DEF IInv
<1>2. /\ NoNew(up[t]) /\ up[t] \in Seq(UpType)
      /\ attached[t] \/ up[t] # <<>> \/ down[t] # <<>> => connected[t]
  BY SentDown DEF ClickIInv, NoNewChats, NoNew, SocketsOpen
<1>3. CASE UNCHANGED vars
  BY <1>2, <1>3 DEF vars, sockets, wires, tabs
<1>4. CASE \/ SnapshotTimer
           \/ \E c \in Conv : OnEvent(c) \/ Opened(c)
           \/ \E x \in Tab : Served(x)
  <2>1. Requested(t) /\ connected' = connected BY <1>4, ServerRequested DEF tabs
  <2>2. CASE up[t] # <<>> /\ up'[t] = Tail(up[t])
    BY <1>2, <2>1, <2>2, NoNewKept
  <2>3. CASE up'[t] = up[t] /\ attached'[t] = attached[t] /\ (~attached[t] => down'[t] = down[t])
    BY <1>2, <2>1, <2>3
  <2>4. QED BY <2>1, <2>2, <2>3 DEF Requested
<1>5. ASSUME NEW x \in Tab, SnapshotRetry(x) PROVE Goal
  BY <1>5 DEF SnapshotRetry, ClickIInv, NothingDropped
<1>6. ASSUME NEW x \in Tab, Received(x) \/ Clicked(x) \/ ClickTimeout(x) \/ ScheduledResync(x)
      PROVE  Goal
  <2>1. Asks(x) BY <1>6, TabAsks
  <2>2. UNCHANGED <<attached, connected>>
    BY <1>6 DEF Received, ReceiveReady, ReceiveConversations, ReceiveSnapshot, ReceiveDelta,
                Receive, Clicked, ClickSwitch, ClickNewChat, ClickSession, SendPrompt,
                ClickTimeout, ScheduledResync, InTab, sockets, tabs
  <2>3. down'[t] = down[t] \/ (x = t /\ down[t] # <<>>)
    BY <1>1, <1>6 DEF Received, ReceiveReady, ReceiveConversations, ReceiveSnapshot, ReceiveDelta,
                Receive, Clicked, ClickSwitch, ClickNewChat, ClickSession, SendPrompt,
                ClickTimeout, ScheduledResync, InTab, Out
  <2>4. CASE up'[t] = up[t] BY <1>2, <2>2, <2>3, <2>4
  <2>5. CASE up'[t] # up[t]
    <3>1. PICK m \in UpType : m.type # "new_chat" /\ up' = [up EXCEPT ![x] = Append(@, m)]
      BY <2>1, <2>5 DEF Asks
    <3>2. x = t /\ up'[t] = Append(up[t], m) BY <1>1, <2>5, <3>1 DEF TabsOK
    <3>3. connected[t] BY <2>1, <2>5, <3>2 DEF Asks
    <3>4. NoNew(up'[t]) BY <1>2, <3>1, <3>2, NoNewKept
    <3>5. QED BY <2>2, <3>3, <3>4
  <2>6. QED BY <2>4, <2>5
<1>7. \A i \in 1..Len(<<>>) : FALSE OBVIOUS
<1>8. ASSUME NEW x \in Tab, Connect(x) PROVE Goal
  <2>1. /\ connected' = [connected EXCEPT ![x] = TRUE]
        /\ up' = [up EXCEPT ![x] = <<[type |-> "hello"]>>]
        /\ UNCHANGED <<attached, down>>
    BY <1>8 DEF Connect, InTab, sockets
  <2>2. CASE x # t
    <3>1. up'[t] = up[t] /\ connected'[t] = connected[t] BY <1>1, <2>1, <2>2 DEF TabsOK
    <3>2. QED BY <1>2, <2>1, <3>1
  <2>3. CASE x = t
    <3> DEFINE m == [type |-> "hello"]
    <3>1. up'[t] = <<m>> /\ connected'[t] BY <1>1, <2>1, <2>3 DEF TabsOK
    <3>2. m.type # "new_chat" OBVIOUS
    <3> HIDE DEF m
    <3>3. Len(<<m>>) = 1 /\ <<m>>[1] = m OBVIOUS
    <3>4. NoNew(<<m>>) BY <3>2, <3>3 DEF NoNew
    <3>5. QED BY <3>1, <3>4
  <2>4. QED BY <2>2, <2>3
<1>9. ASSUME NEW x \in Tab, Disconnect(x) PROVE Goal
  <2>1. IF x = t THEN up'[t] = <<>> /\ down'[t] = <<>> /\ ~attached'[t]
                 ELSE /\ up'[t] = up[t] /\ down'[t] = down[t]
                      /\ attached'[t] = attached[t] /\ connected'[t] = connected[t]
    BY <1>1, <1>9 DEF Disconnect, TabsOK, Out
  <2>2. QED BY <1>2, <1>7, <2>1 DEF NoNew
<1>10. CASE Restart
  <2>1. up'[t] = <<>> /\ down'[t] = <<>> /\ ~attached'[t] BY <1>10 DEF Restart, Nothing
  <2>2. QED BY <1>7, <2>1 DEF NoNew
<1>11. QED BY <1>3, <1>4, <1>5, <1>6, <1>8, <1>9, <1>10 DEF Next

(* A tab is attached to a session only.                                     *)
LEMMA SessionAttached ==
  ASSUME IInv, IInv', ClickIInv, [Next]_vars, used' = {}
  PROVE  \A t \in Tab : ~attached'[t]
<1>1. used = {} => \A t \in Tab : ~attached[t] BY DEF ClickIInv, SocketsOpen
<1>2. attached \in [Tab -> BOOLEAN] BY TypeParts DEF IInv, TabsOK
<1>3. CASE UNCHANGED <<used, attached>> BY <1>1, <1>3
<1>4. CASE Restart BY <1>4 DEF Restart
<1>5. ASSUME NEW c \in Conv, OnEvent(c) \/ Opened(c) PROVE \A t \in Tab : ~attached'[t]
  <2>1. used = {} BY <1>5, UsedGrows
  <2>2. UNCHANGED attached
    BY <1>5 DEF OnEvent, Opened, SessionBooted, SessionBound, SessionRefused, SessionFails,
                NewChatBooted, NewChatBound, NewChatFails
  <2>3. QED BY <1>1, <2>1, <2>2
<1>6. ASSUME NEW x \in Tab, Served(x) PROVE \A t \in Tab : ~attached'[t]
  <2>1. used = {} BY <1>6, UsedGrows
  <2>2. ~TakeHello(x) BY <2>1 DEF TakeHello, CreateSession
  <2>3. UNCHANGED attached
    BY <1>6, <2>2 DEF Served, TakeGetState, TakeSwitch, TakeNewChat, TakeSwitchSession,
                      TakePrompt
  <2>4. QED BY <1>1, <2>1, <2>3
<1>7. ASSUME NEW x \in Tab, Disconnect(x) PROVE \A t \in Tab : ~attached'[t]
  <2>1. used = {} /\ attached' = [attached EXCEPT ![x] = FALSE]
    BY <1>7 DEF Disconnect, table
  <2>2. QED BY <1>1, <1>2, <2>1
<1>8. CASE \/ UNCHANGED vars \/ SnapshotTimer
           \/ \E x \in Tab : \/ Received(x) \/ Clicked(x) \/ SnapshotRetry(x)
                             \/ ClickTimeout(x) \/ ScheduledResync(x) \/ Connect(x)
  <2>1. UNCHANGED <<used, attached>>
    BY <1>8 DEF vars, SnapshotTimer, SnapshotRetry, Received, ReceiveReady,
                ReceiveConversations, ReceiveSnapshot, ReceiveDelta, Receive, Clicked,
                ClickSwitch, ClickNewChat, ClickSession, SendPrompt, ClickTimeout,
                ScheduledResync, Connect, InTab, table, sockets
  <2>2. QED BY <1>3, <2>1
<1>9. QED BY <1>4, <1>5, <1>6, <1>7, <1>8 DEF Next

LEMMA NextClick ==
  ASSUME MaxDrops = 0, "new" \notin Clicks, "refused" \notin Outcomes
  PROVE  IInv /\ ClickIInv /\ [Next]_vars => ClickIInv'
<1> SUFFICES ASSUME IInv, ClickIInv, [Next]_vars PROVE ClickIInv'
  OBVIOUS
<1>1. IInv' BY NextIInv
<1>2. TabsTold'
  <2>1. CASE UNCHANGED vars
    BY <2>1 DEF vars, table, emitter, sockets, wires, tabs, ClickIInv, TabsTold, TabsFollowed,
                TabFollowed, EmittedActive, NothingDropped
  <2>2. CASE \/ SnapshotTimer
             \/ \E c \in Conv : OnEvent(c) \/ Opened(c)
             \/ \E t \in Tab : Served(t)
    BY <1>1, <2>2, EventFollowed, OpenedFollowed, ServedFollowed
  <2>3. ASSUME NEW t \in Tab, SnapshotRetry(t) PROVE TabsTold'
    BY <2>3 DEF SnapshotRetry, ClickIInv, NothingDropped
  <2>4. ASSUME NEW t \in Tab,
               \/ Received(t)
               \/ Clicked(t) \/ ClickTimeout(t) \/ ScheduledResync(t)
               \/ Connect(t) \/ Disconnect(t)
        PROVE  TabsTold'
    BY <1>1, <2>4, ReceivedFollowed, ActsFollowed
  <2>5. CASE Restart
    <3>1. \A t \in Tab : attached'[t] = FALSE /\ retry'[t] = FALSE BY <2>5 DEF Restart
    <3>2. emitted'.conv = NoConv /\ UNCHANGED drops BY <2>5 DEF Restart
    <3>3. QED
      BY <3>1, <3>2 DEF ClickIInv, TabsTold, TabsFollowed, EmittedActive, NothingDropped
  <2>6. QED BY <2>1, <2>2, <2>3, <2>4, <2>5 DEF Next
<1>3. NoNewChats' BY <1>1, StagesKept, PendingKept, WiresKept DEF NoNewChats, NoNew
<1>4. SocketsOpen' BY <1>1, WiresKept, SessionAttached DEF SocketsOpen
<1>5. QED BY <1>2, <1>3, <1>4 DEF ClickIInv, TabsTold

LEMMA InitClick == Init => ClickIInv
<1> SUFFICES ASSUME Init PROVE ClickIInv
  OBVIOUS
<1>1. \A t \in Tab : /\ up[t] = <<>> /\ down[t] = <<>> /\ ~attached[t]
                     /\ retry[t] = FALSE /\ pending[t] = NoConv
  BY DEF Init, Nothing
<1>2. \A i \in 1..Len(<<>>) : FALSE OBVIOUS
<1>3. TabsFollowed /\ SocketsOpen BY <1>1 DEF TabsFollowed, SocketsOpen
<1>4. EmittedActive /\ NothingDropped BY <1>1 DEF Init, EmittedActive, NothingDropped
<1>5. NoNewChats BY <1>1, <1>2, ConstantsAssumption DEF Init, NoNewChats
<1>6. QED BY <1>3, <1>4, <1>5 DEF ClickIInv

(* Every click is answered: once nothing is under way no tab waits for its  *)
(* 15 s timeout with the composer locked, whatever the user clicked, opened *)
(* and sent, the runs published, and whatever disconnected or restarted     *)
(* meanwhile.  None of the three conditions can be left out: a snapshot     *)
(* that is dropped, a new chat that reuses the blank one, and a session     *)
(* refused at the cap after its preview each leave a click unanswered.      *)
THEOREM NoClickIsLost ==
  ASSUME MaxDrops = 0, "new" \notin Clicks, "refused" \notin Outcomes
  PROVE  Spec => []ClicksAnswered
<1>1. Init => IInv /\ ClickIInv BY InitIInv, InitClick
<1>2. IInv /\ ClickIInv /\ [Next]_vars => IInv' /\ ClickIInv' BY NextIInv, NextClick
<1>3. IInv /\ ClickIInv => ClicksAnswered
  <2> SUFFICES ASSUME IInv, ClickIInv, NEW t \in Tab, Quiet(t)
               PROVE  pending[t] = NoConv
    BY DEF ClicksAnswered
  <2>1. /\ attached[t] /\ up[t] = <<>> /\ down[t] = <<>>
        /\ \A c \in Conv : opening[c] = "no"
    BY DEF Quiet
  <2>2. TabFollowed(t) BY <2>1 DEF ClickIInv, TabsFollowed, Binding
  <2>3. Len(<<>>) = 0 /\ \A i \in 1..Len(<<>>) : FALSE OBVIOUS
  <2>4. ~Awaited(up[t], down[t], open, active, opening) BY <2>1, <2>3 DEF Awaited
  <2>5. ViewMended(<<>>, view[t].conv, pending[t], active)
    BY <2>1, <2>2, <2>4 DEF TabFollowed, Followed
  <2>6. ~StaleView(<<>>, view[t].conv, pending[t], active, 0)
    <3>1. 0 \in 0..Len(<<>>) BY <2>3
    <3>2. \A k \in 0 + 1..Len(<<>>) : FALSE BY <2>3
    <3>3. QED BY <2>5, <3>1, <3>2 DEF ViewMended
  <2>7. QED BY <2>6 DEF StaleView
<1>4. QED BY <1>1, <1>2, <1>3, PTL DEF Spec

=============================================================================
