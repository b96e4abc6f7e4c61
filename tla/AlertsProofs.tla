---------------------------- MODULE AlertsProofs ----------------------------
(***************************************************************************)
(* The part "alerts" of MCPanels, proved for every value of the constants: *)
(* the toasts and their ledger, the switch of the notifications and the    *)
(* requests of the browser it waits for, and the ways into a chat (a click *)
(* on a toast, the address, a hit of the search).  Each has an inductive   *)
(* invariant of its own, about the part alone.                             *)
(***************************************************************************)
EXTENDS PanelsProofs

-----------------------------------------------------------------------------
(* Alerts                                                                   *)

Kind == {"toggle", "test"}
PromptReq == [page : Page, kind : Kind, current : BOOLEAN]
Ask(p, k) == [page |-> p, kind |-> k, current |-> TRUE]
Request == [page : Page, event : Event]
ToastShown == [page : Page, event : Event, watched : BOOLEAN, on : BOOLEAN]

AlertFlags ==
  /\ enabled \in BOOLEAN /\ intent \in BOOLEAN /\ alertsCrossed \in BOOLEAN
  /\ watched \in [Page -> BOOLEAN] /\ switchShown \in [Page -> BOOLEAN]
  /\ testing \in [Page -> BOOLEAN]
ShowData ==
  /\ stage \in Alert!NotifyStages
  /\ lock \in Request \cup {Alert!NoLock} /\ lockQueue \in Seq(Request)
  /\ announcedTo \in [Event -> SUBSET Page]
  /\ ledger \in Seq(Event) /\ Len(ledger) <= LedgerSize /\ toasts \in Seq(ToastShown)
SwitchData ==
  /\ permission \in {"default", "granted", "denied"} /\ prompts \in Seq(PromptReq)
  /\ storageEvents \in [Page -> Nat] /\ userSteps \in 0 .. MaxAlertSteps
OneWatched(w) == \A p, q \in Page : w[p] /\ w[q] => p = q

(* An event is in the ledger once, and once for all it is in no toast yet   *)
(* while the tab that consumed it has not shown it.                         *)
Distinct(s) == \A i, j \in 1 .. Len(s) : s[i] = s[j] => i = j
Told(s, e) == \E i \in 1 .. Len(s) : s[i].event = e
ToldOnce(l, s, e, st) ==
  /\ \A i, j \in 1 .. Len(s) : s[i].event = s[j].event => i = j
  /\ \A i \in 1 .. Len(s) : Has(s[i].event, l)
  /\ st \in {"asking", "fallback"} => Has(e, l) /\ ~Told(s, e)
AlertOnce ==
  /\ Distinct(ledger)
  /\ lock = Alert!NoLock <=> stage = "none"
  /\ Cardinality(Event) <= LedgerSize => ToldOnce(ledger, toasts, lock.event, stage)
Gated(s) == \A i \in 1 .. Len(s) : ~s[i].watched /\ s[i].on

(* What the requests of the browser say of the switch: while the user did   *)
(* not go from one tab to another, they are of one tab, which has no        *)
(* storage event to come, and the last one that counts is his last choice.  *)
OneTab(c, ps) ==
  ~c => \A m, n \in PromptReq : Has(m, ps) /\ Has(n, ps) => m.page = n.page
TabIsQuiet(c, ps, ev) == ~c => \A m \in PromptReq : Has(m, ps) => ev[m.page] = 0
StaysOff(c, i, en, ps) ==
  ~c /\ ~i => ~en /\ \A p \in Page, k \in Kind : ~Has(Ask(p, k), ps)
WillBeOn(c, i, perm, en, ps, sh) ==
  ~c /\ i /\ perm # "denied" =>
    \/ en
    \/ \E p \in Page : \/ Has(Ask(p, "toggle"), ps)
                       \/ Has(Ask(p, "test"), ps) /\ ~sh[p]
SwitchAgrees(ev, sh, en, ps) ==
  \A p \in Page : ev[p] = 0 => \/ sh[p] = en
                               \/ sh[p] /\ Has(Ask(p, "toggle"), ps)
AlertChoice ==
  /\ OneTab(alertsCrossed, prompts) /\ TabIsQuiet(alertsCrossed, prompts, storageEvents)
  /\ StaysOff(alertsCrossed, intent, enabled, prompts)
  /\ WillBeOn(alertsCrossed, intent, permission, enabled, prompts, switchShown)
  /\ SwitchAgrees(storageEvents, switchShown, enabled, prompts)

AlertShowInv == ShowData /\ AlertOnce /\ Gated(toasts)
AlertSwitchInv == AlertFlags /\ SwitchData /\ OneWatched(watched) /\ AlertChoice
AlertIInv == AlertShowInv /\ AlertSwitchInv

(* What a list holds after an entry was added.                              *)
LEMMA HasAppend ==
  ASSUME NEW S, NEW s \in Seq(S), NEW e \in S, NEW c
  PROVE  Append(s, e) \in Seq(S) /\ (Has(c, Append(s, e)) <=> Has(c, s) \/ c = e)
<1> DEFINE r == Append(s, e)
<1>1. /\ r \in Seq(S) /\ Len(r) = Len(s) + 1 /\ Len(s) \in Nat
      /\ \A i \in 1 .. Len(s) : r[i] = s[i]
      /\ r[Len(s) + 1] = e
  BY AppendProperties, LenProperties
<1> HIDE DEF r
<1>2. ASSUME Has(c, r) PROVE Has(c, s) \/ c = e
  <2>1. PICK i \in 1 .. Len(r) : r[i] = c
    BY <1>2 DEF Has
  <2>2. i \in 1 .. Len(s) \/ i = Len(s) + 1
    BY <1>1, <2>1
  <2> QED BY <1>1, <2>1, <2>2 DEF Has
<1>3. ASSUME Has(c, s) PROVE Has(c, r)
  <2>1. PICK i \in 1 .. Len(s) : s[i] = c
    BY <1>3 DEF Has
  <2>2. i \in 1 .. Len(r) /\ r[i] = c
    BY <1>1, <2>1
  <2> QED BY <2>2 DEF Has
<1>4. ASSUME c = e PROVE Has(c, r)
  <2>1. Len(s) + 1 \in 1 .. Len(r)
    BY <1>1
  <2> QED BY <1>1, <1>4, <2>1 DEF Has
<1> QED BY <1>1, <1>2, <1>3, <1>4 DEF r

(* What it holds without one of its entries.                                *)
LEMMA HasRemoved ==
  ASSUME NEW S, NEW s \in Seq(S), NEW i \in 1 .. Len(s)
  PROVE  /\ RemoveAt(s, i) \in Seq(S)
         /\ \A c : Has(c, RemoveAt(s, i)) => Has(c, s)
         /\ \A c : Has(c, s) /\ c # s[i] => Has(c, RemoveAt(s, i))
<1> DEFINE r == RemoveAt(s, i)
<1>1. /\ r \in Seq(S) /\ Len(r) = Len(s) - 1 /\ Len(s) \in Nat
      /\ \A j \in 1 .. (Len(s) - 1) : r[j] = IF j < i THEN s[j] ELSE s[j + 1]
  BY RemoveAtProperties, LenProperties
<1> HIDE DEF r
<1>2. ASSUME NEW c, Has(c, r) PROVE Has(c, s)
  <2>1. PICK j \in 1 .. Len(r) : r[j] = c
    BY <1>2 DEF Has
  <2>2. j \in 1 .. Len(s) /\ j + 1 \in 1 .. Len(s)
    BY <1>1, <2>1
  <2>3. r[j] = s[j] \/ r[j] = s[j + 1]
    BY <1>1, <2>1
  <2> QED BY <2>1, <2>2, <2>3 DEF Has
<1>3. ASSUME NEW c, Has(c, s), c # s[i] PROVE Has(c, r)
  <2>1. PICK j \in 1 .. Len(s) : s[j] = c
    BY <1>3 DEF Has
  <2>2. CASE j < i
    <3>1. j \in 1 .. Len(r) /\ r[j] = c
      BY <1>1, <2>1, <2>2
    <3> QED BY <3>1 DEF Has
  <2>3. CASE ~ (j < i)
    <3>1. j # i
      BY <1>3, <2>1
    <3>2. PICK k : k = j - 1
      OBVIOUS
    <3>3. k \in 1 .. (Len(s) - 1) /\ ~(k < i) /\ k + 1 = j
      BY <1>1, <2>1, <2>3, <3>1, <3>2
    <3>4. k \in 1 .. Len(r) /\ r[k] = c
      BY <1>1, <2>1, <3>3
    <3> QED BY <3>4 DEF Has
  <2> QED BY <2>2, <2>3
<1> QED BY <1>1, <1>2, <1>3 DEF r

(* A list with no entry twice is no longer than the set it is drawn from.   *)
LEMMA DistinctIsShort ==
  ASSUME NEW S, IsFiniteSet(S), NEW s \in Seq(S), Distinct(s)
  PROVE  Len(s) <= Cardinality(S)
<1>1. Len(s) \in Nat /\ s \in [1 .. Len(s) -> S]
  BY LenProperties
<1>2. s \in Injection(1 .. Len(s), S)
  BY <1>1 DEF Injection, IsInjective, Distinct
<1>3. Cardinality(1 .. Len(s)) <= Cardinality(S)
  BY <1>2, FS_Injection
<1>4. Cardinality(1 .. Len(s)) = Len(s)
  <2>1. Cardinality(1 .. Len(s)) = IF 1 > Len(s) THEN 0 ELSE Len(s) - 1 + 1
    BY <1>1, FS_Interval
  <2> QED BY <1>1, <2>1
<1> QED BY <1>3, <1>4

(* The ledger after an event, which it did not hold: it holds it, and what  *)
(* it held as long as there are no more events than entries.                *)
LEMMA LedgerProperties ==
  ASSUME AlertShowInv, NEW e \in Event, ~Has(e, ledger)
  PROVE  LET l == Alert!LedgerAfter(e) IN
         /\ l \in Seq(Event) /\ Len(l) <= LedgerSize /\ Distinct(l)
         /\ Cardinality(Event) <= LedgerSize => \A c : Has(c, l) <=> Has(c, ledger) \/ c = e
<1> DEFINE r == Append(ledger, e)
           n == Len(r)
           m == n - LedgerSize + 1
           cutOff == SubSeq(r, m, n)
<1>0. ledger \in Seq(Event) /\ Distinct(ledger) /\ LedgerSize \in Nat
      /\ Len(ledger) <= LedgerSize
  BY PanelsBounds DEF AlertShowInv, ShowData, AlertOnce
<1>1. /\ r \in Seq(Event) /\ n = Len(ledger) + 1 /\ Len(ledger) \in Nat
      /\ \A i \in 1 .. Len(ledger) : r[i] = ledger[i]
      /\ r[Len(ledger) + 1] = e
  BY <1>0, AppendProperties, LenProperties
<1>2. Alert!LedgerAfter(e) = IF n > LedgerSize THEN cutOff ELSE r
  BY DEF Alert!LedgerAfter
<1>3. \A c : Has(c, r) <=> Has(c, ledger) \/ c = e
  BY <1>0, HasAppend
<1> HIDE DEF r
<1>4. Distinct(r)
  <2>1. ASSUME NEW i \in 1 .. n, NEW j \in 1 .. n, r[i] = r[j] PROVE i = j
    <3>1. CASE i \in 1 .. Len(ledger) /\ j \in 1 .. Len(ledger)
      BY <1>0, <1>1, <2>1, <3>1 DEF Distinct
    <3>2. CASE i \in 1 .. Len(ledger) /\ j = n
      BY <1>1, <2>1, <3>2 DEF Has
    <3>3. CASE i = n /\ j \in 1 .. Len(ledger)
      BY <1>1, <2>1, <3>3 DEF Has
    <3>4. CASE i = n /\ j = n
      BY <3>4
    <3>5. /\ i \in 1 .. Len(ledger) \/ i = n
          /\ j \in 1 .. Len(ledger) \/ j = n
      BY <1>1
    <3> QED BY <3>1, <3>2, <3>3, <3>4, <3>5
  <2> QED BY <2>1 DEF Distinct
<1>5. CASE n > LedgerSize
  <2>1. n = LedgerSize + 1 /\ m = 2
    BY <1>0, <1>1, <1>5
  <2>2. PICK k \in Int : k = LedgerSize + 1
    BY <1>0
  <2>3. cutOff = SubSeq(r, 2, k)
    BY <2>1, <2>2
  <2>4. /\ cutOff \in Seq(Event) /\ Len(cutOff) = LedgerSize
        /\ \A i \in 1 .. LedgerSize : cutOff[i] = r[i + 1]
    <3>1. \A i \in 2 .. k : r[i] \in Event
      <4>1. k = n /\ n = Len(r)
        BY <2>1, <2>2
      <4>2. \A i \in 1 .. Len(r) : r[i] \in Event
        BY <1>1, ElementOfSeq
      <4> QED BY <4>1, <4>2
    <3>2. /\ SubSeq(r, 2, k) \in Seq(Event)
          /\ Len(SubSeq(r, 2, k)) = IF 2 <= k THEN k - 2 + 1 ELSE 0
          /\ \A i \in 1 .. (k - 2 + 1) : SubSeq(r, 2, k)[i] = r[2 + i - 1]
      BY <3>1, SubSeqProperties
    <3>3. \A i \in 1 .. LedgerSize : 2 + i - 1 = i + 1
      BY <1>0
    <3>4. k - 2 + 1 = LedgerSize /\ (2 <= k <=> LedgerSize # 0)
      BY <1>0, <2>2
    <3> HIDE DEF cutOff
    <3> QED BY <1>0, <2>3, <3>2, <3>3, <3>4
  <2> HIDE DEF cutOff
  <2>5. Distinct(cutOff)
    <3>1. ASSUME NEW i \in 1 .. LedgerSize, NEW j \in 1 .. LedgerSize, cutOff[i] = cutOff[j]
          PROVE  i = j
      <4>1. r[i + 1] = r[j + 1]
        BY <2>4, <3>1
      <4>2. i + 1 \in 1 .. n /\ j + 1 \in 1 .. n
        BY <2>1, <1>0
      <4>3. i + 1 = j + 1
        BY <1>4, <4>1, <4>2 DEF Distinct
      <4> QED BY <4>3, <1>0
    <3> QED BY <2>4, <3>1 DEF Distinct
  <2>6. ~(Cardinality(Event) <= LedgerSize)
    <3>1. n <= Cardinality(Event)
      BY <1>1, <1>4, PanelsBounds, DistinctIsShort
    <3>2. Cardinality(Event) \in Nat
      BY PanelsBounds, FS_CardinalityType
    <3> QED BY <1>0, <2>1, <3>1, <3>2
  <2> QED BY <1>0, <1>2, <1>5, <2>4, <2>5, <2>6
<1>6. CASE ~(n > LedgerSize)
  BY <1>0, <1>1, <1>2, <1>3, <1>4, <1>6
<1> QED BY <1>5, <1>6

(* What was asked before counts no more, and nothing else changes.          *)
LEMMA SupersededProperties ==
  ASSUME AlertSwitchInv, NEW p \in Page
  PROVE  LET r == Alert!Superseded(p, {"toggle", "test"}) IN
         /\ r \in Seq(PromptReq)
         /\ \A m \in PromptReq : m.page # p => (Has(m, r) <=> Has(m, prompts))
         /\ \A m \in PromptReq : Has(m, r) /\ m.page = p =>
              /\ ~m.current
              /\ \E n \in PromptReq : n.page = p /\ Has(n, prompts)
<1> DEFINE r == Alert!Superseded(p, {"toggle", "test"})
<1>0. /\ prompts \in Seq(PromptReq) /\ Len(prompts) \in Nat
      /\ DOMAIN prompts = 1 .. Len(prompts)
      /\ \A i \in 1 .. Len(prompts) : prompts[i] \in PromptReq
  BY LenProperties, ElementOfSeq DEF AlertSwitchInv, SwitchData
<1>1. r = [i \in 1 .. Len(prompts) |-> IF prompts[i].page = p
                                      THEN [prompts[i] EXCEPT !.current = FALSE]
                                      ELSE prompts[i]]
  BY <1>0 DEF Alert!Superseded, PromptReq, Kind
<1>2. \A i \in 1 .. Len(prompts) : r[i] \in PromptReq /\ r[i].page = prompts[i].page
  BY <1>0, <1>1 DEF PromptReq
<1>3. r \in Seq(PromptReq) /\ Len(r) = Len(prompts)
  <2>1. DEFINE e(i) == IF prompts[i].page = p THEN [prompts[i] EXCEPT !.current = FALSE]
                       ELSE prompts[i]
  <2>2. \A i \in 1 .. Len(prompts) : e(i) \in PromptReq
    BY <1>1, <1>2
  <2>3. [i \in 1 .. Len(prompts) |-> e(i)] \in Seq(PromptReq)
    BY <1>0, <2>2, IsASeq
  <2>4. r \in Seq(PromptReq) /\ DOMAIN r = 1 .. Len(prompts)
    BY <1>1, <2>3
  <2>5. DOMAIN r = 1 .. Len(r) /\ Len(r) \in Nat
    BY <2>4, LenProperties
  <2> HIDE DEF r
  <2> QED BY <1>0, <2>4, <2>5
<1>4. \A i \in 1 .. Len(prompts) : prompts[i].page # p => r[i] = prompts[i]
  BY <1>1
<1>5. \A i \in 1 .. Len(prompts) : prompts[i].page = p => ~r[i].current
  BY <1>0, <1>1 DEF PromptReq
<1> HIDE DEF r
<1>6. ASSUME NEW m \in PromptReq, m.page # p PROVE Has(m, r) <=> Has(m, prompts)
  BY <1>2, <1>3, <1>4, <1>6 DEF Has
<1>7. ASSUME NEW m \in PromptReq, Has(m, r), m.page = p
      PROVE  ~m.current /\ \E n \in PromptReq : n.page = p /\ Has(n, prompts)
  <2>1. PICK i \in 1 .. Len(prompts) : r[i] = m
    BY <1>3, <1>7 DEF Has
  <2>2. prompts[i].page = p /\ prompts[i] \in PromptReq /\ Has(prompts[i], prompts)
    BY <1>0, <1>2, <1>7, <2>1 DEF Has
  <2>3. ~m.current
    BY <1>5, <2>1, <2>2
  <2> QED BY <2>2, <2>3
<1> QED BY <1>3, <1>6, <1>7 DEF r

-----------------------------------------------------------------------------
LEMMA AlertInitially == Alert!AlertInit => AlertIInv
<1> SUFFICES ASSUME Alert!AlertInit PROVE AlertIInv
  OBVIOUS
<1>1. PICK b \in BOOLEAN :
        /\ enabled = b /\ intent = b /\ switchShown = [p \in Page |-> b]
        /\ permission = IF b THEN "granted" ELSE "default"
  BY DEF Alert!AlertInit
<1>2. /\ ledger = <<>> /\ lock = Alert!NoLock /\ lockQueue = <<>> /\ stage = "none"
      /\ announcedTo = [e \in Event |-> {}] /\ toasts = <<>>
      /\ watched = [p \in Page |-> FALSE] /\ prompts = <<>>
      /\ testing = [p \in Page |-> FALSE] /\ storageEvents = [p \in Page |-> 0]
      /\ userSteps = 0 /\ alertsCrossed = FALSE
  BY DEF Alert!AlertInit
<1>3. \A c : ~Has(c, <<>>)
  BY DEF Has
<1>4. AlertShowInv
  <2>1. ShowData
    BY <1>2, PanelsBounds, EmptySeq DEF ShowData, Alert!NotifyStages
  <2>2. AlertOnce /\ Gated(toasts)
    BY <1>2 DEF AlertOnce, Gated, Distinct, ToldOnce
  <2> QED BY <2>1, <2>2 DEF AlertShowInv
<1>5. AlertFlags
  BY <1>1, <1>2, Zenon DEF AlertFlags
<1>6. SwitchData
  BY <1>1, <1>2, PanelsBounds, EmptySeq DEF SwitchData
<1>7. OneWatched(watched)
  BY <1>2 DEF OneWatched
<1>8. AlertChoice
  <2>1. /\ OneTab(alertsCrossed, prompts)
        /\ TabIsQuiet(alertsCrossed, prompts, storageEvents)
    BY <1>2, <1>3 DEF OneTab, TabIsQuiet
  <2>2. /\ StaysOff(alertsCrossed, intent, enabled, prompts)
        /\ WillBeOn(alertsCrossed, intent, permission, enabled, prompts, switchShown)
    BY <1>1, <1>2, <1>3, Zenon DEF StaysOff, WillBeOn
  <2>3. SwitchAgrees(storageEvents, switchShown, enabled, prompts)
    BY <1>1 DEF SwitchAgrees
  <2> QED BY <2>1, <2>2, <2>3 DEF AlertChoice
<1> QED BY <1>4, <1>5, <1>6, <1>7, <1>8 DEF AlertIInv, AlertSwitchInv

LEMMA SwitchUntouched ==
  ASSUME AlertSwitchInv, UNCHANGED <<Alert!settingVars, watched, userSteps>>
  PROVE  AlertSwitchInv'
BY DEF AlertSwitchInv, AlertFlags, SwitchData, AlertChoice, Alert!settingVars

LEMMA ShowUntouched ==
  ASSUME AlertShowInv, UNCHANGED Alert!showVars
  PROVE  AlertShowInv'
BY DEF AlertShowInv, ShowData, AlertOnce, Alert!showVars

LEMMA KeepDeliver ==
  ASSUME AlertShowInv, NEW p \in Page, NEW e \in Event, Alert!Deliver(p, e)
  PROVE  AlertShowInv'
<1>1. /\ announcedTo' = [announcedTo EXCEPT ![e] = @ \cup {p}]
      /\ \/ lockQueue' = Append(lockQueue, [page |-> p, event |-> e])
         \/ lockQueue' = lockQueue
      /\ UNCHANGED <<ledger, lock, stage, toasts>>
  BY DEF Alert!Deliver
<1>2. lockQueue' \in Seq(Request)
  <2>1. PICK r \in Request : r = [page |-> p, event |-> e]
    BY DEF Request
  <2>2. lockQueue \in Seq(Request)
    BY DEF AlertShowInv, ShowData
  <2>3. Append(lockQueue, r) \in Seq(Request)
    BY <2>2, AppendProperties
  <2> QED BY <1>1, <2>1, <2>2, <2>3
<1>3. announcedTo' \in [Event -> SUBSET Page]
  BY <1>1 DEF AlertShowInv, ShowData
<1> QED BY <1>1, <1>2, <1>3 DEF AlertShowInv, ShowData, AlertOnce

LEMMA KeepGrantLock == ASSUME AlertShowInv, Alert!GrantLock PROVE AlertShowInv'
<1>1. /\ lockQueue # <<>> /\ lock' = Head(lockQueue) /\ lockQueue' = Tail(lockQueue)
      /\ stage' = "locked" /\ UNCHANGED <<ledger, announcedTo, toasts>>
  BY DEF Alert!GrantLock
<1>2. lock' \in Request /\ lockQueue' \in Seq(Request)
  BY <1>1, HeadTailProperties DEF AlertShowInv, ShowData
<1>3. lock' # Alert!NoLock
  BY <1>2, PanelsBounds DEF Request, Alert!NoLock
<1>4. ShowData'
  BY <1>1, <1>2 DEF AlertShowInv, ShowData, Alert!NotifyStages
<1>5. AlertOnce'
  BY <1>1, <1>3 DEF AlertShowInv, AlertOnce, ToldOnce
<1> QED BY <1>1, <1>4, <1>5 DEF AlertShowInv

(* Giving the lock back, with what is in the ledger and what was shown.     *)
LEMMA ReleaseKeeps ==
  ASSUME AlertShowInv, Alert!Release, UNCHANGED <<lockQueue, announcedTo>>,
         ledger' \in Seq(Event), Len(ledger)' <= LedgerSize, Distinct(ledger)',
         toasts' \in Seq(ToastShown), Gated(toasts)', NEW e, NEW st,
         Cardinality(Event) <= LedgerSize => ToldOnce(ledger', toasts', e, st)
  PROVE  AlertShowInv'
<1>1. lock' = Alert!NoLock /\ stage' = "none"
  BY DEF Alert!Release
<1>2. ShowData'
  BY <1>1 DEF AlertShowInv, ShowData, Alert!NotifyStages
<1>3. AlertOnce'
  BY <1>1 DEF AlertOnce, ToldOnce
<1> QED BY <1>2, <1>3 DEF AlertShowInv

LEMMA ReleaseAlone ==
  ASSUME AlertShowInv, Alert!Release, UNCHANGED <<lockQueue, announcedTo, ledger, toasts>>
  PROVE  AlertShowInv'
<1>1. /\ ledger' \in Seq(Event) /\ Len(ledger)' <= LedgerSize /\ Distinct(ledger)'
      /\ toasts' \in Seq(ToastShown) /\ Gated(toasts)'
  BY DEF AlertShowInv, ShowData, AlertOnce
<1>2. PICK e, st : e = lock.event /\ st = stage
  OBVIOUS
<1>3. Cardinality(Event) <= LedgerSize => ToldOnce(ledger', toasts', e, st)
  BY <1>2 DEF AlertShowInv, AlertOnce
<1> QED BY <1>1, <1>3, ReleaseKeeps

LEMMA LockIsTaken ==
  ASSUME AlertShowInv, stage # "none"
  PROVE  lock \in Request /\ lock.page \in Page /\ lock.event \in Event
BY DEF AlertShowInv, ShowData, AlertOnce, Request

LEMMA KeepConsume == ASSUME AlertShowInv, Alert!Consume PROVE AlertShowInv'
<1>1. /\ stage = "locked" /\ UNCHANGED <<lockQueue, announcedTo, toasts>>
  BY DEF Alert!Consume
<1>2. lock \in Request /\ lock.event \in Event
  BY <1>1, LockIsTaken
<1>3. ledger \in Seq(Event) /\ DOMAIN ledger = 1 .. Len(ledger)
  BY LenProperties DEF AlertShowInv, ShowData
<1>4. CASE Alert!Allowed /\ lock.event \notin Alert!Consumed
  <2>1. PICK e \in Event : e = lock.event
    BY <1>2
  <2>2. PICK l : l = Alert!LedgerAfter(e)
    OBVIOUS
  <2>3. ~Has(e, ledger)
    BY <1>3, <1>4, <2>1 DEF Has, Alert!Consumed
  <2>4. /\ l \in Seq(Event) /\ Len(l) <= LedgerSize /\ Distinct(l)
        /\ Cardinality(Event) <= LedgerSize =>
             \A c : Has(c, l) <=> Has(c, ledger) \/ c = e
    BY <2>2, <2>3, LedgerProperties
  <2>5. /\ ledger' = l
        /\ Alert!Release \/ (stage' = "asking" /\ lock' = lock)
    BY <1>4, <2>1, <2>2 DEF Alert!Consume
  <2>6. Cardinality(Event) <= LedgerSize => ToldOnce(l, toasts, e, "asking")
    <3> SUFFICES ASSUME Cardinality(Event) <= LedgerSize PROVE ToldOnce(l, toasts, e, "asking")
      OBVIOUS
    <3>1. /\ \A i, j \in 1 .. Len(toasts) : toasts[i].event = toasts[j].event => i = j
          /\ \A i \in 1 .. Len(toasts) : Has(toasts[i].event, ledger)
      BY DEF AlertShowInv, AlertOnce, ToldOnce
    <3>2. ~Told(toasts, e)
      BY <2>3, <3>1 DEF Told
    <3> QED BY <2>4, <3>1, <3>2 DEF ToldOnce
  <2>7. Gated(toasts)' /\ toasts' \in Seq(ToastShown)
    BY <1>1 DEF AlertShowInv, ShowData
  <2>8. CASE Alert!Release
    BY <1>1, <2>4, <2>5, <2>6, <2>7, <2>8, ReleaseKeeps
  <2>9. CASE stage' = "asking" /\ lock' = lock
    <3>1. ShowData'
      BY <1>1, <2>4, <2>5, <2>9 DEF AlertShowInv, ShowData, Alert!NotifyStages
    <3>2. AlertOnce'
      BY <1>1, <2>1, <2>4, <2>5, <2>6, <2>9 DEF AlertShowInv, AlertOnce
    <3> QED BY <2>7, <3>1, <3>2 DEF AlertShowInv
  <2> QED BY <2>5, <2>8, <2>9
<1>5. CASE ~(Alert!Allowed /\ lock.event \notin Alert!Consumed)
  BY <1>1, <1>5, ReleaseAlone DEF Alert!Consume
<1> QED BY <1>4, <1>5

(* A toast that is shown is the first of its event, and over no tab that is *)
(* looked at.                                                               *)
LEMMA ToastAdded ==
  ASSUME AlertShowInv, AlertSwitchInv, stage \in {"asking", "fallback"},
         Alert!MayDeliver(lock.page), Alert!Release,
         toasts' = Append(toasts, Alert!Toast(lock.page, lock.event)),
         UNCHANGED <<lockQueue, announcedTo, ledger>>
  PROVE  AlertShowInv'
<1> DEFINE t == Alert!Toast(lock.page, lock.event)
           n == Len(toasts)
<1>1. lock \in Request /\ lock.page \in Page /\ lock.event \in Event
  BY LockIsTaken
<1>2. t \in ToastShown /\ t.event = lock.event
  BY <1>1 DEF Alert!Toast, Alert!Allowed, ToastShown, AlertSwitchInv, AlertFlags
<1>3. ~t.watched /\ t.on
  BY DEF Alert!Toast, Alert!MayDeliver
<1> HIDE DEF t
<1>4. /\ toasts' \in Seq(ToastShown) /\ n \in Nat /\ Len(toasts') = n + 1
      /\ \A i \in 1 .. n : toasts'[i] = toasts[i]
      /\ toasts'[n + 1] = t
  <2>1. toasts' = Append(toasts, t)
    BY DEF t
  <2>2. toasts \in Seq(ToastShown)
    BY DEF AlertShowInv, ShowData
  <2> QED BY <1>2, <2>1, <2>2, AppendProperties, LenProperties
<1>5. Gated(toasts)'
  <2>1. \A i \in 1 .. n : ~toasts[i].watched /\ toasts[i].on
    BY DEF AlertShowInv, Gated
  <2>2. ASSUME NEW i \in 1 .. Len(toasts') PROVE ~toasts'[i].watched /\ toasts'[i].on
    <3>1. i \in 1 .. n \/ i = n + 1
      BY <1>4
    <3>2. CASE i \in 1 .. n
      BY <1>4, <2>1, <3>2
    <3>3. CASE i = n + 1
      BY <1>3, <1>4, <3>3
    <3> QED BY <3>1, <3>2, <3>3
  <2> QED BY <2>2 DEF Gated
<1>6. PICK e : e = lock.event
  OBVIOUS
<1>7. ASSUME Cardinality(Event) <= LedgerSize
      PROVE  ToldOnce(ledger', toasts', e, "none")
  <2>1. /\ \A i, j \in 1 .. n : toasts[i].event = toasts[j].event => i = j
        /\ \A i \in 1 .. n : Has(toasts[i].event, ledger)
        /\ Has(e, ledger) /\ \A i \in 1 .. n : toasts[i].event # e
    BY <1>6, <1>7 DEF AlertShowInv, AlertOnce, ToldOnce, Told
  <2>2. ASSUME NEW i \in 1 .. Len(toasts') PROVE Has(toasts'[i].event, ledger')
    <3>1. i \in 1 .. n \/ i = n + 1
      BY <1>4
    <3>2. CASE i \in 1 .. n
      BY <1>4, <2>1, <3>2
    <3>3. CASE i = n + 1
      BY <1>2, <1>4, <1>6, <2>1, <3>3
    <3> QED BY <3>1, <3>2, <3>3
  <2>3. ASSUME NEW i \in 1 .. Len(toasts'), NEW j \in 1 .. Len(toasts'),
               toasts'[i].event = toasts'[j].event
        PROVE  i = j
    <3>1. /\ i \in 1 .. n \/ i = n + 1
          /\ j \in 1 .. n \/ j = n + 1
      BY <1>4
    <3>2. CASE i \in 1 .. n /\ j \in 1 .. n
      BY <1>4, <2>1, <2>3, <3>2
    <3>3. CASE i \in 1 .. n /\ j = n + 1
      BY <1>2, <1>4, <1>6, <2>1, <2>3, <3>3
    <3>4. CASE i = n + 1 /\ j \in 1 .. n
      BY <1>2, <1>4, <1>6, <2>1, <2>3, <3>4
    <3> QED BY <3>1, <3>2, <3>3, <3>4
  <2> QED BY <2>2, <2>3 DEF ToldOnce
<1>8. /\ ledger' \in Seq(Event) /\ Len(ledger)' <= LedgerSize /\ Distinct(ledger)'
  BY DEF AlertShowInv, ShowData, AlertOnce
<1> QED BY <1>4, <1>5, <1>7, <1>8, ReleaseKeeps

LEMMA KeepShowByWorker ==
  ASSUME AlertShowInv, AlertSwitchInv, NEW works \in BOOLEAN, Alert!ShowByWorker(works)
  PROVE  AlertShowInv'
<1>1. stage = "asking" /\ UNCHANGED <<ledger, lockQueue, announcedTo>>
  BY DEF Alert!ShowByWorker
<1>2. CASE ~Alert!MayDeliver(lock.page)
  BY <1>1, <1>2, ReleaseAlone DEF Alert!ShowByWorker
<1>3. CASE Alert!MayDeliver(lock.page) /\ works
  BY <1>1, <1>3, ToastAdded DEF Alert!ShowByWorker
<1>4. CASE Alert!MayDeliver(lock.page) /\ ~works
  <2>1. stage' = "fallback" /\ UNCHANGED <<lock, toasts>>
    BY <1>4 DEF Alert!ShowByWorker
  <2> QED BY <1>1, <2>1
          DEF AlertShowInv, ShowData, AlertOnce, ToldOnce, Alert!NotifyStages
<1> QED BY <1>2, <1>3, <1>4

LEMMA KeepShowByPage ==
  ASSUME AlertShowInv, AlertSwitchInv, Alert!ShowByPage PROVE AlertShowInv'
<1>1. /\ stage = "fallback" /\ Alert!Release
      /\ UNCHANGED <<ledger, lockQueue, announcedTo>>
  BY DEF Alert!ShowByPage
<1>2. CASE ~Alert!MayDeliver(lock.page)
  BY <1>1, <1>2, ReleaseAlone DEF Alert!ShowByPage
<1>3. CASE Alert!MayDeliver(lock.page)
  BY <1>1, <1>3, ToastAdded DEF Alert!ShowByPage
<1> QED BY <1>2, <1>3

-----------------------------------------------------------------------------
(* The parts of AlertSwitchInv.                                             *)
LEMMA SwitchParts ==
  ASSUME AlertSwitchInv
  PROVE  /\ AlertFlags /\ SwitchData /\ OneWatched(watched)
         /\ OneTab(alertsCrossed, prompts)
         /\ TabIsQuiet(alertsCrossed, prompts, storageEvents)
         /\ StaysOff(alertsCrossed, intent, enabled, prompts)
         /\ WillBeOn(alertsCrossed, intent, permission, enabled, prompts, switchShown)
         /\ SwitchAgrees(storageEvents, switchShown, enabled, prompts)
BY DEF AlertSwitchInv, AlertChoice

LEMMA AskProperties ==
  \A p \in Page, k \in Kind :
    /\ Ask(p, k) \in PromptReq
    /\ Ask(p, k).page = p /\ Ask(p, k).kind = k /\ Ask(p, k).current
BY DEF Ask, PromptReq

LEMMA UserSteps ==
  ASSUME AlertSwitchInv, Alert!UserStep
  PROVE  userSteps' \in 0 .. MaxAlertSteps /\ \A p \in Page : storageEvents[p] = 0
BY PanelsBounds DEF AlertSwitchInv, SwitchData, Alert!UserStep

(* What the user chooses on a tab, while he did not cross over from another *)
(* one: all requests that wait are of this tab.                             *)
LEMMA ChoosesProperties ==
  ASSUME AlertSwitchInv, NEW p \in Page, NEW on \in BOOLEAN, Alert!Chooses(p, on)
  PROVE  /\ userSteps' \in 0 .. MaxAlertSteps /\ \A q \in Page : storageEvents[q] = 0
         /\ intent' = on /\ alertsCrossed' \in BOOLEAN
         /\ ~alertsCrossed' => /\ ~alertsCrossed
                               /\ \A m \in PromptReq : Has(m, prompts) => m.page = p
<1>1. /\ Alert!UserStep /\ intent' = on
      /\ alertsCrossed' = (alertsCrossed \/ \E i \in DOMAIN prompts : prompts[i].page # p)
  BY DEF Alert!Chooses
<1>2. alertsCrossed' \in BOOLEAN
  BY <1>1, Zenon
<1>3. ASSUME ~alertsCrossed'
      PROVE  ~alertsCrossed /\ \A i \in DOMAIN prompts : prompts[i].page = p
  BY <1>1, <1>3, Zenon
<1>4. DOMAIN prompts = 1 .. Len(prompts)
  BY LenProperties, SwitchParts DEF SwitchData
<1> QED BY <1>1, <1>2, <1>3, <1>4, UserSteps DEF Has

(* The other tabs are told of a value that changed.                         *)
LEMMA SaveProperties ==
  ASSUME AlertSwitchInv, NEW p \in Page, NEW on \in BOOLEAN, Alert!Save(p, on)
  PROVE  /\ enabled' = on /\ storageEvents' \in [Page -> Nat]
         /\ storageEvents'[p] = storageEvents[p]
         /\ \A q \in Page : q # p /\ storageEvents'[q] = 0 =>
                              (enabled <=> on) /\ storageEvents[q] = 0
<1>1. storageEvents \in [Page -> Nat]
  BY SwitchParts DEF SwitchData
<1>2. PICK d \in {0, 1} : d = IF on # enabled THEN 1 ELSE 0
  OBVIOUS
<1>3. d = 0 => (enabled <=> on)
  <2>1. d = 0 => on = enabled
    BY <1>2
  <2> QED BY <2>1
<1>4. storageEvents' = [q \in Page |-> storageEvents[q] + (IF q # p THEN d ELSE 0)]
  <2>1. ASSUME NEW q \in Page
        PROVE  (IF q # p /\ on # enabled THEN 1 ELSE 0) = (IF q # p THEN d ELSE 0)
    BY <1>2
  <2> QED BY <2>1 DEF Alert!Save
<1>5. /\ storageEvents' \in [Page -> Nat] /\ storageEvents'[p] = storageEvents[p]
      /\ \A q \in Page : q # p /\ storageEvents'[q] = 0 => d = 0 /\ storageEvents[q] = 0
  BY <1>1, <1>4
<1> QED BY <1>3, <1>5 DEF Alert!Save

LEMMA KeepTestFires ==
  ASSUME AlertSwitchInv, NEW p \in Page, Alert!TestFires(p) PROVE AlertSwitchInv'
<1>1. /\ testing' = [testing EXCEPT ![p] = FALSE]
      /\ UNCHANGED <<enabled, permission, switchShown, prompts, storageEvents, intent,
                     alertsCrossed, watched, userSteps>>
  BY DEF Alert!TestFires
<1>2. AlertFlags'
  BY <1>1, SwitchParts, Zenon DEF AlertFlags
<1> QED BY <1>1, <1>2 DEF AlertSwitchInv, SwitchData, AlertChoice

LEMMA KeepLooks ==
  ASSUME AlertSwitchInv, NEW p \in Page, Alert!Looks(p) PROVE AlertSwitchInv'
<1>1. /\ Alert!UserStep
      /\ UNCHANGED <<enabled, permission, prompts, testing, storageEvents, intent,
                     alertsCrossed>>
      /\ \/ /\ watched' = [watched EXCEPT ![p] = FALSE]
            /\ switchShown' = switchShown
         \/ /\ watched' = [q \in Page |-> q = p]
            /\ switchShown' = [switchShown EXCEPT ![p] = enabled]
  BY DEF Alert!Looks
<1>2. AlertFlags /\ SwitchData /\ OneWatched(watched)
  BY SwitchParts
<1>3. AlertFlags' /\ OneWatched(watched)'
  <2>1. CASE watched' = [watched EXCEPT ![p] = FALSE] /\ switchShown' = switchShown
    BY <1>1, <1>2, <2>1, Zenon DEF AlertFlags, OneWatched
  <2>2. CASE /\ watched' = [q \in Page |-> q = p]
             /\ switchShown' = [switchShown EXCEPT ![p] = enabled]
    BY <1>1, <1>2, <2>2 DEF AlertFlags, OneWatched
  <2> QED BY <1>1, <2>1, <2>2
<1>4. SwitchData'
  BY <1>1, <1>2, UserSteps DEF SwitchData
<1>5. \A q \in Page : switchShown'[q] = switchShown[q] \/ switchShown'[q] = enabled
  BY <1>1, <1>2 DEF AlertFlags
<1>6. WillBeOn(alertsCrossed, intent, permission, enabled, prompts, switchShown)'
  <2>1. WillBeOn(alertsCrossed, intent, permission, enabled, prompts, switchShown)
    BY SwitchParts
  <2> QED BY <1>1, <1>5, <2>1, Zenon DEF WillBeOn
<1>7. SwitchAgrees(storageEvents, switchShown, enabled, prompts)'
  <2>1. SwitchAgrees(storageEvents, switchShown, enabled, prompts)
    BY SwitchParts
  <2> QED BY <1>1, <1>5, <2>1, Zenon DEF SwitchAgrees
<1>8. /\ OneTab(alertsCrossed, prompts)'
      /\ TabIsQuiet(alertsCrossed, prompts, storageEvents)'
      /\ StaysOff(alertsCrossed, intent, enabled, prompts)'
  BY <1>1, SwitchParts
<1> QED BY <1>3, <1>4, <1>6, <1>7, <1>8 DEF AlertSwitchInv, AlertChoice

LEMMA KeepStorageHeard ==
  ASSUME AlertSwitchInv, NEW p \in Page, Alert!StorageHeard(p) PROVE AlertSwitchInv'
<1>1. /\ storageEvents[p] > 0 /\ storageEvents' = [storageEvents EXCEPT ![p] = @ - 1]
      /\ testing' = [testing EXCEPT ![p] = FALSE]
      /\ switchShown' = [switchShown EXCEPT ![p] = enabled]
      /\ UNCHANGED <<enabled, permission, intent, alertsCrossed, watched, userSteps>>
  BY DEF Alert!StorageHeard
<1>2. AlertFlags /\ SwitchData
  BY SwitchParts
<1>3. PICK r : r = Alert!Superseded(p, {"toggle", "test"})
  OBVIOUS
<1>4. /\ prompts' = r /\ r \in Seq(PromptReq)
      /\ \A m \in PromptReq : m.page # p => (Has(m, r) <=> Has(m, prompts))
      /\ \A m \in PromptReq : Has(m, r) /\ m.page = p =>
           \E n \in PromptReq : n.page = p /\ Has(n, prompts)
  BY <1>3, SupersededProperties DEF Alert!StorageHeard
<1>5. AlertFlags'
  BY <1>1, <1>2, Zenon DEF AlertFlags
<1>6. /\ storageEvents' \in [Page -> Nat] /\ storageEvents[p] # 0
      /\ \A q \in Page : q # p => storageEvents'[q] = storageEvents[q]
  BY <1>1, <1>2 DEF SwitchData
<1>7. SwitchData'
  BY <1>1, <1>2, <1>4, <1>6 DEF SwitchData
<1>8. ASSUME ~alertsCrossed, NEW m \in PromptReq
      PROVE  /\ Has(m, r) <=> Has(m, prompts)
             /\ Has(m, prompts) => m.page # p
  <2>1. TabIsQuiet(alertsCrossed, prompts, storageEvents)
    BY SwitchParts
  <2>2. \A n \in PromptReq : Has(n, prompts) => n.page # p
    BY <1>6, <1>8, <2>1 DEF TabIsQuiet
  <2> QED BY <1>4, <2>2
<1>9. OneTab(alertsCrossed, prompts)'
  <2>1. OneTab(alertsCrossed, prompts)
    BY SwitchParts
  <2> QED BY <1>1, <1>4, <1>8, <2>1 DEF OneTab
<1>10. TabIsQuiet(alertsCrossed, prompts, storageEvents)'
  <2>1. TabIsQuiet(alertsCrossed, prompts, storageEvents)
    BY SwitchParts
  <2> SUFFICES ASSUME ~alertsCrossed, NEW m \in PromptReq, Has(m, r)
               PROVE  storageEvents'[m.page] = 0
    BY <1>1, <1>4 DEF TabIsQuiet
  <2>2. Has(m, prompts) /\ m.page # p
    BY <1>8
  <2>3. storageEvents[m.page] = 0 /\ m.page \in Page
    BY <2>1, <2>2 DEF TabIsQuiet, PromptReq
  <2> QED BY <1>6, <2>2, <2>3
<1>11. \A q \in Page, k \in Kind : Ask(q, k) \in PromptReq /\ Ask(q, k).page = q
  BY DEF Ask, PromptReq
<1>12. StaysOff(alertsCrossed, intent, enabled, prompts)'
  <2>1. StaysOff(alertsCrossed, intent, enabled, prompts)
    BY SwitchParts
  <2> QED BY <1>1, <1>4, <1>8, <1>11, <2>1, Zenon DEF StaysOff
<1>13. \A q \in Page : q # p => switchShown'[q] = switchShown[q]
  BY <1>1, <1>2 DEF AlertFlags
<1>14. "toggle" \in Kind /\ "test" \in Kind
  BY DEF Kind
<1>15. WillBeOn(alertsCrossed, intent, permission, enabled, prompts, switchShown)'
  <2>1. WillBeOn(alertsCrossed, intent, permission, enabled, prompts, switchShown)
    BY SwitchParts
  <2> SUFFICES ASSUME ~alertsCrossed, intent, permission # "denied", ~enabled
               PROVE  \E q \in Page : \/ Has(Ask(q, "toggle"), r)
                                      \/ Has(Ask(q, "test"), r) /\ ~switchShown'[q]
    BY <1>1, <1>4, Zenon DEF WillBeOn
  <2>2. PICK q \in Page : \/ Has(Ask(q, "toggle"), prompts)
                          \/ Has(Ask(q, "test"), prompts) /\ ~switchShown[q]
    BY <2>1, Zenon DEF WillBeOn
  <2>3. q # p
    BY <1>8, <1>11, <1>14, <2>2
  <2>4. \/ Has(Ask(q, "toggle"), r)
        \/ Has(Ask(q, "test"), r) /\ ~switchShown[q]
    BY <1>8, <1>11, <1>14, <2>2
  <2> QED BY <1>13, <2>3, <2>4
<1>16. SwitchAgrees(storageEvents, switchShown, enabled, prompts)'
  <2>1. SwitchAgrees(storageEvents, switchShown, enabled, prompts)
    BY SwitchParts
  <2> SUFFICES ASSUME NEW q \in Page, storageEvents'[q] = 0
               PROVE  \/ switchShown'[q] = enabled
                      \/ switchShown'[q] /\ Has(Ask(q, "toggle"), r)
    BY <1>1, <1>4 DEF SwitchAgrees
  <2>2. CASE q = p
    BY <1>1, <1>2, <2>2 DEF AlertFlags
  <2>3. CASE q # p
    <3>1. \/ switchShown[q] = enabled
          \/ switchShown[q] /\ Has(Ask(q, "toggle"), prompts)
      BY <1>6, <2>1, <2>3 DEF SwitchAgrees
    <3>2. Has(Ask(q, "toggle"), prompts) => Has(Ask(q, "toggle"), r)
      BY <1>4, <1>11, <1>14, <2>3
    <3> QED BY <1>13, <2>3, <3>1, <3>2
  <2> QED BY <2>2, <2>3
<1>17. OneWatched(watched)'
  BY <1>1, SwitchParts
<1> QED BY <1>5, <1>7, <1>9, <1>10, <1>12, <1>15, <1>16, <1>17
        DEF AlertSwitchInv, AlertChoice

LEMMA KeepRunTest ==
  ASSUME AlertSwitchInv, NEW p \in Page, Alert!RunTest(p) PROVE AlertSwitchInv'
<1>1. /\ Alert!Chooses(p, TRUE)
      /\ prompts' = Append(prompts, Ask(p, "test"))
      /\ UNCHANGED <<enabled, permission, switchShown, testing, storageEvents, watched>>
  BY DEF Alert!RunTest, Ask
<1>2. AlertFlags /\ SwitchData
  BY SwitchParts
<1>3. /\ userSteps' \in 0 .. MaxAlertSteps /\ \A q \in Page : storageEvents[q] = 0
      /\ intent' = TRUE /\ alertsCrossed' \in BOOLEAN
      /\ ~alertsCrossed' => /\ ~alertsCrossed
                            /\ \A m \in PromptReq : Has(m, prompts) => m.page = p
  BY <1>1, ChoosesProperties
<1>4. PICK a \in PromptReq : a = Ask(p, "test") /\ a.page = p
  <2>1. "test" \in Kind
    BY DEF Kind
  <2> QED BY <2>1, AskProperties
<1>5. /\ prompts' \in Seq(PromptReq)
      /\ \A m : Has(m, prompts') <=> Has(m, prompts) \/ m = a
  <2>1. prompts \in Seq(PromptReq) /\ prompts' = Append(prompts, a)
    BY <1>1, <1>2, <1>4 DEF SwitchData
  <2> QED BY <2>1, HasAppend
<1>6. AlertFlags'
  BY <1>1, <1>2, <1>3, Zenon DEF AlertFlags
<1>7. SwitchData'
  BY <1>1, <1>2, <1>3, <1>5 DEF SwitchData
<1>8. OneTab(alertsCrossed, prompts)'
  BY <1>3, <1>4, <1>5 DEF OneTab
<1>9. TabIsQuiet(alertsCrossed, prompts, storageEvents)'
  BY <1>1, <1>3 DEF TabIsQuiet, PromptReq
<1>10. StaysOff(alertsCrossed, intent, enabled, prompts)'
  BY <1>3 DEF StaysOff
<1>11. SwitchAgrees(storageEvents, switchShown, enabled, prompts)
  BY SwitchParts
<1>12. WillBeOn(alertsCrossed, intent, permission, enabled, prompts, switchShown)'
  <2>1. enabled \in BOOLEAN /\ switchShown[p] \in BOOLEAN
    BY <1>2, Zenon DEF AlertFlags
  <2>2. switchShown[p] /\ ~enabled => Has(Ask(p, "toggle"), prompts)
    BY <1>3, <1>11, <2>1 DEF SwitchAgrees
  <2>3. Has(Ask(p, "test"), prompts')
    BY <1>4, <1>5
  <2>4. Has(Ask(p, "toggle"), prompts) => Has(Ask(p, "toggle"), prompts')
    BY <1>5
  <2> QED BY <1>1, <2>1, <2>2, <2>3, <2>4 DEF WillBeOn
<1>13. SwitchAgrees(storageEvents, switchShown, enabled, prompts)'
  BY <1>1, <1>5, <1>11 DEF SwitchAgrees
<1>14. OneWatched(watched)'
  BY <1>1, SwitchParts
<1> QED BY <1>6, <1>7, <1>8, <1>9, <1>10, <1>12, <1>13, <1>14
        DEF AlertSwitchInv, AlertChoice

LEMMA KeepToggle ==
  ASSUME AlertSwitchInv, NEW p \in Page, NEW on \in BOOLEAN, Alert!Toggle(p, on)
  PROVE  AlertSwitchInv'
<1>1. /\ Alert!Chooses(p, on)
      /\ switchShown' = [switchShown EXCEPT ![p] = on]
      /\ testing' = [testing EXCEPT ![p] = FALSE]
      /\ UNCHANGED <<permission, watched>>
  BY DEF Alert!Toggle
<1>2. AlertFlags /\ SwitchData
  BY SwitchParts
<1>3. /\ userSteps' \in 0 .. MaxAlertSteps /\ \A q \in Page : storageEvents[q] = 0
      /\ intent' = on /\ alertsCrossed' \in BOOLEAN
      /\ ~alertsCrossed' => /\ ~alertsCrossed
                            /\ \A m \in PromptReq : Has(m, prompts) => m.page = p
  BY <1>1, ChoosesProperties
<1>4. PICK r : r = Alert!Superseded(p, {"toggle", "test"})
  OBVIOUS
<1>5. /\ r \in Seq(PromptReq)
      /\ \A m \in PromptReq : m.page # p => (Has(m, r) <=> Has(m, prompts))
      /\ \A m \in PromptReq : Has(m, r) /\ m.page = p => ~m.current
  BY <1>4, SupersededProperties
<1>6. ASSUME ~alertsCrossed', NEW m \in PromptReq, Has(m, r) PROVE m.page = p
  BY <1>3, <1>5, <1>6
<1>7. \A q \in Page, k \in Kind :
        Ask(q, k) \in PromptReq /\ Ask(q, k).page = q /\ Ask(q, k).current
  BY DEF Ask, PromptReq
<1>8. "toggle" \in Kind /\ "test" \in Kind
  BY DEF Kind
<1>9. SwitchAgrees(storageEvents, switchShown, enabled, prompts)
  BY SwitchParts
<1>10. \A q \in Page : q # p => switchShown'[q] = switchShown[q]
  BY <1>1, <1>2 DEF AlertFlags
<1>11. switchShown'[p] = on
  BY <1>1, <1>2 DEF AlertFlags
<1>12. OneWatched(watched)'
  BY <1>1, SwitchParts
<1>13. CASE on
  <2>1. /\ prompts' = Append(r, Ask(p, "toggle")) /\ UNCHANGED <<enabled, storageEvents>>
    BY <1>4, <1>13 DEF Alert!Toggle, Ask
  <2>2. PICK a \in PromptReq : a = Ask(p, "toggle") /\ a.page = p
    BY <1>7, <1>8
  <2>3. /\ prompts' \in Seq(PromptReq)
        /\ \A m : Has(m, prompts') <=> Has(m, r) \/ m = a
    BY <1>5, <2>1, <2>2, HasAppend
  <2>4. AlertFlags'
    BY <1>1, <1>2, <1>3, <2>1, Zenon DEF AlertFlags
  <2>5. SwitchData'
    BY <1>1, <1>2, <1>3, <2>1, <2>3 DEF SwitchData
  <2>6. OneTab(alertsCrossed, prompts)'
    BY <1>6, <2>2, <2>3 DEF OneTab
  <2>7. TabIsQuiet(alertsCrossed, prompts, storageEvents)'
    BY <1>3, <2>1 DEF TabIsQuiet, PromptReq
  <2>8. StaysOff(alertsCrossed, intent, enabled, prompts)'
    BY <1>3, <1>13 DEF StaysOff
  <2>9. Has(Ask(p, "toggle"), prompts')
    BY <2>2, <2>3
  <2>10. WillBeOn(alertsCrossed, intent, permission, enabled, prompts, switchShown)'
    BY <2>9 DEF WillBeOn
  <2>11. SwitchAgrees(storageEvents, switchShown, enabled, prompts)'
    <3> SUFFICES ASSUME NEW q \in Page
                 PROVE  \/ switchShown'[q] = enabled'
                        \/ switchShown'[q] /\ Has(Ask(q, "toggle"), prompts')
      BY DEF SwitchAgrees
    <3>1. CASE q = p
      BY <1>11, <1>13, <2>9, <3>1
    <3>2. CASE q # p
      <4>1. \/ switchShown[q] = enabled
            \/ switchShown[q] /\ Has(Ask(q, "toggle"), prompts)
        BY <1>3, <1>9 DEF SwitchAgrees
      <4>2. Has(Ask(q, "toggle"), prompts) => Has(Ask(q, "toggle"), prompts')
        BY <1>5, <1>7, <1>8, <2>3, <3>2
      <4> QED BY <1>10, <2>1, <3>2, <4>1, <4>2
    <3> QED BY <3>1, <3>2
  <2> QED BY <1>12, <2>4, <2>5, <2>6, <2>7, <2>8, <2>10, <2>11
          DEF AlertSwitchInv, AlertChoice
<1>14. CASE ~on
  <2>1. prompts' = r /\ Alert!Save(p, FALSE)
    BY <1>4, <1>14 DEF Alert!Toggle
  <2>2. /\ enabled' = FALSE /\ storageEvents' \in [Page -> Nat]
        /\ storageEvents'[p] = storageEvents[p]
        /\ \A q \in Page : q # p /\ storageEvents'[q] = 0 => ~enabled
    BY <2>1, SaveProperties
  <2>3. AlertFlags'
    BY <1>1, <1>2, <1>3, <2>2, Zenon DEF AlertFlags
  <2>4. SwitchData'
    BY <1>1, <1>2, <1>3, <1>5, <2>1, <2>2 DEF SwitchData
  <2>5. OneTab(alertsCrossed, prompts)'
    BY <1>6, <2>1 DEF OneTab
  <2>6. TabIsQuiet(alertsCrossed, prompts, storageEvents)'
    BY <1>3, <1>6, <2>1, <2>2 DEF TabIsQuiet
  <2>7. StaysOff(alertsCrossed, intent, enabled, prompts)'
    <3>1. ~alertsCrossed' => \A q \in Page, k \in Kind : ~Has(Ask(q, k), r)
      BY <1>5, <1>6, <1>7
    <3> QED BY <2>1, <2>2, <3>1 DEF StaysOff
  <2>8. WillBeOn(alertsCrossed, intent, permission, enabled, prompts, switchShown)'
    BY <1>3, <1>14 DEF WillBeOn
  <2>9. SwitchAgrees(storageEvents, switchShown, enabled, prompts)'
    <3> SUFFICES ASSUME NEW q \in Page, storageEvents'[q] = 0
                 PROVE  \/ switchShown'[q] = enabled'
                        \/ switchShown'[q] /\ Has(Ask(q, "toggle"), prompts')
      BY DEF SwitchAgrees
    <3>1. CASE q = p
      BY <1>11, <1>14, <2>2, <3>1
    <3>2. CASE q # p
      <4>1. \/ switchShown[q] = enabled
            \/ switchShown[q] /\ Has(Ask(q, "toggle"), prompts)
        BY <1>3, <1>9 DEF SwitchAgrees
      <4>2. Has(Ask(q, "toggle"), prompts) => Has(Ask(q, "toggle"), prompts')
        BY <1>5, <1>7, <1>8, <2>1, <3>2
      <4>3. enabled = FALSE
        BY <1>2, <2>2, <3>2, Zenon DEF AlertFlags
      <4> QED BY <1>10, <2>2, <3>2, <4>1, <4>2, <4>3
    <3> QED BY <3>1, <3>2
  <2> QED BY <1>12, <2>3, <2>4, <2>5, <2>6, <2>7, <2>8, <2>9
          DEF AlertSwitchInv, AlertChoice
<1> QED BY <1>13, <1>14

(* What the browser's answer leaves in the list: everything but the request *)
(* that was answered.                                                       *)
LEMMA KeepPromptAnswered ==
  ASSUME AlertSwitchInv, NEW i \in 1 .. MaxAlertSteps, Alert!PromptAnswered(i)
  PROVE  AlertSwitchInv'
<1>1. /\ i <= Len(prompts)
      /\ permission' \in (IF permission = "default" THEN {"granted", "denied"}
                          ELSE {permission})
      /\ prompts' = RemoveAt(prompts, i)
      /\ UNCHANGED <<intent, alertsCrossed, watched, userSteps>>
  BY DEF Alert!PromptAnswered, RemoveAt
<1>2. AlertFlags /\ SwitchData
  BY SwitchParts
<1>3. prompts \in Seq(PromptReq) /\ i \in 1 .. Len(prompts)
  BY <1>1, <1>2, LenProperties DEF SwitchData
<1>4. PICK m \in PromptReq : m = prompts[i]
  BY <1>3, ElementOfSeq
<1>5. PICK p \in Page : p = m.page
  BY DEF PromptReq
<1>6. /\ prompts' \in Seq(PromptReq) /\ Has(m, prompts)
      /\ \A c : Has(c, prompts') => Has(c, prompts)
      /\ \A c : Has(c, prompts) /\ c # m => Has(c, prompts')
  <2>1. Has(m, prompts)
    BY <1>3, <1>4 DEF Has
  <2>2. PICK r : r = RemoveAt(prompts, i)
    OBVIOUS
  <2>3. /\ r \in Seq(PromptReq)
        /\ \A c : Has(c, r) => Has(c, prompts)
        /\ \A c : Has(c, prompts) /\ c # prompts[i] => Has(c, r)
    BY <1>3, <2>2, HasRemoved
  <2> QED BY <1>1, <1>4, <2>1, <2>2, <2>3
<1>7. PICK on \in BOOLEAN : on = (permission' = "granted")
  OBVIOUS
<1>8. /\ permission' \in {"granted", "denied"}
      /\ permission' # "denied" => on /\ permission # "denied"
  BY <1>1, <1>2, <1>7 DEF SwitchData
<1>9. /\ OneTab(alertsCrossed, prompts) /\ TabIsQuiet(alertsCrossed, prompts, storageEvents)
      /\ StaysOff(alertsCrossed, intent, enabled, prompts)
      /\ WillBeOn(alertsCrossed, intent, permission, enabled, prompts, switchShown)
      /\ SwitchAgrees(storageEvents, switchShown, enabled, prompts)
      /\ OneWatched(watched)
  BY SwitchParts
<1>10. OneTab(alertsCrossed, prompts)' /\ OneWatched(watched)'
  BY <1>1, <1>6, <1>9 DEF OneTab
<1>11. "toggle" \in Kind /\ "test" \in Kind /\ "toggle" # "test"
  BY DEF Kind
<1>12. CASE \/ ~m.current
            \/ m.kind = "test" /\ m.current /\ ~(on /\ ~switchShown[p])
  <2>1. /\ UNCHANGED <<enabled, storageEvents, switchShown>>
        /\ testing' = testing \/ testing' = [testing EXCEPT ![p] = on]
    BY <1>4, <1>5, <1>7, <1>11, <1>12 DEF Alert!PromptAnswered
  <2>2. AlertFlags'
    BY <1>1, <1>2, <2>1, Zenon DEF AlertFlags
  <2>3. SwitchData'
    BY <1>1, <1>2, <1>6, <1>8, <2>1 DEF SwitchData
  <2>4. TabIsQuiet(alertsCrossed, prompts, storageEvents)'
    BY <1>1, <1>6, <1>9, <2>1 DEF TabIsQuiet
  <2>5. StaysOff(alertsCrossed, intent, enabled, prompts)'
    BY <1>1, <1>6, <1>9, <2>1, Zenon DEF StaysOff
  <2>6. \A q \in Page : Ask(q, "toggle") # m
    BY <1>11, <1>12, AskProperties
  <2>7. ASSUME NEW q \in Page, on, ~switchShown[q] PROVE Ask(q, "test") # m
    <3>1. CASE ~m.current
      BY <1>11, <3>1, AskProperties
    <3>2. CASE m.current
      <4>1. switchShown[p]
        BY <1>12, <2>7, <3>2
      <4>2. q # p
        BY <2>7, <4>1
      <4> QED BY <1>5, <1>11, <4>2, AskProperties
    <3> QED BY <3>1, <3>2
  <2>8. WillBeOn(alertsCrossed, intent, permission, enabled, prompts, switchShown)'
    <3> SUFFICES ASSUME ~alertsCrossed, intent, permission' # "denied", ~enabled
                 PROVE  \E q \in Page : \/ Has(Ask(q, "toggle"), prompts')
                                        \/ Has(Ask(q, "test"), prompts') /\ ~switchShown[q]
      BY <1>1, <2>1, Zenon DEF WillBeOn
    <3>1. PICK q \in Page : \/ Has(Ask(q, "toggle"), prompts)
                            \/ Has(Ask(q, "test"), prompts) /\ ~switchShown[q]
      BY <1>8, <1>9, Zenon DEF WillBeOn
    <3> QED BY <1>6, <1>8, <2>6, <2>7, <3>1
  <2>9. SwitchAgrees(storageEvents, switchShown, enabled, prompts)'
    <3> SUFFICES ASSUME NEW q \in Page, storageEvents[q] = 0
                 PROVE  \/ switchShown[q] = enabled
                        \/ switchShown[q] /\ Has(Ask(q, "toggle"), prompts')
      BY <2>1 DEF SwitchAgrees
    <3>1. \/ switchShown[q] = enabled
          \/ switchShown[q] /\ Has(Ask(q, "toggle"), prompts)
      BY <1>9 DEF SwitchAgrees
    <3> QED BY <1>6, <2>6, <3>1, Zenon
  <2> QED BY <1>10, <2>2, <2>3, <2>4, <2>5, <2>8, <2>9 DEF AlertSwitchInv, AlertChoice
<1>13. CASE /\ m.current
            /\ m.kind = "toggle" \/ (m.kind = "test" /\ on /\ ~switchShown[p])
  <2>1. /\ Alert!Save(p, on) /\ switchShown' = [switchShown EXCEPT ![p] = on]
        /\ testing' = testing \/ testing' = [testing EXCEPT ![p] = on]
    <3>1. CASE m.kind = "toggle"
      BY <1>4, <1>5, <1>7, <1>13, <3>1 DEF Alert!PromptAnswered
    <3>2. CASE m.kind = "test" /\ on /\ ~switchShown[p]
      <4>1. on = TRUE
        BY <3>2
      <4>2. Alert!Save(p, TRUE) /\ switchShown' = [switchShown EXCEPT ![p] = TRUE]
        BY <1>4, <1>5, <1>7, <1>11, <1>13, <3>2 DEF Alert!PromptAnswered
      <4>3. testing' = [testing EXCEPT ![p] = on]
        BY <1>4, <1>5, <1>7, <1>11, <1>13, <3>2 DEF Alert!PromptAnswered
      <4> QED BY <4>1, <4>2, <4>3
    <3> QED BY <1>13, <3>1, <3>2
  <2>2. /\ enabled' = on /\ storageEvents' \in [Page -> Nat]
        /\ storageEvents'[p] = storageEvents[p]
        /\ \A q \in Page : q # p /\ storageEvents'[q] = 0 =>
                             (enabled <=> on) /\ storageEvents[q] = 0
    BY <2>1, SaveProperties
  <2>3. AlertFlags'
    BY <1>1, <1>2, <2>1, <2>2, Zenon DEF AlertFlags
  <2>4. SwitchData'
    BY <1>1, <1>2, <1>6, <1>8, <2>2 DEF SwitchData
  <2>5. TabIsQuiet(alertsCrossed, prompts, storageEvents)'
    <3> SUFFICES ASSUME ~alertsCrossed, NEW n \in PromptReq, Has(n, prompts')
                 PROVE  storageEvents'[n.page] = 0
      BY <1>1 DEF TabIsQuiet
    <3>1. n.page = p
      BY <1>5, <1>6, <1>9 DEF OneTab
    <3>2. storageEvents[p] = 0
      BY <1>5, <1>6, <1>9 DEF TabIsQuiet
    <3> QED BY <2>2, <3>1, <3>2
  <2>6. m = Ask(p, m.kind) /\ m.kind \in Kind
    BY <1>5, <1>13 DEF Ask, PromptReq
  <2>7. StaysOff(alertsCrossed, intent, enabled, prompts)'
    <3>1. alertsCrossed \/ intent
      BY <1>6, <1>9, <2>6 DEF StaysOff
    <3> QED BY <1>1, <3>1 DEF StaysOff
  <2>8. WillBeOn(alertsCrossed, intent, permission, enabled, prompts, switchShown)'
    BY <1>8, <2>2, Zenon DEF WillBeOn
  <2>9. SwitchAgrees(storageEvents, switchShown, enabled, prompts)'
    <3> SUFFICES ASSUME NEW q \in Page, storageEvents'[q] = 0
                 PROVE  \/ switchShown'[q] = enabled'
                        \/ switchShown'[q] /\ Has(Ask(q, "toggle"), prompts')
      BY DEF SwitchAgrees
    <3>1. CASE q = p
      BY <1>2, <2>1, <2>2, <3>1 DEF AlertFlags
    <3>2. CASE q # p
      <4>1. \/ switchShown[q] = enabled
            \/ switchShown[q] /\ Has(Ask(q, "toggle"), prompts)
        BY <1>9, <2>2, <3>2 DEF SwitchAgrees
      <4>2. Has(Ask(q, "toggle"), prompts) => Has(Ask(q, "toggle"), prompts')
        <5>1. Ask(q, "toggle") # m
          BY <1>5, <1>11, <3>2, AskProperties
        <5> QED BY <1>6, <5>1
      <4>3. enabled = on
        <5>1. enabled <=> on
          BY <2>2, <3>2
        <5>2. enabled \in BOOLEAN
          BY <1>2 DEF AlertFlags
        <5> QED BY <5>1, <5>2, Zenon
      <4>4. switchShown'[q] = switchShown[q]
        BY <1>2, <2>1, <3>2 DEF AlertFlags
      <4> QED BY <2>2, <4>1, <4>2, <4>3, <4>4
    <3> QED BY <3>1, <3>2
  <2> QED BY <1>10, <2>3, <2>4, <2>5, <2>7, <2>8, <2>9 DEF AlertSwitchInv, AlertChoice
<1>14. m.kind \in {"toggle", "test"}
  BY DEF PromptReq, Kind
<1> QED BY <1>12, <1>13, <1>14

LEMMA AlertStep == AlertIInv /\ [Alert!AlertNext]_alertVars => AlertIInv'
<1> SUFFICES ASSUME AlertIInv, [Alert!AlertNext]_alertVars PROVE AlertIInv'
  OBVIOUS
<1>0. AlertShowInv /\ AlertSwitchInv
  BY DEF AlertIInv
<1>1. CASE UNCHANGED alertVars
  BY <1>0, <1>1, SwitchUntouched, ShowUntouched
     DEF alertVars, AlertIInv, Alert!settingVars, Alert!showVars
<1>2. ASSUME NEW p \in Page, Alert!RunTest(p) PROVE AlertIInv'
  BY <1>0, <1>2, KeepRunTest, ShowUntouched DEF AlertIInv, Alert!RunTest
<1>3. ASSUME NEW p \in Page, Alert!TestFires(p) PROVE AlertIInv'
  BY <1>0, <1>3, KeepTestFires, ShowUntouched DEF AlertIInv, Alert!TestFires
<1>4. ASSUME NEW p \in Page, Alert!StorageHeard(p) PROVE AlertIInv'
  BY <1>0, <1>4, KeepStorageHeard, ShowUntouched DEF AlertIInv, Alert!StorageHeard
<1>5. ASSUME NEW p \in Page, Alert!Looks(p) PROVE AlertIInv'
  BY <1>0, <1>5, KeepLooks, ShowUntouched DEF AlertIInv, Alert!Looks
<1>6. ASSUME NEW p \in Page, NEW e \in Event, Alert!Deliver(p, e) PROVE AlertIInv'
  BY <1>0, <1>6, KeepDeliver, SwitchUntouched DEF AlertIInv, Alert!Deliver
<1>7. ASSUME NEW p \in Page, NEW on \in BOOLEAN, Alert!Toggle(p, on) PROVE AlertIInv'
  BY <1>0, <1>7, KeepToggle, ShowUntouched DEF AlertIInv, Alert!Toggle
<1>8. ASSUME NEW i \in 1 .. MaxAlertSteps, Alert!PromptAnswered(i) PROVE AlertIInv'
  BY <1>0, <1>8, KeepPromptAnswered, ShowUntouched DEF AlertIInv, Alert!PromptAnswered
<1>9. CASE Alert!GrantLock
  BY <1>0, <1>9, KeepGrantLock, SwitchUntouched DEF AlertIInv, Alert!GrantLock
<1>10. CASE Alert!Consume
  BY <1>0, <1>10, KeepConsume, SwitchUntouched DEF AlertIInv, Alert!Consume
<1>11. CASE Alert!ShowByPage
  BY <1>0, <1>11, KeepShowByPage, SwitchUntouched DEF AlertIInv, Alert!ShowByPage
<1>12. ASSUME NEW works \in BOOLEAN, Alert!ShowByWorker(works) PROVE AlertIInv'
  BY <1>0, <1>12, KeepShowByWorker, SwitchUntouched DEF AlertIInv, Alert!ShowByWorker
<1> QED BY <1>1, <1>2, <1>3, <1>4, <1>5, <1>6, <1>7, <1>8, <1>9, <1>10, <1>11, <1>12
        DEF Alert!AlertNext

LEMMA AlertCardinality == \A S : Alert!Cardinality(S) = Cardinality(S)
BY Zenon DEF Alert!Cardinality, Cardinality

LEMMA AlertImplies ==
  ASSUME AlertIInv
  PROVE  /\ Alert!AlertTypeOK /\ Alert!ShownOnce
         /\ Alert!StrictGate /\ Alert!LastChoiceHolds
<1>0. AlertFlags /\ SwitchData /\ ShowData /\ AlertOnce /\ Gated(toasts)
  BY SwitchParts DEF AlertIInv, AlertShowInv
<1>1. toasts \in Seq(ToastShown) /\ DOMAIN toasts = 1 .. Len(toasts)
  BY <1>0, LenProperties DEF ShowData
<1>2. Alert!AlertTypeOK
  <2> DEFINE W == {p \in Page : watched[p]}
  <2>1. Cardinality(W) <= 1
    <3>0. Cardinality({}) = 0 /\ \A x : Cardinality({x}) = 1
      BY FS_EmptySet, FS_Singleton
    <3>1. CASE W = {}
      BY <3>0, <3>1
    <3>2. CASE W # {}
      <4>1. PICK p \in Page : watched[p]
        BY <3>2
      <4>2. W = {p}
        BY <4>1, SwitchParts DEF OneWatched, AlertIInv
      <4> HIDE DEF W
      <4> QED BY <3>0, <4>2
    <3> QED BY <3>1, <3>2
  <2>2. Alert!Cardinality({p \in Page : watched[p]}) <= 1
    BY <2>1, AlertCardinality
  <2> QED BY <1>0, <2>2 DEF Alert!AlertTypeOK, AlertFlags, SwitchData, ShowData,
             Request, ToastShown, PromptReq, Kind
<1>3. Alert!ShownOnce
  <2>1. Alert!Cardinality(Event) <= LedgerSize => Cardinality(Event) <= LedgerSize
    BY AlertCardinality
  <2> QED BY <1>0, <1>1, <2>1 DEF Alert!ShownOnce, AlertOnce, ToldOnce
<1>4. Alert!StrictGate
  BY <1>0, <1>1 DEF Alert!StrictGate, Gated
<1>5. Alert!LastChoiceHolds
  <2> SUFFICES ASSUME ~alertsCrossed, permission = "granted", prompts = <<>>
               PROVE  enabled = intent
    BY DEF Alert!LastChoiceHolds
  <2>1. \A c : ~Has(c, prompts)
    BY DEF Has
  <2>2. ~intent => ~enabled
    BY SwitchParts DEF StaysOff, AlertIInv
  <2>3. intent => enabled
    <3>1. WillBeOn(alertsCrossed, intent, permission, enabled, prompts, switchShown)
      BY SwitchParts DEF AlertIInv
    <3> QED BY <2>1, <3>1 DEF WillBeOn
  <2>4. /\ enabled = TRUE \/ enabled = FALSE
        /\ intent = TRUE \/ intent = FALSE
    BY <1>0, Zenon DEF AlertFlags
  <2>5. CASE intent = TRUE
    BY <2>3, <2>4, <2>5
  <2>6. CASE intent = FALSE
    BY <2>2, <2>4, <2>6
  <2> QED BY <2>4, <2>5, <2>6
<1> QED BY <1>2, <1>3, <1>4, <1>5

-----------------------------------------------------------------------------
(* Ways into a chat                                                         *)

RosterSent == [type : {"conversations"}, ids : SUBSET Chat]
DownMessage == RosterSent \cup [type : {"ready"}] \cup [type : {"snapshot"}, chat : Chat]
JumpTypes ==
  /\ roster \in SUBSET Chat /\ jumpsActive \in roster /\ up \in BOOLEAN
  /\ down \in Seq(DownMessage) /\ asked \in Seq(Chat)
  /\ page \in [roster : SUBSET Chat, chat : Chat \cup {"none"}, ready : BOOLEAN]
  /\ url \in Chat \cup {Gone, "none"} /\ clicked \in Chat \cup {Gone, "none"}
  /\ jump = Alert!NoJump \/ (jump.path \in Chat /\ jump.anchor = jump.path)
  /\ landed.shown = landed.meant

(* The page knows every chat that is open, or its list is the next thing it *)
(* will hear; and a click that waits is one it does not know, or the list   *)
(* is still to come.                                                        *)
ListsAll(r, d) == \A k \in 1 .. Len(d) : d[k] \in RosterSent => r \subseteq d[k].ids
ListFirst(u, d) == u => Len(d) > 0 /\ d[1] \in RosterSent
PageKnows(r, pg, u, d) ==
  r \subseteq pg.roster \/ (pg.roster = {} /\ ~pg.ready /\ ListFirst(u, d))
ListComes(d) == \E k \in 1 .. Len(d) : d[k] \in RosterSent
ClickWaits(u, c, pg, d) == u /\ c # "none" /\ c \in pg.roster => ListComes(d)
JumpIInv == /\ JumpTypes /\ ListsAll(roster, down) /\ PageKnows(roster, page, up, down)
            /\ ClickWaits(up, clicked, page, down)
-----------------------------------------------------------------------------
JumpPage == [roster : SUBSET Chat, chat : Chat \cup {"none"}, ready : BOOLEAN]

(* What the server greets a page with.                                      *)
LEMMA GreetingProperties ==
  ASSUME roster \in SUBSET Chat
  PROVE  LET d == Alert!Sent(Alert!Greeting) IN
         /\ d \in Seq(DownMessage) /\ Len(d) = 2
         /\ d[1] \in RosterSent /\ d[1].ids = roster /\ d[2] \notin RosterSent
<1> DEFINE a == [type |-> "conversations", ids |-> roster]
           b == [type |-> "ready"]
           d == Alert!Sent(Alert!Greeting)
<1>1. d = <<a, b>>
  BY DEF Alert!Sent, Alert!Greeting, Alert!Message
<1>2. /\ a \in RosterSent /\ a \in DownMessage /\ a.ids = roster
      /\ b \in DownMessage /\ b \notin RosterSent
  BY DEF RosterSent, DownMessage
<1> HIDE DEF a, b, d
<1>3. <<a, b>> \in Seq(DownMessage) /\ Len(<<a, b>>) = 2
  BY <1>2
<1> QED BY <1>1, <1>2, <1>3 DEF d

(* One more message, which names every chat if it is a list.                *)
LEMMA DownAppended ==
  ASSUME NEW d \in Seq(DownMessage), NEW m \in DownMessage
  PROVE  /\ Append(d, m) \in Seq(DownMessage)
         /\ \A r : ListsAll(r, d) /\ (m \in RosterSent => r \subseteq m.ids)
                   => ListsAll(r, Append(d, m))
         /\ \A u \in BOOLEAN : ListFirst(u, d) => ListFirst(u, Append(d, m))
         /\ ListComes(d) \/ m \in RosterSent => ListComes(Append(d, m))
<1> DEFINE a == Append(d, m)
           n == Len(d)
<1>1. /\ a \in Seq(DownMessage) /\ n \in Nat /\ Len(a) = n + 1
      /\ \A k \in 1 .. n : a[k] = d[k]
      /\ a[n + 1] = m
  BY AppendProperties, LenProperties
<1> HIDE DEF a
<1>2. ASSUME NEW r, ListsAll(r, d), m \in RosterSent => r \subseteq m.ids
      PROVE  ListsAll(r, a)
  <2>1. ASSUME NEW k \in 1 .. Len(a), a[k] \in RosterSent PROVE r \subseteq a[k].ids
    <3>1. k \in 1 .. n \/ k = n + 1
      BY <1>1
    <3>2. CASE k \in 1 .. n
      BY <1>1, <1>2, <2>1, <3>2 DEF ListsAll
    <3>3. CASE k = n + 1
      BY <1>1, <1>2, <2>1, <3>3
    <3> QED BY <3>1, <3>2, <3>3
  <2> QED BY <2>1 DEF ListsAll
<1>3. ASSUME NEW u \in BOOLEAN, ListFirst(u, d) PROVE ListFirst(u, a)
  BY <1>1, <1>3 DEF ListFirst
<1>4. ASSUME ListComes(d) PROVE ListComes(a)
  <2>1. PICK k \in 1 .. n : d[k] \in RosterSent
    BY <1>4 DEF ListComes
  <2>2. k \in 1 .. Len(a) /\ a[k] \in RosterSent
    BY <1>1, <2>1
  <2> QED BY <2>2 DEF ListComes
<1>5. ASSUME m \in RosterSent PROVE ListComes(a)
  <2>1. n + 1 \in 1 .. Len(a) /\ a[n + 1] \in RosterSent
    BY <1>1, <1>5
  <2> QED BY <2>1 DEF ListComes
<1> QED BY <1>1, <1>2, <1>3, <1>4, <1>5 DEF a

(* The first message is taken off.                                          *)
LEMMA DownTaken ==
  ASSUME NEW d \in Seq(DownMessage), d # <<>>
  PROVE  /\ Head(d) \in DownMessage /\ Tail(d) \in Seq(DownMessage)
         /\ \A u \in BOOLEAN : u /\ ListFirst(u, d) => Head(d) \in RosterSent
         /\ \A r : ListsAll(r, d) =>
              ListsAll(r, Tail(d)) /\ (Head(d) \in RosterSent => r \subseteq Head(d).ids)
         /\ ListComes(d) /\ Head(d) \notin RosterSent => ListComes(Tail(d))
<1> DEFINE h == Head(d)
           t == Tail(d)
           n == Len(d)
<1>1. /\ n \in Nat \ {0} /\ h = d[1] /\ h \in DownMessage
      /\ t \in Seq(DownMessage) /\ Len(t) = n - 1
      /\ \A k \in 1 .. (n - 1) : t[k] = d[k + 1]
  BY HeadTailRange
<1> HIDE DEF h, t
<1>2. ASSUME NEW u \in BOOLEAN, u, ListFirst(u, d) PROVE h \in RosterSent
  BY <1>1, <1>2 DEF ListFirst
<1>3. ASSUME NEW r, ListsAll(r, d)
      PROVE  ListsAll(r, t) /\ (h \in RosterSent => r \subseteq h.ids)
  <2>1. \A k \in 1 .. n : d[k] \in RosterSent => r \subseteq d[k].ids
    BY <1>3 DEF ListsAll
  <2>2. \A k \in 1 .. Len(t) : t[k] \in RosterSent => r \subseteq t[k].ids
    <3> TAKE k \in 1 .. Len(t)
    <3>1. k + 1 \in 1 .. n /\ t[k] = d[k + 1]
      BY <1>1
    <3> QED BY <2>1, <3>1
  <2>3. 1 \in 1 .. n
    BY <1>1
  <2> QED BY <1>1, <2>1, <2>2, <2>3 DEF ListsAll
<1>4. ASSUME ListComes(d), h \notin RosterSent PROVE ListComes(t)
  <2>1. PICK k \in 1 .. n : d[k] \in RosterSent
    BY <1>4 DEF ListComes
  <2>2. k # 1
    BY <1>1, <1>4, <2>1
  <2>3. PICK j : j = k - 1
    OBVIOUS
  <2>4. j \in 1 .. (n - 1) /\ j + 1 = k
    BY <1>1, <2>1, <2>2, <2>3
  <2>5. j \in 1 .. Len(t) /\ t[j] \in RosterSent
    BY <1>1, <2>1, <2>4
  <2> QED BY <2>5 DEF ListComes
<1> QED BY <1>1, <1>2, <1>3, <1>4 DEF h, t

LEMMA JumpInitially == Alert!JumpInit => JumpIInv
<1> SUFFICES ASSUME Alert!JumpInit PROVE JumpIInv
  OBVIOUS
<1>1. /\ roster \in SUBSET Chat /\ HomeChat \in roster /\ jumpsActive = HomeChat
      /\ up = TRUE /\ down = Alert!Sent(Alert!Greeting) /\ asked = <<>>
      /\ page = [roster |-> {}, chat |-> "none", ready |-> FALSE]
      /\ url \in roster \cup {Gone, "none"} /\ clicked = "none" /\ jump = Alert!NoJump
      /\ landed = [meant |-> "none", shown |-> "none"]
  BY DEF Alert!JumpInit, Alert!NoChat
<1>2. /\ down \in Seq(DownMessage) /\ Len(down) = 2
      /\ down[1] \in RosterSent /\ down[1].ids = roster /\ down[2] \notin RosterSent
  BY <1>1, GreetingProperties
<1>3. JumpTypes
  <2>1. page \in JumpPage
    BY <1>1 DEF JumpPage
  <2> QED BY <1>1, <1>2, <2>1 DEF JumpTypes, JumpPage
<1>4. ListsAll(roster, down)
  BY <1>2 DEF ListsAll
<1>5. PageKnows(roster, page, up, down)
  BY <1>1, <1>2 DEF PageKnows, ListFirst
<1>6. ClickWaits(up, clicked, page, down)
  BY <1>1 DEF ClickWaits
<1> QED BY <1>3, <1>4, <1>5, <1>6 DEF JumpIInv

(* The effects of a render: what waited goes on its way or waits on.        *)
LEMMA RenderedProperties ==
  ASSUME JumpTypes, NEW p \in JumpPage, NEW c \in Chat \cup {Gone, "none"},
         NEW look \in BOOLEAN, Alert!Rendered(p, c, jump, look)
  PROVE  /\ page' = p /\ asked' \in Seq(Chat)
         /\ url' \in {url, "none"} /\ clicked' \in {c, "none"}
         /\ look /\ up /\ c \in p.roster => clicked' = "none"
         /\ url # "none" /\ url' = "none" /\ url \in p.roster =>
              p.ready /\ (url = p.chat \/ Has(url, asked'))
         /\ jump' = Alert!NoJump \/ (jump'.path \in Chat /\ jump'.anchor = jump'.path)
         /\ landed'.shown = landed'.meant
<1> DEFINE first == IF look /\ Alert!ClickGoes(p, c) THEN Alert!Switches(p, c) ELSE <<>>
           second == IF Alert!UrlGoes(p, url) THEN Alert!Switches(p, url) ELSE <<>>
<1>0. /\ asked \in Seq(Chat) /\ url \in Chat \cup {Gone, "none"}
      /\ jump = Alert!NoJump \/ (jump.path \in Chat /\ jump.anchor = jump.path)
      /\ landed.shown = landed.meant
  BY DEF JumpTypes
<1>1. /\ page' = p
      /\ clicked' = IF look /\ Alert!ClickGoes(p, c) THEN "none" ELSE c
      /\ url' = IF Alert!UrlGoes(p, url) THEN "none" ELSE url
      /\ asked' = (asked \o first) \o second
  BY DEF Alert!Rendered, Alert!NoChat
<1>2. first \in Seq(Chat) /\ second \in Seq(Chat)
  <2>1. p.roster \subseteq Chat
    BY DEF JumpPage
  <2>2. \A x \in p.roster : <<x>> \in Seq(Chat)
    BY <2>1
  <2>3. <<>> \in Seq(Chat)
    BY EmptySeq
  <2> QED BY <2>2, <2>3 DEF Alert!Switches
<1> HIDE DEF first
<1>3. asked \o first \in Seq(Chat)
  BY <1>0, <1>2, HasConcat
<1>4. asked' \in Seq(Chat) /\ \A x : Has(x, second) => Has(x, asked')
  <2> HIDE DEF second
  <2> QED BY <1>1, <1>2, <1>3, HasConcat
<1>5. ASSUME look, up, c \in p.roster PROVE clicked' = "none"
  BY <1>1, <1>5 DEF Alert!ClickGoes, Alert!NoChat
<1>6. ASSUME url # "none", url' = "none", url \in p.roster
      PROVE  p.ready /\ (url = p.chat \/ Has(url, asked'))
  <2>1. Alert!UrlGoes(p, url)
    BY <1>1, <1>6
  <2>2. p.ready
    BY <2>1 DEF Alert!UrlGoes
  <2>3. CASE url # p.chat
    <3>1. second = <<url>>
      BY <1>6, <2>1, <2>3 DEF Alert!Switches
    <3>2. Has(url, <<url>>)
      BY DEF Has
    <3> QED BY <1>4, <2>2, <3>1, <3>2
  <2> QED BY <2>2, <2>3
<1>7. /\ jump' = Alert!NoJump \/ (jump'.path \in Chat /\ jump'.anchor = jump'.path)
      /\ landed'.shown = landed'.meant
  <2>1. CASE jump # Alert!NoJump /\ Alert!Carried(p, jump)
    <3>1. jump' = Alert!NoJump /\ landed' = [meant |-> jump.path, shown |-> p.chat]
      BY <2>1 DEF Alert!Rendered
    <3>2. PICK s \in Chat : s = p.chat /\ jump.anchor \in Marks[s]
      BY <2>1 DEF Alert!Carried, Alert!Offered
    <3>3. jump.anchor = p.chat
      BY <3>2 DEF Marks
    <3> QED BY <1>0, <2>1, <3>1, <3>3
  <2>2. CASE ~(jump # Alert!NoJump /\ Alert!Carried(p, jump))
    <3>1. jump' \in {jump, Alert!NoJump} /\ landed' = landed
      BY <2>2 DEF Alert!Rendered
    <3> QED BY <1>0, <3>1
  <2> QED BY <2>1, <2>2
<1> QED BY <1>1, <1>4, <1>5, <1>6, <1>7

LEMMA JumpParts ==
  ASSUME JumpIInv
  PROVE  /\ JumpTypes /\ roster \in SUBSET Chat /\ jumpsActive \in roster /\ up \in BOOLEAN
         /\ down \in Seq(DownMessage) /\ asked \in Seq(Chat) /\ page \in JumpPage
         /\ url \in Chat \cup {Gone, "none"} /\ clicked \in Chat \cup {Gone, "none"}
         /\ ListsAll(roster, down) /\ PageKnows(roster, page, up, down)
         /\ ClickWaits(up, clicked, page, down)
BY DEF JumpIInv, JumpTypes, JumpPage

(* An address that names an open chat goes with a switch, or the page is in *)
(* the chat already.                                                        *)
Honoured ==
  url # "none" /\ url' = "none" /\ url \in roster =>
    url = page'.chat \/ Has(url, asked')

LEMMA KeepJumpReceive ==
  ASSUME JumpIInv, Alert!Receive PROVE JumpIInv' /\ Honoured
<1> USE JumpParts
<1>1. /\ up /\ down # <<>> /\ down' = Tail(down) /\ UNCHANGED <<roster, jumpsActive, up>>
  BY DEF Alert!Receive
<1>2. PICK m \in DownMessage : m = Head(down)
  BY <1>1, DownTaken
<1>3. /\ down' \in Seq(DownMessage) /\ ListsAll(roster, down')
      /\ m \in RosterSent => roster \subseteq m.ids
      /\ ListFirst(up, down) => m \in RosterSent
      /\ ListComes(down) /\ m \notin RosterSent => ListComes(down')
  BY <1>1, <1>2, DownTaken
<1>4. CASE m \in RosterSent
  <2>1. m.type = "conversations" /\ m.ids \in SUBSET Chat
    BY <1>4 DEF RosterSent
  <2>2. PICK p : p = [page EXCEPT !.roster = m.ids]
    OBVIOUS
  <2>3. p \in JumpPage /\ p.roster = m.ids
    BY <2>1, <2>2 DEF JumpPage
  <2>4. Alert!Rendered(p, clicked, jump, TRUE)
    BY <1>2, <2>1, <2>2 DEF Alert!Receive
  <2>5. /\ page' = p /\ asked' \in Seq(Chat)
        /\ url' \in {url, "none"} /\ clicked' \in {clicked, "none"}
        /\ up /\ clicked \in p.roster => clicked' = "none"
        /\ url # "none" /\ url' = "none" /\ url \in p.roster =>
             p.ready /\ (url = p.chat \/ Has(url, asked'))
        /\ jump' = Alert!NoJump \/ (jump'.path \in Chat /\ jump'.anchor = jump'.path)
        /\ landed'.shown = landed'.meant
    BY <2>3, <2>4, RenderedProperties
  <2>6. JumpTypes'
    BY <1>1, <1>3, <2>3, <2>5 DEF JumpTypes, JumpPage
  <2>7. roster \subseteq p.roster
    BY <1>3, <1>4, <2>3
  <2>8. PageKnows(roster, page, up, down)'
    BY <1>1, <2>5, <2>7 DEF PageKnows
  <2>9. ClickWaits(up, clicked, page, down)'
    BY <1>1, <2>5 DEF ClickWaits
  <2>10. Honoured
    BY <2>5, <2>7 DEF Honoured
  <2> QED BY <1>1, <1>3, <2>6, <2>8, <2>9, <2>10 DEF JumpIInv
<1>5. CASE m \notin RosterSent
  <2>1. PICK p \in JumpPage, look \in BOOLEAN :
          /\ p.roster = page.roster
          /\ Alert!Rendered(p, clicked, jump, look)
    <3>1. CASE m.type = "ready" /\ m \in [type : {"ready"}]
      <4>1. PICK p : p = [page EXCEPT !.ready = TRUE]
        OBVIOUS
      <4>2. p \in JumpPage /\ p.roster = page.roster
        BY <4>1 DEF JumpPage
      <4>3. PICK look \in BOOLEAN : look = (p.chat # page.chat)
        OBVIOUS
      <4>4. Alert!Rendered(p, clicked, jump, look)
        BY <1>2, <3>1, <4>1, <4>3 DEF Alert!Receive
      <4> QED BY <4>2, <4>4
    <3>2. CASE m.type = "snapshot" /\ m \in [type : {"snapshot"}, chat : Chat]
      <4>1. PICK p : p = [page EXCEPT !.chat = m.chat, !.ready = TRUE]
        OBVIOUS
      <4>2. p \in JumpPage /\ p.roster = page.roster
        BY <3>2, <4>1 DEF JumpPage
      <4>3. PICK look \in BOOLEAN : look = (p.chat # page.chat)
        OBVIOUS
      <4>4. Alert!Rendered(p, clicked, jump, look)
        BY <1>2, <3>2, <4>1, <4>3 DEF Alert!Receive
      <4> QED BY <4>2, <4>4
    <3> QED BY <1>5, <3>1, <3>2 DEF DownMessage
  <2>2. /\ page' = p /\ asked' \in Seq(Chat)
        /\ url' \in {url, "none"} /\ clicked' \in {clicked, "none"}
        /\ url # "none" /\ url' = "none" /\ url \in p.roster =>
             p.ready /\ (url = p.chat \/ Has(url, asked'))
        /\ jump' = Alert!NoJump \/ (jump'.path \in Chat /\ jump'.anchor = jump'.path)
        /\ landed'.shown = landed'.meant
    BY <2>1, RenderedProperties
  <2>3. JumpTypes'
    BY <1>1, <1>3, <2>1, <2>2 DEF JumpTypes, JumpPage
  <2>4. roster \subseteq p.roster
    BY <1>3, <1>5, <2>1 DEF PageKnows
  <2>5. PageKnows(roster, page, up, down)'
    BY <1>1, <2>2, <2>4 DEF PageKnows
  <2>6. ClickWaits(up, clicked, page, down)'
    BY <1>1, <1>3, <1>5, <2>1, <2>2 DEF ClickWaits
  <2>7. Honoured
    BY <2>2, <2>4 DEF Honoured
  <2> QED BY <1>1, <1>3, <2>3, <2>5, <2>6, <2>7 DEF JumpIInv
<1> QED BY <1>4, <1>5

(* A message more, when the page stays as it is.                            *)
LEMMA MessageSent ==
  ASSUME JumpIInv, NEW m \in DownMessage, down' = Append(down, m),
         m \in RosterSent => roster' \subseteq m.ids,
         roster' \subseteq roster, jumpsActive' \in roster', asked' \in Seq(Chat),
         UNCHANGED <<up, page, url, clicked, jump, landed>>
  PROVE  JumpIInv'
<1> USE JumpParts
<1>1. ListsAll(roster', down)
  BY DEF ListsAll
<1>2. /\ down' \in Seq(DownMessage) /\ ListsAll(roster', down')
      /\ ListFirst(up, down) => ListFirst(up, down')
      /\ ListComes(down) => ListComes(down')
  BY <1>1, DownAppended
<1>3. JumpTypes'
  BY <1>2 DEF JumpTypes
<1>4. PageKnows(roster, page, up, down)'
  BY <1>2 DEF PageKnows
<1>5. ClickWaits(up, clicked, page, down)'
  BY <1>2 DEF ClickWaits
<1> QED BY <1>2, <1>3, <1>4, <1>5 DEF JumpIInv

LEMMA SnapshotMessage ==
  \A c \in Chat : /\ [type |-> "snapshot", chat |-> c] \in DownMessage
                  /\ [type |-> "snapshot", chat |-> c] \notin RosterSent
BY DEF DownMessage, RosterSent

LEMMA KeepJumpServe == ASSUME JumpIInv, Alert!Serve PROVE JumpIInv' /\ Honoured
<1> USE JumpParts
<1>1. /\ asked # <<>> /\ asked' = Tail(asked)
      /\ jumpsActive' = IF Head(asked) \in roster THEN Head(asked) ELSE jumpsActive
      /\ down' = Append(down, [type |-> "snapshot", chat |-> jumpsActive'])
      /\ UNCHANGED <<roster, up, page, url, clicked, jump, landed>>
  BY DEF Alert!Serve
<1>2. asked' \in Seq(Chat) /\ jumpsActive' \in roster /\ jumpsActive' \in Chat
  BY <1>1, HeadTailProperties
<1>3. PICK m \in DownMessage :
        m = [type |-> "snapshot", chat |-> jumpsActive'] /\ m \notin RosterSent
  BY <1>2, SnapshotMessage
<1> QED BY <1>1, <1>2, <1>3, MessageSent DEF Honoured

LEMMA KeepJumpGetState == ASSUME JumpIInv, Alert!GetState PROVE JumpIInv' /\ Honoured
<1> USE JumpParts
<1>1. /\ down' = Append(down, [type |-> "snapshot", chat |-> jumpsActive])
      /\ UNCHANGED <<roster, jumpsActive, up, asked, page, url, clicked, jump, landed>>
  BY DEF Alert!GetState
<1>2. PICK m \in DownMessage :
        m = [type |-> "snapshot", chat |-> jumpsActive] /\ m \notin RosterSent
  BY SnapshotMessage
<1> QED BY <1>1, <1>2, MessageSent DEF Honoured

LEMMA KeepClose == ASSUME JumpIInv, Alert!Close PROVE JumpIInv' /\ Honoured
<1> USE JumpParts
<1>1. PICK c \in roster \ {jumpsActive} : roster' = roster \ {c}
  BY DEF Alert!Close
<1>2. /\ UNCHANGED <<jumpsActive, up, asked, page, url, clicked, jump, landed>>
      /\ down' = IF up THEN Append(down, [type |-> "conversations", ids |-> roster'])
                 ELSE down
  BY DEF Alert!Close
<1>3. Honoured
  BY <1>2 DEF Honoured
<1>4. CASE up
  <2>1. PICK m \in DownMessage : m = [type |-> "conversations", ids |-> roster']
    BY <1>1 DEF DownMessage, RosterSent
  <2>2. m \in RosterSent => roster' \subseteq m.ids
    BY <2>1
  <2> QED BY <1>1, <1>2, <1>3, <1>4, <2>1, <2>2, MessageSent
<1>5. CASE ~up
  <2>1. ListsAll(roster', down)
    BY <1>1 DEF ListsAll
  <2>2. JumpTypes'
    BY <1>1, <1>2, <1>5 DEF JumpTypes
  <2>3. PageKnows(roster, page, up, down)'
    BY <1>1, <1>2, <1>5 DEF PageKnows
  <2> QED BY <1>2, <1>3, <1>5, <2>1, <2>2, <2>3 DEF JumpIInv, ClickWaits
<1> QED BY <1>4, <1>5

LEMMA KeepNotificationClick ==
  ASSUME JumpIInv, Alert!NotificationClick PROVE JumpIInv' /\ Honoured
<1> USE JumpParts
<1>1. UNCHANGED <<roster, jumpsActive, up, down>>
  BY DEF Alert!NotificationClick
<1>2. PICK c \in roster \cup {Gone} : Alert!Rendered(page, c, jump, TRUE)
  BY DEF Alert!NotificationClick
<1>3. c \in Chat \cup {Gone, "none"}
  BY <1>2
<1>4. /\ page' = page /\ asked' \in Seq(Chat)
      /\ url' \in {url, "none"} /\ clicked' \in {c, "none"}
      /\ up /\ c \in page.roster => clicked' = "none"
      /\ url # "none" /\ url' = "none" /\ url \in page.roster =>
           page.ready /\ (url = page.chat \/ Has(url, asked'))
      /\ url # "none" /\ url' = "none" => page.ready
      /\ jump' = Alert!NoJump \/ (jump'.path \in Chat /\ jump'.anchor = jump'.path)
      /\ landed'.shown = landed'.meant
  <2>1. url # "none" /\ url' = "none" => page.ready
    BY <1>2 DEF Alert!Rendered, Alert!UrlGoes, Alert!NoChat
  <2> QED BY <1>2, <1>3, <2>1, RenderedProperties
<1>5. JumpTypes'
  BY <1>1, <1>4 DEF JumpTypes, JumpPage
<1>6. ClickWaits(up, clicked, page, down)'
  BY <1>1, <1>4 DEF ClickWaits
<1>7. Honoured
  BY <1>4 DEF Honoured, PageKnows
<1> QED BY <1>1, <1>4, <1>5, <1>6, <1>7 DEF JumpIInv

LEMMA KeepSearchHit == ASSUME JumpIInv, Alert!SearchHit PROVE JumpIInv' /\ Honoured
<1> USE JumpParts
<1>1. PICK s \in roster, a \in Anchor :
        /\ a \in Marks[s]
        /\ UNCHANGED <<roster, jumpsActive, up, down, page, url, clicked>>
        /\ asked' = IF s = page.chat THEN <<>> ELSE <<s>>
        /\ IF Alert!Carried(page, [path |-> s, anchor |-> a])
           THEN /\ jump' = Alert!NoJump
                /\ landed' = [meant |-> s, shown |-> page.chat]
           ELSE jump' = [path |-> s, anchor |-> a] /\ landed' = landed
  BY DEF Alert!SearchHit
<1>2. s \in Chat /\ a = s
  BY <1>1 DEF Marks
<1>3. asked' \in Seq(Chat)
  BY <1>1, <1>2, EmptySeq
<1>4. /\ jump' = Alert!NoJump \/ (jump'.path \in Chat /\ jump'.anchor = jump'.path)
      /\ landed'.shown = landed'.meant
  <2>1. CASE Alert!Carried(page, [path |-> s, anchor |-> a])
    <3>1. PICK x \in Chat : x = page.chat /\ a \in Marks[x]
      BY <2>1 DEF Alert!Carried, Alert!Offered
    <3>2. a = page.chat
      BY <3>1 DEF Marks
    <3> QED BY <1>1, <1>2, <2>1, <3>2
  <2>2. CASE ~Alert!Carried(page, [path |-> s, anchor |-> a])
    <3>1. landed.shown = landed.meant
      BY DEF JumpTypes
    <3> QED BY <1>1, <1>2, <2>2, <3>1
  <2> QED BY <2>1, <2>2
<1>5. JumpTypes'
  BY <1>1, <1>3, <1>4 DEF JumpTypes
<1> QED BY <1>1, <1>5 DEF JumpIInv, Honoured

LEMMA KeepDrop == ASSUME JumpIInv, Alert!Drop PROVE JumpIInv' /\ Honoured
<1> USE JumpParts
<1>1. /\ up' = FALSE /\ down' = <<>> /\ asked' = <<>>
      /\ page' = [page EXCEPT !.ready = FALSE]
      /\ UNCHANGED <<roster, jumpsActive, url, clicked, jump, landed>>
  BY DEF Alert!Drop
<1>2. page' \in JumpPage /\ page'.roster = page.roster /\ ~page'.ready
  BY <1>1 DEF JumpPage
<1>3. <<>> \in Seq(DownMessage) /\ <<>> \in Seq(Chat)
  BY EmptySeq
<1>4. JumpTypes'
  BY <1>1, <1>2, <1>3 DEF JumpTypes, JumpPage
<1>5. ListsAll(roster, down)' /\ ClickWaits(up, clicked, page, down)'
  BY <1>1 DEF ListsAll, ClickWaits
<1>6. PageKnows(roster, page, up, down)'
  BY <1>1, <1>2 DEF PageKnows, ListFirst
<1> QED BY <1>1, <1>4, <1>5, <1>6 DEF JumpIInv, Honoured

LEMMA KeepJumpReconnect == ASSUME JumpIInv, Alert!Reconnect PROVE JumpIInv' /\ Honoured
<1> USE JumpParts
<1>1. /\ up' = TRUE /\ down' = Alert!Sent(Alert!Greeting)
      /\ UNCHANGED <<roster, jumpsActive, asked, page, url, clicked, jump, landed>>
  BY DEF Alert!Reconnect, Alert!Reattached
<1>2. /\ down' \in Seq(DownMessage) /\ Len(down') = 2
      /\ down'[1] \in RosterSent /\ down'[1].ids = roster /\ down'[2] \notin RosterSent
  BY <1>1, GreetingProperties
<1>3. JumpTypes'
  BY <1>1, <1>2 DEF JumpTypes
<1>4. ListsAll(roster, down)' /\ ListComes(down') /\ ListFirst(up', down')
  BY <1>1, <1>2 DEF ListsAll, ListComes, ListFirst
<1>5. PageKnows(roster, page, up, down)' /\ ClickWaits(up, clicked, page, down)'
  BY <1>1, <1>4 DEF PageKnows, ClickWaits
<1> QED BY <1>1, <1>3, <1>4, <1>5 DEF JumpIInv, Honoured

LEMMA JumpStep ==
  JumpIInv /\ [Alert!JumpNext]_jumpVars => JumpIInv' /\ (Honoured \/ UNCHANGED jumpVars)
<1> SUFFICES ASSUME JumpIInv, [Alert!JumpNext]_jumpVars
             PROVE  JumpIInv' /\ (Honoured \/ UNCHANGED jumpVars)
  OBVIOUS
<1>1. CASE UNCHANGED jumpVars
  BY <1>1 DEF jumpVars, JumpIInv, JumpTypes
<1>2. CASE Alert!JumpExpires
  <2>1. /\ jump' = Alert!NoJump
        /\ UNCHANGED <<roster, jumpsActive, up, down, asked, page, url, clicked, landed>>
    BY <1>2 DEF Alert!JumpExpires
  <2> QED BY <2>1 DEF JumpIInv, JumpTypes, Honoured
<1>3. CASE Alert!JumpNext
  BY <1>2, <1>3, KeepJumpReceive, KeepJumpServe, KeepJumpGetState, KeepClose,
     KeepNotificationClick, KeepSearchHit, KeepDrop, KeepJumpReconnect
     DEF Alert!JumpNext
<1> QED BY <1>1, <1>3

LEMMA JumpImplies ==
  ASSUME JumpIInv
  PROVE  Alert!JumpTypeOK /\ Alert!ClickNotForgotten /\ Alert!JumpIsSeen
<1> USE JumpParts
<1>1. Alert!JumpTypeOK
  <2>1. jump = Alert!NoJump \/ jump.anchor \in Marks[jump.path]
    BY DEF JumpTypes, Marks
  <2> QED BY <2>1 DEF Alert!JumpTypeOK, JumpPage, Alert!NoChat
<1>2. Alert!ClickNotForgotten
  BY DEF Alert!ClickNotForgotten, ClickWaits, ListComes, Alert!NoChat
<1>3. Alert!JumpIsSeen
  BY DEF Alert!JumpIsSeen, JumpTypes
<1> QED BY <1>1, <1>2, <1>3

-----------------------------------------------------------------------------
(* One tab shows an event, none over a tab that is looked at or with the    *)
(* switch off, and the switch is as the user chose last; a click on a toast *)
(* waits for its chat, a hit of the search is jumped to in its own chat,    *)
(* and the address of an open chat leads there, whatever drops and closes.  *)
THEOREM NotificationsReach == Spec => NotificationsLead
<1> DEFINE IInv == AlertIInv /\ JumpIInv
           Toasts == part = "alerts" => /\ Alert!AlertTypeOK
                                        /\ Alert!ShownOnce
                                        /\ Alert!StrictGate
                                        /\ Alert!LastChoiceHolds
           Jumps == part = "jumps" => /\ Alert!JumpTypeOK
                                      /\ Alert!ClickNotForgotten
                                      /\ Alert!JumpIsSeen
           Address == url # Alert!NoChat /\ url' = Alert!NoChat /\ url \in roster =>
                        url = page'.chat \/ Alert!Contains(asked', url)
<1>1. Init => IInv
  BY AlertInitially, JumpInitially DEF Init
<1>2. [Next]_vars => [Alert!AlertNext]_alertVars /\ [Alert!JumpNext]_jumpVars
  BY DEF Next, Rest, vars, alertVars, jumpVars
<1>3. IInv /\ [Next]_vars => IInv'
  BY <1>2, AlertStep, JumpStep
<1>4. IInv => Toasts /\ Jumps
  BY AlertImplies, JumpImplies
<1>5. IInv /\ [Next]_vars => [Address]_(Alert!jumpVars)
  <2> SUFFICES ASSUME IInv, [Next]_vars, ~UNCHANGED jumpVars PROVE Address
    BY DEF jumpVars, Alert!jumpVars
  <2>1. Honoured
    BY <1>2, JumpStep
  <2>2. asked' \in Seq(Chat)
    BY <1>3 DEF JumpIInv, JumpTypes
  <2>3. DOMAIN asked' = 1 .. Len(asked')
    BY <2>2, LenProperties
  <2> QED BY <2>1, <2>3 DEF Honoured, Has, Alert!Contains, Alert!NoChat
<1> HIDE DEF IInv, Toasts, Jumps, Address
<1>6. Spec => []Toasts /\ []Jumps /\ [][Address]_(Alert!jumpVars)
  BY <1>1, <1>3, <1>4, <1>5, PTL DEF Spec
<1> QED BY <1>6 DEF NotificationsLead, Alert!AddressHonoured, Toasts, Jumps, Address
=============================================================================
