---------------------------- MODULE Subscriptions ----------------------------
(***************************************************************************)
(* The subscription usage in the footer: every browser polls over HTTP     *)
(* while it is visible and aborts what it no longer wants; the server      *)
(* keeps one usage service per account, which the browsers share, and      *)
(* drops the ones that are not used.  One provider stands for the three.   *)
(***************************************************************************)
EXTENDS Naturals, Sequences, FiniteSets

CONSTANTS
  Reader,         \* browsers
  Account,        \* tokens of accounts
  MaxEntries,     \* MAX_ENTRIES
  MaxReads,       \* bound: reads under way
  MaxSubEvents    \* bound: what users and the network do

Nobody == "none"            \* no token
AuthError == "auth-error"
Keys == Account \cup {Nobody, AuthError}

VARIABLES
  token,      \* reader -> the account its runtime is signed in to
  ready,      \* reader -> the session is ready
  visible,    \* reader -> the page is visible
  inFlight,   \* reader -> inFlightRef
  timer,      \* reader -> a poll is scheduled
  usageShown, \* reader -> [of, ok]: whose usage is shown, and whether not stale
  reads,      \* HTTP requests: [by, force, current, stage, key, mine]
  entries,    \* keys of the cache, the one used last at the end
  fresh,      \* keys whose snapshot is not stale
  guarded,    \* keys refreshed by hand within the last ten seconds
  unused,     \* keys not used for half an hour
  subEvents

subVars == <<token, ready, visible, inFlight, timer, usageShown, reads, entries, fresh,
             guarded, unused, subEvents>>
pageVars == <<ready, visible, inFlight, timer, usageShown>>
cacheVars == <<entries, fresh, guarded, unused>>

Entries == {entries[i] : i \in DOMAIN entries}
(* entry.active: the reads that wait for a refresh of the entry.            *)
Active(k) == {i \in DOMAIN reads : reads[i].stage = "refreshing" /\ reads[i].key = k}
NoUsage == [of |-> Nobody, ok |-> FALSE]

SubTypeOK ==
  /\ token \in [Reader -> Account \cup {Nobody}]
  /\ ready \in [Reader -> BOOLEAN] /\ visible \in [Reader -> BOOLEAN]
  /\ inFlight \in [Reader -> BOOLEAN] /\ timer \in [Reader -> BOOLEAN]
  /\ usageShown \in [Reader -> [of : Keys, ok : BOOLEAN]]
  /\ reads \in Seq([by : Reader, force : BOOLEAN, current : BOOLEAN, key : Keys,
                    mine : Account \cup {Nobody},
                    stage : {"auth", "refreshing", "answering"}])
  /\ Entries \subseteq Keys /\ Len(entries) = Cardinality(Entries)
  /\ fresh \subseteq Keys /\ guarded \subseteq Keys /\ unused \subseteq Keys
  /\ subEvents \in 0 .. MaxSubEvents

SubInit ==
  /\ \E a \in Account : token = [r \in Reader |-> a]
  /\ ready = [r \in Reader |-> FALSE]
  /\ visible = [r \in Reader |-> TRUE] /\ inFlight = [r \in Reader |-> FALSE]
  /\ timer = [r \in Reader |-> FALSE] /\ usageShown = [r \in Reader |-> NoUsage]
  /\ reads = <<>> /\ entries = <<>> /\ fresh = {} /\ guarded = {} /\ unused = {}
  /\ subEvents = 0

SubEvent == subEvents < MaxSubEvents /\ subEvents' = subEvents + 1

-----------------------------------------------------------------------------
(* load: one request at a time; the poll that was scheduled is not needed.  *)
NewRead(r, force) ==
  [by |-> r, force |-> force, current |-> TRUE, stage |-> "auth", key |-> Nobody,
   mine |-> token[r]]
MutNotInFlight(r) == ready[r]
MayLoad(r) == ready[r] /\ ~inFlight[r]
LoadFrom(rs, r, force) ==
  /\ Len(rs) < MaxReads
  /\ reads' = Append(rs, NewRead(r, force))
  /\ inFlight' = [inFlight EXCEPT ![r] = TRUE] /\ timer' = [timer EXCEPT ![r] = FALSE]
(* requestNumber goes up and the request is aborted, which the server does  *)
(* not learn.                                                               *)
Abandoned(r) ==
  [i \in DOMAIN reads |-> IF reads[i].by = r THEN [reads[i] EXCEPT !.current = FALSE]
                          ELSE reads[i]]

PollDue(r) ==
  /\ timer[r] /\ visible[r] /\ MayLoad(r) /\ LoadFrom(reads, r, FALSE)
  /\ UNCHANGED <<token, ready, visible, usageShown, cacheVars, subEvents>>
RefreshClicked(r) ==
  /\ SubEvent /\ MayLoad(r) /\ usageShown[r].of \in Account \cup {AuthError}
  /\ LoadFrom(reads, r, TRUE)
  /\ UNCHANGED <<token, ready, visible, usageShown, cacheVars>>

(* The effect of a session that gets ready, or is lost.                     *)
ReadyChanges(r) ==
  /\ SubEvent /\ ready' = [ready EXCEPT ![r] = ~@]
  /\ IF ~ready[r] /\ visible[r] THEN LoadFrom(Abandoned(r), r, FALSE)
     ELSE /\ reads' = Abandoned(r) /\ inFlight' = [inFlight EXCEPT ![r] = FALSE]
          /\ timer' = [timer EXCEPT ![r] = FALSE]
  /\ UNCHANGED <<token, visible, usageShown, cacheVars>>

(* onVisibility.                                                            *)
Hides(r) ==
  /\ SubEvent /\ visible[r] /\ visible' = [visible EXCEPT ![r] = FALSE]
  /\ timer' = [timer EXCEPT ![r] = FALSE] /\ inFlight' = [inFlight EXCEPT ![r] = FALSE]
  /\ reads' = IF inFlight[r] THEN Abandoned(r) ELSE reads
  /\ UNCHANGED <<token, ready, usageShown, cacheVars>>
Appears(r) ==
  /\ ~visible[r] /\ visible' = [visible EXCEPT ![r] = TRUE]
  /\ IF MayLoad(r) THEN LoadFrom(reads, r, FALSE) ELSE UNCHANGED <<reads, inFlight, timer>>
  /\ UNCHANGED <<token, ready, usageShown, cacheVars, subEvents>>

-----------------------------------------------------------------------------
Place(i, read) == [reads EXCEPT ![i] = read]
Without(i) == SubSeq(reads, 1, i - 1) \o SubSeq(reads, i + 1, Len(reads))
MutListedTwice(k) == Append(entries, k)
UsedLast(k) == Append(SelectSeq(entries, LAMBDA e : e # k), k)

(* contexts: the token is resolved or runs into its timeout, and names the  *)
(* entry; then the refresh, of an entry that is stale, or when the user     *)
(* asked, unless he just did.                                               *)
MutAnyAccount(k) == IF k \in Account /\ Entries \cap Account # {}
                    THEN CHOOSE e \in Entries \cap Account : TRUE ELSE k
EntryOf(k) == k
Resolves(i) ==
  /\ i <= Len(reads) /\ reads[i].stage = "auth"
  /\ \E k \in {token[reads[i].by], AuthError} :
       LET e == EntryOf(k)
           skipped == reads[i].force /\ e \in guarded /\ Active(e) = {}
           refreshes == ~skipped /\ (reads[i].force \/ e \notin fresh) IN
         /\ (k = AuthError => subEvents < MaxSubEvents)
         /\ subEvents' = subEvents + (IF k = AuthError THEN 1 ELSE 0)
         /\ reads' = Place(i, [reads[i] EXCEPT !.key = e,
                                 !.mine = token[reads[i].by],
                                 !.stage = IF refreshes THEN "refreshing" ELSE "answering"])
         /\ entries' = UsedLast(e) /\ unused' = unused \ {e}
         /\ guarded' = IF refreshes /\ reads[i].force THEN guarded \cup {e} ELSE guarded
  /\ UNCHANGED <<token, pageVars, fresh>>

(* The usage service has asked the provider.                                *)
Refreshed(i) ==
  /\ i <= Len(reads) /\ reads[i].stage = "refreshing"
  /\ reads' = Place(i, [reads[i] EXCEPT !.stage = "answering"])
  /\ fresh' = fresh \cup {reads[i].key} /\ unused' = unused \ {reads[i].key}
  /\ entries' = IF reads[i].key \in Entries THEN UsedLast(reads[i].key) ELSE entries
  /\ guarded' = IF reads[i].force THEN guarded \cup {reads[i].key} ELSE guarded
  /\ UNCHANGED <<token, pageVars, subEvents>>

(* cleanup: entries nobody used for long go, then the ones used longest ago *)
(* while there are too many; the ones in use stay.                          *)
MutEvictsAny(k) == FALSE
InUse(k) == Active(k) # {}
Kept ==
  LET recent == SelectSeq(entries, LAMBDA e : InUse(e) \/ e \notin unused)
      idle == SelectSeq(recent, LAMBDA e : ~InUse(e))
      excess == IF Len(recent) > MaxEntries THEN Len(recent) - MaxEntries ELSE 0
      evicted == {idle[j] : j \in 1 .. (IF excess < Len(idle) THEN excess ELSE Len(idle))}
  IN SelectSeq(recent, LAMBDA e : e \notin evicted)
Cleanup == entries' = Kept /\ fresh' = fresh \cap {Kept[j] : j \in DOMAIN Kept}

(* The answer, or a failure, and the finally of load: only the request of   *)
(* the moment counts, and schedules the next poll.                          *)
MutPollsOnSuccess(ok) == ok
PollsAfter(ok) == TRUE
Arrives(i, ok) ==
  LET q == reads[i] IN
    /\ reads' = Without(i)
    /\ IF q.current
       THEN /\ usageShown' = [usageShown EXCEPT ![q.by] =
                                IF ok THEN [of |-> q.key, ok |-> TRUE]
                                ELSE [@ EXCEPT !.ok = FALSE]]
            /\ inFlight' = [inFlight EXCEPT ![q.by] = FALSE]
            /\ timer' = [timer EXCEPT ![q.by] = visible[q.by] /\ PollsAfter(ok)]
       ELSE UNCHANGED <<usageShown, inFlight, timer>>
    /\ UNCHANGED <<token, ready, visible>>
Answers(i) ==
  /\ i <= Len(reads) /\ reads[i].stage = "answering"
  /\ Cleanup /\ Arrives(i, TRUE)
  /\ UNCHANGED <<guarded, unused, subEvents>>
(* The session is gone on the server, or the connection.                    *)
RequestFails(i) ==
  /\ SubEvent /\ i <= Len(reads) /\ reads[i].stage = "auth"
  /\ Arrives(i, FALSE)
  /\ UNCHANGED cacheVars

(* Time: a snapshot turns stale, the guard of the button ends, an entry is  *)
(* not used; and the user signs in to another account, or out.              *)
TimeGoes(k) ==
  /\ k \in Entries
  /\ \/ k \in fresh /\ fresh' = fresh \ {k} /\ UNCHANGED <<guarded, unused, subEvents>>
     \/ k \in guarded /\ guarded' = guarded \ {k} /\ UNCHANGED <<fresh, unused, subEvents>>
     \/ /\ SubEvent /\ k \notin unused /\ ~InUse(k) /\ unused' = unused \cup {k}
        /\ UNCHANGED <<fresh, guarded>>
  /\ UNCHANGED <<token, pageVars, reads, entries>>
SignsIn(r, a) ==
  /\ SubEvent /\ token[r] # a /\ token' = [token EXCEPT ![r] = a]
  /\ UNCHANGED <<pageVars, reads, cacheVars>>

SubNext ==
  \/ \E r \in Reader : PollDue(r) \/ RefreshClicked(r) \/ ReadyChanges(r) \/ Hides(r)
                       \/ Appears(r) \/ \E a \in Account \cup {Nobody} : SignsIn(r, a)
  \/ \E i \in 1 .. MaxReads : Resolves(i) \/ Refreshed(i) \/ Answers(i) \/ RequestFails(i)
  \/ \E k \in Keys : TimeGoes(k)

-----------------------------------------------------------------------------
(* A read answers with the usage of the account its own client is signed in *)
(* to when the token was resolved, never with that of another client's.     *)
OwnUsage ==
  \A i \in DOMAIN reads :
    reads[i].stage # "auth" => reads[i].key \in {reads[i].mine, AuthError}

(* A browser that is visible and ready keeps polling, whatever was aborted, *)
(* hidden or failed before: a poll is scheduled or a request is under way.  *)
PollingGoesOn ==
  \A r \in Reader : ready[r] /\ visible[r] =>
    timer[r] \/ \E i \in DOMAIN reads : reads[i].by = r /\ reads[i].current

(* At most one request of a browser counts, so that answers cannot          *)
(* overwrite newer ones.                                                    *)
OneRequestCounts ==
  \A r \in Reader : Cardinality({i \in DOMAIN reads : reads[i].by = r /\ reads[i].current}) <= 1

(* A service is not disposed while a refresh of it runs, and the cache is   *)
(* back within its limit when nobody reads.                                 *)
CacheKept ==
  /\ \A k \in Keys : Active(k) # {} => k \in Entries
  /\ reads = <<>> => Len(entries) <= MaxEntries
=============================================================================
