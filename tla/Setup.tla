-------------------------------- MODULE Setup --------------------------------
(***************************************************************************)
(* The first visit: a page that hears the agent has no usable model offers *)
(* to install the CLI and to save a key (web/src/components/               *)
(* PiSetupModal.tsx).  The server answers with what it finds on PATH and   *)
(* in the credentials, both remembered for a while, in every snapshot      *)
(* (server/agent-service.ts: isPiConfigured, isPiCliInstalled,             *)
(* installPiAgent).                                                        *)
(***************************************************************************)
EXTENDS Naturals

CONSTANTS Tab,          \* pages of one client
          ProbeTTL,     \* PI_CLI_PROBE_TTL_MS, in ticks
          ConfigTTL,    \* the 2 seconds of piCheckCache, in ticks
          MaxSetupSteps \* bound: what users and the world do

VARIABLES onPath,   \* the CLI is on PATH
          keyed,    \* there is a usable model
          quiet,    \* ticks since onPath and keyed last changed
          probe,    \* piCliProbe: nothing, or a value and its age
          checked,  \* piCheckCache
          runs,     \* installs that are running
          up,       \* the tabs with an open socket
          pages,    \* tab -> its spinner, flags and last install_result
          troubled, \* an answer was lost, or none was sent
          happened  \* steps taken, a bound only

setupVars == <<onPath, keyed, quiet, probe, checked, runs, up, pages,
               troubled, happened>>

Unknown == [known |-> FALSE, value |-> FALSE, age |-> 0]
Page == [spinning : BOOLEAN, installed : BOOLEAN, configured : BOOLEAN,
         result : {"none", "ok", "failed"}]

SetupInit ==
  /\ onPath \in BOOLEAN /\ keyed = FALSE /\ quiet = 0
  /\ probe = Unknown /\ checked = Unknown
  /\ runs = 0 /\ up = Tab
  /\ pages = [t \in Tab |-> [spinning |-> FALSE, installed |-> FALSE,
                             configured |-> FALSE, result |-> "none"]]
  /\ troubled = FALSE
  /\ happened = 0

Step == happened < MaxSetupSteps /\ happened' = happened + 1

(* A cache: the value while it is young enough, else what is there now     *)
MutTouched(cache, ttl, truth) ==
  IF cache.known /\ cache.age < ttl THEN [cache EXCEPT !.age = 0]
  ELSE [known |-> TRUE, value |-> truth, age |-> 0]
Looked(cache, ttl, truth) ==
  IF cache.known /\ cache.age < ttl THEN cache
  ELSE [known |-> TRUE, value |-> truth, age |-> 0]

(* A snapshot to every open tab, after what the pages learnt before it     *)
Snapshot(pr, ch, before) ==
  /\ probe' = Looked(pr, ProbeTTL, onPath')
  /\ checked' = Looked(ch, ConfigTTL, keyed')
  /\ pages' = [t \in Tab |->
                 IF t \notin up THEN pages[t]
                 ELSE [before[t] EXCEPT !.installed = probe'.value,
                                          !.configured = checked'.value]]

(* Any snapshot: a run's event, get_state of the recheck button            *)
Flush == /\ UNCHANGED <<onPath, keyed, quiet, runs, up, troubled, happened>>
         /\ Snapshot(probe, checked, pages)

(* The install button is shown while the CLI is missing; a second tab may  *)
(* press its own                                                           *)
DoInstall(t) ==
  /\ Step
  /\ t \in up /\ ~pages[t].spinning /\ ~pages[t].installed
  /\ ~pages[t].configured /\ pages[t].result # "ok"
  /\ runs' = runs + 1
  /\ pages' = [pages EXCEPT ![t].spinning = TRUE]
  /\ UNCHANGED <<onPath, keyed, quiet, probe, checked, up, troubled>>

(* npm ends, or is killed after its time: the result goes to the tabs that *)
(* are there, the probe is dropped and a snapshot follows                  *)
MutKeepsProbe(cache) == cache
Dropped(cache) == Unknown
MutOnlyTheGood(p, ok) == IF ok THEN [p EXCEPT !.result = "ok",
                                              !.spinning = FALSE] ELSE p
Told(p, ok) == [p EXCEPT !.result = IF ok THEN "ok" ELSE "failed",
                         !.spinning = FALSE]

InstallEnds ==
  /\ runs > 0 /\ runs' = runs - 1
  /\ UNCHANGED <<keyed, up, happened>>
  /\ \E ok \in BOOLEAN :
       /\ onPath' = (onPath \/ ok)
       /\ quiet' = IF onPath' = onPath THEN quiet ELSE 0
       /\ Snapshot(Dropped(probe), checked, [t \in Tab |-> Told(pages[t], ok)])
  /\ troubled' = (troubled \/ up # Tab)

(* The configuration directory cannot be made: a notice and no result      *)
InstallThrows ==
  /\ runs > 0 /\ runs' = runs - 1
  /\ UNCHANGED <<onPath, keyed, quiet, up, happened>>
  /\ Snapshot(Dropped(probe), checked, pages)
  /\ troubled' = TRUE

(* A key is saved: invalidatePiConfig and a snapshot                       *)
MutKeepsChecked(cache) == cache
Invalidated(cache) == Unknown

SaveKey ==
  /\ Step
  /\ \E t \in up : pages[t].installed /\ ~pages[t].configured
  /\ keyed' = TRUE /\ quiet' = 0
  /\ UNCHANGED <<onPath, runs, up, troubled>>
  /\ Snapshot(probe, Invalidated(checked), pages)

(* Somebody installs or removes the CLI by hand, or logs in with it        *)
ByHand == /\ Step
          /\ quiet' = 0
          /\ \/ onPath' = ~onPath /\ UNCHANGED keyed
             \/ keyed' = ~keyed /\ UNCHANGED onPath
          /\ UNCHANGED <<probe, checked, runs, up, pages, troubled>>

Later(cache) == [cache EXCEPT !.age = IF @ < ProbeTTL THEN @ + 1 ELSE @]
Tick == /\ probe' = Later(probe) /\ checked' = Later(checked)
        /\ quiet' = IF quiet < ProbeTTL THEN quiet + 1 ELSE quiet
        /\ UNCHANGED <<onPath, keyed, runs, up, pages, troubled, happened>>

Lose(t) == /\ Step /\ t \in up /\ up' = up \ {t}
           /\ UNCHANGED <<onPath, keyed, quiet, probe, checked, runs, pages,
                          troubled>>
Return(t) == /\ t \in Tab \ up /\ up' = up \cup {t}
             /\ UNCHANGED <<onPath, keyed, quiet, probe, checked, runs, pages,
                            troubled, happened>>

SetupNext == \/ Flush \/ InstallEnds \/ InstallThrows \/ SaveKey \/ ByHand
             \/ Tick
             \/ \E t \in Tab : DoInstall(t) \/ Lose(t) \/ Return(t)

-----------------------------------------------------------------------------
SetupTypeOK ==
  /\ onPath \in BOOLEAN /\ keyed \in BOOLEAN /\ quiet \in 0..ProbeTTL
  /\ runs \in 0..MaxSetupSteps
  /\ up \subseteq Tab /\ pages \in [Tab -> Page]

(* What the first visitor has just done shows at once: after an install or *)
(* a saved key the open tabs are told what is there now, whatever the      *)
(* caches remembered.                                                      *)
TellsAtOnce ==
  [][/\ InstallEnds => \A t \in up : pages'[t].installed = onPath'
     /\ SaveKey => \A t \in up : pages'[t].configured]_setupVars

(* What was done behind the server's back shows once the caches are old:   *)
(* snapshots that come often do not keep a stale answer alive.             *)
TellsInTime ==
  [][Flush /\ quiet = ProbeTTL =>
       \A t \in up : pages'[t].installed = onPath
                     /\ pages'[t].configured = keyed]_setupVars

(* A spinner turns only while something is being installed, as long as no  *)
(* tab has missed an answer and no install has failed before it began.     *)
SpinnerMeansWork ==
  ~troubled /\ runs = 0 => \A t \in Tab : ~pages[t].spinning

(* PiSetupModal.tsx, "Install finished (success or failure) -> stop the    *)
(* spinner", without that condition: an install that throws sends no       *)
(* result, and one that ends while the socket is down is not told again.   *)
SpinnerStops == runs = 0 => \A t \in up : ~pages[t].spinning
=============================================================================
