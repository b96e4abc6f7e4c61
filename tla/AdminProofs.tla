----------------------------- MODULE AdminProofs -----------------------------
(***************************************************************************)
(* The properties of MCAdmin, proved for every value of its constants.     *)
(* Each part has an inductive invariant of its own (HistIInv, WtIInv,      *)
(* ModelIInv, ConfigIInv, FormIInv, SetupIInv), about the part alone: a    *)
(* step of MCAdmin is a step of the part or leaves its variables as they   *)
(* are.                                                                    *)
(***************************************************************************)
EXTENDS MCAdmin, SequencesExt, SequenceTheorems, FiniteSetTheorems,
        FunctionTheorems, WellFoundedInduction, TLAPS

-----------------------------------------------------------------------------
(* Setup                                                                    *)

(* The caches of the probe and of the configuration.                        *)
Cache == [known : BOOLEAN, value : BOOLEAN, age : 0..ProbeTTL]

(* A remembered answer that is wrong is at least as old as the last change. *)
Dated(cache, truth, since) ==
  cache.known /\ cache.value # truth => since <= cache.age

(* Types, and the inductive invariant.                                      *)
SetupFlags == onPath \in BOOLEAN /\ keyed \in BOOLEAN /\ troubled \in BOOLEAN

SetupTyped ==
  /\ quiet \in 0..ProbeTTL /\ runs \in Nat /\ happened \in 0..MaxSetupSteps
  /\ runs <= happened
  /\ probe \in Cache /\ checked \in Cache
  /\ up \subseteq SetupTab /\ pages \in [SetupTab -> Setup!Page]

SetupDated == Dated(probe, onPath, quiet) /\ Dated(checked, keyed, quiet)

SetupIInv == SetupFlags /\ SetupTyped /\ SetupDated /\ Setup!SpinnerMeansWork

(* A cache that is looked at is refreshed when it is too old: what it       *)
(* says is never older than its time.                                       *)
LEMMA LookedProperties ==
  ASSUME NEW cache \in Cache, NEW ttl \in 0..ProbeTTL, NEW truth \in BOOLEAN,
         NEW since \in 0..ProbeTTL
  PROVE  /\ Setup!Looked(cache, ttl, truth) \in Cache
         /\ Dated(cache, truth, since) => Dated(Setup!Looked(cache, ttl, truth), truth, since)
         /\ Dated(cache, truth, since) /\ since = ProbeTTL
              => Setup!Looked(cache, ttl, truth).value = truth
         /\ ~cache.known => Setup!Looked(cache, ttl, truth).value = truth
<1>1. CASE cache.known /\ cache.age < ttl
  <2>1. Setup!Looked(cache, ttl, truth) = cache
    BY <1>1 DEF Setup!Looked
  <2>2. cache.age \in Int /\ cache.age < ProbeTTL
    BY <1>1, AdminBounds DEF Cache
  <2> QED BY <1>1, <2>1, <2>2 DEF Dated
<1>2. CASE ~(cache.known /\ cache.age < ttl)
  <2>1. Setup!Looked(cache, ttl, truth) = [known |-> TRUE, value |-> truth, age |-> 0]
    BY <1>2 DEF Setup!Looked
  <2>2. 0 \in 0..ProbeTTL
    BY AdminBounds
  <2> QED BY <2>1, <2>2 DEF Dated, Cache
<1> QED BY <1>1, <1>2

(* Nothing is remembered at first.                                          *)
LEMMA UnknownCache == Setup!Unknown \in Cache /\ ~Setup!Unknown.known
<1>1. 0 \in 0..ProbeTTL
  BY AdminBounds
<1> QED BY <1>1 DEF Setup!Unknown, Cache

(* collectSetupState: what a page is sent is what the caches say by then.   *)
LEMMA SnapshotProperties ==
  ASSUME NEW pr \in Cache, NEW ch \in Cache, NEW before \in [SetupTab -> Setup!Page],
         pages \in [SetupTab -> Setup!Page],
         onPath' \in BOOLEAN, keyed' \in BOOLEAN, NEW since \in 0..ProbeTTL,
         Setup!Snapshot(pr, ch, before)
  PROVE  /\ probe' \in Cache /\ checked' \in Cache
         /\ pages' \in [SetupTab -> Setup!Page]
         /\ Dated(pr, onPath', since) => Dated(probe', onPath', since)
         /\ Dated(ch, keyed', since) => Dated(checked', keyed', since)
         /\ Dated(pr, onPath', since) /\ since = ProbeTTL => probe'.value = onPath'
         /\ Dated(ch, keyed', since) /\ since = ProbeTTL => checked'.value = keyed'
         /\ ~pr.known => probe'.value = onPath'
         /\ ~ch.known => checked'.value = keyed'
         /\ \A t \in SetupTab :
              /\ t \notin up => pages'[t] = pages[t]
              /\ t \in up => /\ pages'[t].spinning = before[t].spinning
                             /\ pages'[t].installed = probe'.value
                             /\ pages'[t].configured = checked'.value
<1>1. ProbeTTL \in 0..ProbeTTL /\ ConfigTTL \in 0..ProbeTTL
  BY AdminBounds
<1>2. /\ probe' = Setup!Looked(pr, ProbeTTL, onPath')
      /\ checked' = Setup!Looked(ch, ConfigTTL, keyed')
  BY DEF Setup!Snapshot
<1>3. /\ probe' \in Cache
      /\ Dated(pr, onPath', since) => Dated(probe', onPath', since)
      /\ Dated(pr, onPath', since) /\ since = ProbeTTL => probe'.value = onPath'
      /\ ~pr.known => probe'.value = onPath'
  BY <1>1, <1>2, LookedProperties
<1>4. /\ checked' \in Cache
      /\ Dated(ch, keyed', since) => Dated(checked', keyed', since)
      /\ Dated(ch, keyed', since) /\ since = ProbeTTL => checked'.value = keyed'
      /\ ~ch.known => checked'.value = keyed'
  BY <1>1, <1>2, LookedProperties
<1>5. pages' = [t \in SetupTab |->
                  IF t \notin up THEN pages[t]
                  ELSE [before[t] EXCEPT !.installed = probe'.value,
                                         !.configured = checked'.value]]
  BY DEF Setup!Snapshot
<1>6. probe'.value \in BOOLEAN /\ checked'.value \in BOOLEAN
  BY <1>3, <1>4 DEF Cache
<1>7. pages' \in [SetupTab -> Setup!Page]
  BY <1>5, <1>6 DEF Setup!Page
<1>8. ASSUME NEW t \in SetupTab
      PROVE  /\ t \notin up => pages'[t] = pages[t]
             /\ t \in up => /\ pages'[t].spinning = before[t].spinning
                            /\ pages'[t].installed = probe'.value
                            /\ pages'[t].configured = checked'.value
  <2>1. before[t] \in Setup!Page
    OBVIOUS
  <2> QED BY <1>5, <2>1 DEF Setup!Page
<1> QED BY <1>3, <1>4, <1>7, <1>8

(* Nothing is remembered, no page is open.                                  *)
LEMMA SetupInitially == Setup!SetupInit => SetupIInv
<1> SUFFICES ASSUME Setup!SetupInit PROVE SetupIInv
  OBVIOUS
<1>1. SetupFlags
  BY DEF Setup!SetupInit, SetupFlags
<1>2. 0 \in 0..ProbeTTL /\ 0 \in 0..MaxSetupSteps
  BY AdminBounds
<1>3. SetupTyped
  BY <1>2, UnknownCache DEF Setup!SetupInit, SetupTyped, Setup!Page
<1>4. SetupDated
  BY UnknownCache DEF Setup!SetupInit, SetupDated, Dated
<1>5. Setup!SpinnerMeansWork
  BY DEF Setup!SetupInit, Setup!SpinnerMeansWork
<1> QED BY <1>1, <1>3, <1>4, <1>5 DEF SetupIInv

(* A snapshot that tells the pages of no result.                            *)
LEMMA FlushKeeps ==
  ASSUME SetupIInv, Setup!Flush PROVE SetupIInv'
<1>1. SetupFlags /\ SetupTyped /\ SetupDated /\ Setup!SpinnerMeansWork
  BY DEF SetupIInv
<1>2. /\ UNCHANGED <<onPath, keyed, quiet, runs, up, troubled, happened>>
      /\ Setup!Snapshot(probe, checked, pages)
  BY DEF Setup!Flush
<1>3. SetupFlags'
  BY <1>1, <1>2 DEF SetupFlags
<1>4. /\ probe' \in Cache /\ checked' \in Cache
      /\ pages' \in [SetupTab -> Setup!Page]
      /\ Dated(probe', onPath', quiet) /\ Dated(checked', keyed', quiet)
      /\ \A t \in SetupTab : pages'[t].spinning = pages[t].spinning
  BY <1>1, <1>2, <1>3, SnapshotProperties DEF SetupTyped, SetupDated, SetupFlags
<1>5. SetupTyped'
  BY <1>1, <1>2, <1>4 DEF SetupTyped
<1>6. SetupDated'
  BY <1>2, <1>4 DEF SetupDated
<1>7. Setup!SpinnerMeansWork'
  BY <1>1, <1>2, <1>4 DEF Setup!SpinnerMeansWork
<1> QED BY <1>3, <1>5, <1>6, <1>7 DEF SetupIInv

(* An install ends, with a result or without one.                           *)
LEMMA InstallKeeps ==
  ASSUME SetupIInv, Setup!InstallEnds \/ Setup!InstallThrows
  PROVE  /\ SetupIInv'
         /\ Setup!InstallEnds => \A t \in up : pages'[t].installed = onPath'
<1>1. SetupFlags /\ SetupTyped /\ SetupDated /\ Setup!SpinnerMeansWork
  BY DEF SetupIInv
<1>2. CASE Setup!InstallEnds
  <2>1. PICK ok \in BOOLEAN :
          /\ onPath' = (onPath \/ ok)
          /\ quiet' = IF onPath' = onPath THEN quiet ELSE 0
          /\ Setup!Snapshot(Setup!Dropped(probe), checked,
                            [t \in SetupTab |-> Setup!Told(pages[t], ok)])
    BY <1>2 DEF Setup!InstallEnds
  <2> DEFINE before == [t \in SetupTab |-> Setup!Told(pages[t], ok)]
  <2>2. /\ runs > 0 /\ runs' = runs - 1 /\ UNCHANGED <<keyed, up, happened>>
        /\ troubled' = (troubled \/ up # SetupTab)
    BY <1>2 DEF Setup!InstallEnds
  <2>3. before \in [SetupTab -> Setup!Page]
    BY <1>1 DEF SetupTyped, Setup!Page, Setup!Told
  <2>4. \A t \in SetupTab : ~before[t].spinning
    BY <1>1 DEF SetupTyped, Setup!Page, Setup!Told
  <2> HIDE DEF before
  <2>5. SetupFlags'
    BY <1>1, <2>1, <2>2 DEF SetupFlags
  <2>6. quiet' \in 0..ProbeTTL /\ quiet' <= quiet /\ quiet \in 0..ProbeTTL
    BY <1>1, <2>1, AdminBounds DEF SetupTyped
  <2>7. Dated(checked, keyed', quiet')
    <3>1. checked.age \in 0..ProbeTTL
      BY <1>1 DEF SetupTyped, Cache
    <3> QED BY <1>1, <2>2, <2>6, <3>1 DEF SetupDated, Dated
  <2>8. /\ Setup!Dropped(probe) \in Cache /\ ~Setup!Dropped(probe).known
        /\ Dated(Setup!Dropped(probe), onPath', quiet')
    BY UnknownCache DEF Setup!Dropped, Dated
  <2>9. Setup!Snapshot(Setup!Dropped(probe), checked, before)
    BY <2>1 DEF before
  <2>10. /\ probe' \in Cache /\ checked' \in Cache
         /\ pages' \in [SetupTab -> Setup!Page]
         /\ Dated(probe', onPath', quiet') /\ Dated(checked', keyed', quiet')
         /\ probe'.value = onPath'
         /\ \A t \in up : pages'[t].spinning = before[t].spinning
                          /\ pages'[t].installed = probe'.value
    BY <1>1, <2>3, <2>5, <2>6, <2>7, <2>8, <2>9, SnapshotProperties
    DEF SetupTyped, SetupFlags
  <2>11. SetupTyped'
    BY <1>1, <2>2, <2>6, <2>10 DEF SetupTyped
  <2>12. SetupDated'
    BY <2>10 DEF SetupDated
  <2>13. Setup!SpinnerMeansWork'
    BY <2>2, <2>4, <2>10 DEF Setup!SpinnerMeansWork
  <2> QED BY <2>5, <2>10, <2>11, <2>12, <2>13 DEF SetupIInv
<1>3. CASE Setup!InstallThrows
  <2>1. /\ runs > 0 /\ runs' = runs - 1
        /\ UNCHANGED <<onPath, keyed, quiet, up, happened>> /\ troubled' = TRUE
        /\ Setup!Snapshot(Setup!Dropped(probe), checked, pages)
    BY <1>3 DEF Setup!InstallThrows
  <2>2. SetupFlags'
    BY <1>1, <2>1 DEF SetupFlags
  <2>3. /\ Setup!Dropped(probe) \in Cache
        /\ Dated(Setup!Dropped(probe), onPath', quiet)
    BY UnknownCache DEF Setup!Dropped, Dated
  <2>4. /\ probe' \in Cache /\ checked' \in Cache
        /\ pages' \in [SetupTab -> Setup!Page]
        /\ Dated(probe', onPath', quiet) /\ Dated(checked', keyed', quiet)
    BY <1>1, <2>1, <2>2, <2>3, SnapshotProperties DEF SetupTyped, SetupFlags, SetupDated
  <2>5. SetupTyped'
    BY <1>1, <2>1, <2>4 DEF SetupTyped
  <2>6. SetupDated' /\ Setup!SpinnerMeansWork'
    BY <2>1, <2>4 DEF SetupDated, Setup!SpinnerMeansWork
  <2>7. ~Setup!InstallEnds \/ Setup!InstallEnds
    OBVIOUS
  <2> QED BY <1>2, <2>2, <2>5, <2>6 DEF SetupIInv
<1> QED BY <1>2, <1>3

(* A key is saved.                                                          *)
LEMMA SaveKeyKeeps ==
  ASSUME SetupIInv, Setup!SaveKey
  PROVE  SetupIInv' /\ \A t \in up : pages'[t].configured
<1>1. SetupFlags /\ SetupTyped /\ SetupDated /\ Setup!SpinnerMeansWork
  BY DEF SetupIInv
<1>2. /\ happened < MaxSetupSteps /\ happened' = happened + 1
      /\ keyed' = TRUE /\ quiet' = 0 /\ UNCHANGED <<onPath, runs, up, troubled>>
      /\ Setup!Snapshot(probe, Setup!Invalidated(checked), pages)
  BY DEF Setup!SaveKey, Setup!Step
<1>3. SetupFlags'
  BY <1>1, <1>2 DEF SetupFlags
<1>4. /\ Setup!Invalidated(checked) \in Cache /\ ~Setup!Invalidated(checked).known
      /\ Dated(Setup!Invalidated(checked), keyed', quiet')
  BY UnknownCache DEF Setup!Invalidated, Dated
<1>5. quiet' \in 0..ProbeTTL /\ Dated(probe, onPath', quiet')
  <2>1. probe.age \in 0..ProbeTTL
    BY <1>1 DEF SetupTyped, Cache
  <2> QED BY <1>2, <2>1, AdminBounds DEF Dated
<1>6. /\ probe' \in Cache /\ checked' \in Cache
      /\ pages' \in [SetupTab -> Setup!Page]
      /\ Dated(probe', onPath', quiet') /\ Dated(checked', keyed', quiet')
      /\ checked'.value = keyed'
      /\ \A t \in SetupTab :
           /\ t \notin up => pages'[t] = pages[t]
           /\ t \in up => /\ pages'[t].spinning = pages[t].spinning
                          /\ pages'[t].configured = checked'.value
  BY <1>1, <1>2, <1>3, <1>4, <1>5, SnapshotProperties DEF SetupTyped, SetupFlags
<1>7. SetupTyped'
  BY <1>1, <1>2, <1>5, <1>6, AdminBounds DEF SetupTyped
<1>8. SetupDated'
  BY <1>6 DEF SetupDated
<1>9. Setup!SpinnerMeansWork'
  BY <1>1, <1>2, <1>6 DEF Setup!SpinnerMeansWork
<1>10. \A t \in up : pages'[t].configured
  BY <1>1, <1>2, <1>6 DEF SetupTyped
<1> QED BY <1>3, <1>7, <1>8, <1>9, <1>10 DEF SetupIInv

(* Time passes, and things change behind the server's back.                 *)
LEMMA TickKeeps ==
  ASSUME SetupIInv, Setup!Tick \/ Setup!ByHand PROVE SetupIInv'
<1>1. SetupFlags /\ SetupTyped /\ SetupDated /\ Setup!SpinnerMeansWork
  BY DEF SetupIInv
<1>2. \A c \in Cache : c.age \in 0..ProbeTTL
  BY DEF Cache
<1>3. CASE Setup!Tick
  <2>1. /\ probe' = Setup!Later(probe) /\ checked' = Setup!Later(checked)
        /\ quiet' = (IF quiet < ProbeTTL THEN quiet + 1 ELSE quiet)
        /\ UNCHANGED <<onPath, keyed, runs, up, pages, troubled, happened>>
    BY <1>3 DEF Setup!Tick
  <2>2. quiet' \in 0..ProbeTTL
    BY <1>1, <2>1, AdminBounds DEF SetupTyped
  <2>3. ASSUME NEW c \in Cache
        PROVE  /\ Setup!Later(c) \in Cache
               /\ Setup!Later(c).known = c.known /\ Setup!Later(c).value = c.value
               /\ Setup!Later(c).age = (IF c.age < ProbeTTL THEN c.age + 1 ELSE c.age)
    <3> DEFINE a == IF c.age < ProbeTTL THEN c.age + 1 ELSE c.age
    <3>1. a \in 0..ProbeTTL
      BY <1>2, AdminBounds
    <3>2. Setup!Later(c) = [c EXCEPT !.age = a]
      BY DEF Setup!Later
    <3> HIDE DEF a
    <3>3. c = [known |-> c.known, value |-> c.value, age |-> c.age]
          /\ c.known \in BOOLEAN /\ c.value \in BOOLEAN
      BY DEF Cache
    <3>4. Setup!Later(c) = [known |-> c.known, value |-> c.value, age |-> a]
      BY <3>2, <3>3
    <3>5. Setup!Later(c) \in Cache /\ Setup!Later(c).age = a
      BY <3>1, <3>3, <3>4 DEF Cache
    <3> QED BY <3>4, <3>5 DEF a
  <2>4. ASSUME NEW c \in Cache, NEW truth, Dated(c, truth, quiet)
        PROVE  Dated(Setup!Later(c), truth, quiet')
    <3>1. c.age \in 0..ProbeTTL /\ quiet \in 0..ProbeTTL
      BY <1>1, <1>2 DEF SetupTyped
    <3>2. quiet <= c.age => quiet' <= Setup!Later(c).age
      BY <2>1, <2>3, <3>1, AdminBounds
    <3> QED BY <2>3, <2>4, <3>2 DEF Dated
  <2>5. SetupFlags' /\ SetupDated'
    BY <1>1, <2>1, <2>4 DEF SetupFlags, SetupDated, SetupTyped
  <2>6. SetupTyped'
    <3>1. probe' \in Cache /\ checked' \in Cache
      BY <1>1, <2>1, <2>3 DEF SetupTyped
    <3> QED BY <1>1, <2>1, <2>2, <3>1 DEF SetupTyped
  <2> QED BY <1>1, <2>1, <2>5, <2>6 DEF SetupIInv, Setup!SpinnerMeansWork
<1>4. CASE Setup!ByHand
  <2>1. /\ happened < MaxSetupSteps /\ happened' = happened + 1 /\ quiet' = 0
        /\ UNCHANGED <<probe, checked, runs, up, pages, troubled>>
    BY <1>4 DEF Setup!ByHand, Setup!Step
  <2>2. SetupFlags'
    BY <1>1, <1>4 DEF SetupFlags, Setup!ByHand
  <2>3. SetupTyped'
    BY <1>1, <2>1, AdminBounds DEF SetupTyped
  <2>4. SetupDated'
    BY <1>1, <1>2, <2>1 DEF SetupDated, Dated, SetupTyped
  <2> QED BY <1>1, <2>1, <2>2, <2>3, <2>4 DEF SetupIInv, Setup!SpinnerMeansWork
<1> QED BY <1>3, <1>4

(* A press of the install button; a socket goes or comes.                   *)
LEMMA PageKeeps ==
  ASSUME SetupIInv, NEW t \in SetupTab,
         Setup!DoInstall(t) \/ Setup!Lose(t) \/ Setup!Return(t)
  PROVE  SetupIInv'
<1>1. SetupFlags /\ SetupTyped /\ SetupDated /\ Setup!SpinnerMeansWork
  BY DEF SetupIInv
<1>2. CASE Setup!DoInstall(t)
  <2>1. /\ happened < MaxSetupSteps /\ happened' = happened + 1 /\ runs' = runs + 1
        /\ pages' = [pages EXCEPT ![t].spinning = TRUE]
        /\ UNCHANGED <<onPath, keyed, quiet, probe, checked, up, troubled>>
    BY <1>2 DEF Setup!DoInstall, Setup!Step
  <2>2. pages' \in [SetupTab -> Setup!Page]
    BY <1>1, <2>1 DEF SetupTyped, Setup!Page
  <2>3. SetupTyped'
    BY <1>1, <2>1, <2>2, AdminBounds DEF SetupTyped
  <2>4. runs' # 0
    BY <1>1, <2>1 DEF SetupTyped
  <2> QED BY <1>1, <2>1, <2>3, <2>4
          DEF SetupIInv, SetupFlags, SetupDated, Setup!SpinnerMeansWork
<1>3. CASE Setup!Lose(t) \/ Setup!Return(t)
  <2>1. /\ happened' \in 0..MaxSetupSteps /\ happened <= happened'
        /\ happened \in Nat /\ happened' \in Nat
        /\ up' \subseteq SetupTab
        /\ UNCHANGED <<onPath, keyed, quiet, probe, checked, runs, pages, troubled>>
    BY <1>1, <1>3, AdminBounds DEF SetupTyped, Setup!Lose, Setup!Return, Setup!Step
  <2>2. /\ runs' <= happened' /\ quiet' \in 0..ProbeTTL /\ runs' \in Nat
        /\ probe' \in Cache /\ checked' \in Cache /\ pages' \in [SetupTab -> Setup!Page]
    <3>1. runs \in Nat /\ runs <= happened
      BY <1>1 DEF SetupTyped
    <3>2. runs' <= happened'
      BY <2>1, <3>1
    <3> QED BY <1>1, <2>1, <3>2 DEF SetupTyped
  <2>3. SetupTyped'
    BY <2>1, <2>2 DEF SetupTyped
  <2> QED BY <1>1, <2>1, <2>3
          DEF SetupIInv, SetupFlags, SetupDated, Setup!SpinnerMeansWork
<1> QED BY <1>2, <1>3

(* Every step of the set-up keeps the invariant.                            *)
LEMMA SetupStep == SetupIInv /\ [Setup!SetupNext]_setupVars => SetupIInv'
<1>1. SetupIInv /\ UNCHANGED setupVars => SetupIInv'
  BY DEF SetupIInv, SetupFlags, SetupTyped, SetupDated, Setup!SpinnerMeansWork, setupVars
<1> QED BY <1>1, FlushKeeps, InstallKeeps, SaveKeyKeeps, TickKeeps, PageKeeps
        DEF Setup!SetupNext

(* What is refreshed after the caches are old is what is there.             *)
LEMMA FlushTells ==
  ASSUME SetupIInv, Setup!Flush, quiet = ProbeTTL
  PROVE  \A t \in up : pages'[t].installed = onPath /\ pages'[t].configured = keyed
<1>1. SetupFlags /\ SetupTyped /\ SetupDated
  BY DEF SetupIInv
<1>2. UNCHANGED <<onPath, keyed>> /\ Setup!Snapshot(probe, checked, pages)
  BY DEF Setup!Flush
<1>3. onPath' \in BOOLEAN /\ keyed' \in BOOLEAN
  BY <1>1, <1>2 DEF SetupFlags
<1>4. /\ probe'.value = onPath' /\ checked'.value = keyed'
      /\ \A t \in SetupTab : t \in up => /\ pages'[t].installed = probe'.value
                                         /\ pages'[t].configured = checked'.value
  BY <1>1, <1>2, <1>3, SnapshotProperties DEF SetupTyped, SetupDated
<1> QED BY <1>1, <1>2, <1>4 DEF SetupTyped

(* The spinner turns only while something is installed, what the visitor    *)
(* just did shows at once, and what was done elsewhere once the caches are  *)
(* old, however long the caches last.                                       *)
THEOREM SetupIsTold == Spec => SetupTells
<1>1. Init => SetupIInv
  BY SetupInitially DEF Init
<1>2. [Next]_vars => [Setup!SetupNext]_setupVars
  BY DEF Next, Rest, vars, setupVars
<1>3. SetupIInv /\ [Next]_vars => SetupIInv'
  BY <1>2, SetupStep
<1>4. SetupIInv => Setup!SetupTypeOK /\ Setup!SpinnerMeansWork
  <2>1. SetupFlags => onPath \in BOOLEAN /\ keyed \in BOOLEAN
    BY DEF SetupFlags
  <2>2. SetupTyped => /\ quiet \in 0..ProbeTTL /\ runs \in 0..MaxSetupSteps
                      /\ up \subseteq SetupTab /\ pages \in [SetupTab -> Setup!Page]
    BY AdminBounds DEF SetupTyped
  <2> QED BY <2>1, <2>2 DEF SetupIInv, Setup!SetupTypeOK
<1>5. SetupIInv /\ [Next]_vars =>
        [/\ Setup!InstallEnds => \A t \in up : pages'[t].installed = onPath'
         /\ Setup!SaveKey => \A t \in up : pages'[t].configured]_Setup!setupVars
  BY InstallKeeps, SaveKeyKeeps
<1>6. SetupIInv /\ [Next]_vars =>
        [Setup!Flush /\ quiet = ProbeTTL =>
           \A t \in up : pages'[t].installed = onPath
                         /\ pages'[t].configured = keyed]_Setup!setupVars
  BY FlushTells
<1> QED
  BY <1>1, <1>3, <1>4, <1>5, <1>6, PTL
  DEF Spec, SetupTells, Setup!TellsAtOnce, Setup!TellsInTime

-----------------------------------------------------------------------------
(* Worktrees                                                                *)

(* Types, and the inductive invariant: a removal that is under way has      *)
(* found no uncommitted work and closed no chat that ran.                   *)
WtFlags ==
  /\ present \in BOOLEAN /\ locked \in BOOLEAN /\ dirty \in BOOLEAN
  /\ sawBranch \in BOOLEAN /\ lostWork \in BOOLEAN /\ closedDirty \in BOOLEAN
  /\ killedAsked \in BOOLEAN /\ killedLate \in BOOLEAN /\ closedRefused \in BOOLEAN

WtChats ==
  /\ activeIn \in openChats /\ running \subseteq openChats /\ openChats \subseteq WtChat
  /\ place \in [WtChat -> {"main", "wt"}]

WtRemoving ==
  /\ adding \in {"none", "listed", "created"}
  /\ removing \in [phase : {"none", "moving", "checking", "checked", "closed"},
                   chats : SUBSET WtChat, force : BOOLEAN, clean : BOOLEAN,
                   ran : SUBSET WtChat]

WtCounts == adds \in 0..MaxAdds /\ removals \in 0..MaxRemovals

(* A removal begins only when no chat in the worktree runs.                 *)
WtSafe == removing.ran = {} /\ ~lostWork /\ ~closedDirty /\ ~killedAsked

WtIInv == WtFlags /\ WtChats /\ WtRemoving /\ WtCounts /\ WtSafe

(* One checkout, no removal.                                                *)
LEMMA WtInitially == Wt!WtInit => WtIInv
<1> SUFFICES ASSUME Wt!WtInit PROVE WtIInv
  OBVIOUS
<1>1. WtFlags /\ WtSafe
  BY DEF Wt!WtInit, WtFlags, WtSafe, Wt!NoRemoval
<1>2. WtChats
  BY AdminBounds DEF Wt!WtInit, WtChats
<1>3. WtRemoving
  BY DEF Wt!WtInit, WtRemoving, Wt!NoRemoval
<1>4. WtCounts
  BY AdminBounds DEF Wt!WtInit, WtCounts
<1> QED BY <1>1, <1>2, <1>3, <1>4 DEF WtIInv

(* A chat opened, or one chosen, leaves the others that run.                *)
LEMMA WtChatsStep ==
  ASSUME WtChats, NEW c \in WtChat, NEW where \in {"main", "wt"},
         Wt!OpenIn(c, where) \/ Wt!SwitchTo(c)
  PROVE  WtChats'
<1>1. /\ UNCHANGED running /\ activeIn' = c
      /\ \/ openChats' = Wt!Left(c) \cup {c}
         \/ c \in openChats /\ (openChats' = Wt!Left(c) \/ openChats' = openChats)
  BY DEF Wt!OpenIn, Wt!SwitchTo
<1>2. place' \in [WtChat -> {"main", "wt"}]
  BY DEF WtChats, Wt!OpenIn, Wt!SwitchTo
<1>3. running \subseteq Wt!Left(c) /\ Wt!Left(c) \subseteq openChats
      /\ (c \in openChats => c \in Wt!Left(c))
  BY DEF WtChats, Wt!Left
<1> QED BY <1>1, <1>2, <1>3 DEF WtChats

(* Every step of the worktrees keeps the invariant.                         *)
LEMMA WtStep == WtIInv /\ [Wt!WtNext]_wtVars => WtIInv'
<1> SUFFICES ASSUME WtIInv, [Wt!WtNext]_wtVars PROVE WtIInv'
  OBVIOUS
<1>1. WtFlags /\ WtChats /\ WtRemoving /\ WtCounts /\ WtSafe
  BY DEF WtIInv
<1>2. ASSUME NEW c \in WtChat, Wt!UserOpens(c) \/ Wt!UserSwitches(c) PROVE WtIInv'
  <2>1. WtChats'
    BY <1>1, <1>2, WtChatsStep DEF Wt!UserOpens, Wt!UserSwitches
  <2>2. UNCHANGED <<present, locked, dirty, adding, sawBranch, removing, adds, removals,
                    lostWork, closedDirty, killedAsked, killedLate, closedRefused>>
    BY <1>2 DEF Wt!UserOpens, Wt!UserSwitches, Wt!ghosts
  <2> QED BY <1>1, <2>1, <2>2 DEF WtIInv, WtFlags, WtRemoving, WtCounts, WtSafe
<1>3. ASSUME Wt!UserPrompts \/ (\E c \in WtChat : Wt!RunOver(c)) PROVE WtIInv'
  <2>1. /\ running' \subseteq openChats
        /\ UNCHANGED <<present, locked, dirty, openChats, place, activeIn, adding,
                       sawBranch, removing, adds, removals, lostWork, closedDirty,
                       killedAsked, killedLate, closedRefused>>
    BY <1>1, <1>3 DEF Wt!UserPrompts, Wt!RunOver, Wt!ghosts, WtChats
  <2> QED BY <1>1, <2>1 DEF WtIInv, WtFlags, WtChats, WtRemoving, WtCounts, WtSafe
<1>4. ASSUME Wt!Edit PROVE WtIInv'
  <2>1. UNCHANGED <<present, openChats, place, running, activeIn, adding, sawBranch,
                    removing, adds, removals, lostWork, closedDirty, killedAsked,
                    killedLate, closedRefused>>
    BY <1>4 DEF Wt!Edit, Wt!wtChats, Wt!ghosts
  <2>2. WtFlags'
    BY <1>1, <1>4, <2>1 DEF Wt!Edit, WtFlags
  <2> QED BY <1>1, <2>1, <2>2 DEF WtIInv, WtChats, WtRemoving, WtCounts, WtSafe
<1>5. ASSUME Wt!Add \/ Wt!GitAdds PROVE WtIInv'
  <2>1. UNCHANGED <<openChats, place, running, activeIn, removing, removals, lostWork,
                    closedDirty, killedAsked, killedLate, closedRefused>>
    BY <1>5 DEF Wt!Add, Wt!GitAdds, Wt!wtChats, Wt!ghosts
  <2>2. WtFlags'
    BY <1>1, <1>5, <2>1 DEF Wt!Add, Wt!GitAdds, WtFlags
  <2>3. adding' \in {"none", "listed", "created"}
    BY <1>5 DEF Wt!Add, Wt!GitAdds
  <2>4. adds' \in 0..MaxAdds
    BY <1>1, <1>5, AdminBounds DEF Wt!Add, Wt!GitAdds, WtCounts
  <2> QED BY <1>1, <2>1, <2>2, <2>3, <2>4
          DEF WtIInv, WtChats, WtRemoving, WtCounts, WtSafe
<1>6. ASSUME Wt!AddOpens PROVE WtIInv'
  <2>1. UNCHANGED <<present, locked, dirty, sawBranch, removing, adds, removals, lostWork,
                    closedDirty, killedAsked, killedLate, closedRefused>>
        /\ adding' = "none"
    BY <1>6 DEF Wt!AddOpens, Wt!ghosts
  <2>2. WtChats'
    <3>1. CASE \E c \in WtChat : Wt!OpenIn(c, "wt")
      BY <1>1, <3>1, WtChatsStep
    <3>2. CASE UNCHANGED Wt!wtChats
      BY <1>1, <3>2 DEF Wt!wtChats, WtChats
    <3> QED BY <1>6, <3>1, <3>2 DEF Wt!AddOpens
  <2> QED BY <1>1, <2>1, <2>2 DEF WtIInv, WtFlags, WtRemoving, WtCounts, WtSafe
<1>7. ASSUME NEW force \in BOOLEAN, Wt!Remove(force) PROVE WtIInv'
  <2>1. UNCHANGED <<present, locked, dirty, openChats, place, running, activeIn, adding,
                    sawBranch, adds, lostWork, closedDirty, killedAsked, killedLate,
                    closedRefused>>
    BY <1>7 DEF Wt!Remove, Wt!wtChats, Wt!ghosts
  <2>2. removals' \in 0..MaxRemovals
    BY <1>1, <1>7, AdminBounds DEF Wt!Remove, WtCounts
  <2>3. Wt!InTarget \in SUBSET WtChat
    BY <1>1 DEF Wt!InTarget, WtChats
  <2>4. /\ WtRemoving' /\ removing'.ran = {}
    <3>1. CASE Wt!RunsInTarget
      <4>1. removing' = removing
        BY <1>7, <3>1 DEF Wt!Remove
      <4> QED BY <1>1, <2>1, <4>1 DEF WtRemoving, WtSafe
    <3>2. CASE ~Wt!RunsInTarget
      <4>1. Wt!InTarget \cap running = {}
        BY <3>2 DEF Wt!RunsInTarget
      <4>2. removing' = [phase |-> IF activeIn \in Wt!InTarget THEN "moving" ELSE "checking",
                         chats |-> Wt!InTarget, force |-> force, clean |-> FALSE,
                         ran |-> {}]
        BY <1>7, <3>2, <4>1 DEF Wt!Remove
      <4> QED BY <1>1, <2>1, <2>3, <4>2 DEF WtRemoving
    <3> QED BY <3>1, <3>2
  <2> QED BY <1>1, <2>1, <2>2, <2>4 DEF WtIInv, WtFlags, WtChats, WtCounts, WtSafe
<1>8. ASSUME Wt!MovesOut PROVE WtIInv'
  <2>1. UNCHANGED <<present, locked, dirty, adding, sawBranch, adds, removals, lostWork,
                    closedDirty, killedAsked, killedLate, closedRefused>>
    BY <1>8 DEF Wt!MovesOut, Wt!ghosts
  <2>2. WtChats'
    <3>1. CASE \E c \in openChats : place[c] # "wt" /\ Wt!SwitchTo(c)
      BY <1>1, <3>1, WtChatsStep DEF WtChats
    <3>2. CASE \E c \in WtChat : Wt!OpenIn(c, "main")
      BY <1>1, <3>2, WtChatsStep
    <3>3. CASE UNCHANGED Wt!wtChats
      BY <1>1, <3>3 DEF Wt!wtChats, WtChats
    <3> QED BY <1>8, <3>1, <3>2, <3>3 DEF Wt!MovesOut
  <2>3. removing' = Wt!NoRemoval \/ removing' = [removing EXCEPT !.phase = "checking"]
    BY <1>8 DEF Wt!MovesOut
  <2>4. WtRemoving' /\ removing'.ran = {}
    <3>1. CASE removing' = Wt!NoRemoval
      BY <1>1, <2>1, <3>1 DEF WtRemoving, Wt!NoRemoval
    <3>2. CASE removing' = [removing EXCEPT !.phase = "checking"]
      BY <1>1, <2>1, <3>2 DEF WtRemoving, WtSafe
    <3> QED BY <2>3, <3>1, <3>2
  <2> QED BY <1>1, <2>1, <2>2, <2>4 DEF WtIInv, WtFlags, WtCounts, WtSafe
<1>9. ASSUME Wt!DirtyCheck PROVE WtIInv'
  <2>1. UNCHANGED <<present, locked, dirty, openChats, place, running, activeIn, adding,
                    sawBranch, adds, removals, lostWork, closedDirty, killedAsked,
                    killedLate, closedRefused>>
    BY <1>9 DEF Wt!DirtyCheck, Wt!wtChats, Wt!ghosts
  <2>2. (removing.force \/ ~dirty) \in BOOLEAN
    OBVIOUS
  <2>3. WtRemoving' /\ removing'.ran = {}
    BY <1>1, <1>9, <2>1, <2>2 DEF Wt!DirtyCheck, WtRemoving, WtSafe
  <2> QED BY <1>1, <2>1, <2>3 DEF WtIInv, WtFlags, WtChats, WtCounts, WtSafe
<1>10. ASSUME Wt!CloseChats PROVE WtIInv'
  <2> DEFINE away == Wt!ToClose \cap openChats
  <2>1. /\ UNCHANGED <<present, locked, dirty, place, activeIn, adding, sawBranch, adds,
                       removals, lostWork, closedRefused>>
        /\ openChats' = openChats \ away /\ running' = running \ away
        /\ closedDirty' = (closedDirty \/ (~removing.clean /\ away # {}))
        /\ killedAsked' = (killedAsked \/ away \cap running \cap removing.ran # {})
        /\ killedLate' = (killedLate \/ (away \cap running) \ removing.ran # {})
        /\ removing' = IF removing.clean
                       THEN [removing EXCEPT !.phase = "closed", !.chats = away]
                       ELSE Wt!NoRemoval
    BY <1>10 DEF Wt!CloseChats
  <2>2. /\ activeIn \notin away /\ away \in SUBSET WtChat
        /\ ~removing.clean => away = {}
    BY <1>1 DEF Wt!ToClose, WtChats
  <2> HIDE DEF away
  <2>3. WtFlags'
    BY <1>1, <2>1 DEF WtFlags
  <2>4. WtChats'
    BY <1>1, <2>1, <2>2 DEF WtChats
  <2>5. ~closedDirty' /\ ~killedAsked' /\ ~lostWork'
    BY <1>1, <2>1, <2>2 DEF WtSafe
  <2>6. WtRemoving' /\ removing'.ran = {}
    BY <1>1, <2>1, <2>2 DEF WtRemoving, WtSafe, Wt!NoRemoval
  <2> QED BY <1>1, <2>1, <2>3, <2>4, <2>5, <2>6 DEF WtIInv, WtCounts, WtSafe
<1>11. ASSUME Wt!GitRemoves PROVE WtIInv'
  <2> DEFINE refused == ~present \/ locked \/ (dirty /\ ~removing.force)
  <2>1. /\ UNCHANGED <<locked, openChats, place, running, activeIn, adding, sawBranch,
                       adds, removals, closedDirty, killedAsked, killedLate>>
        /\ removing' = Wt!NoRemoval
        /\ IF refused THEN UNCHANGED <<present, dirty>>
           ELSE present' = FALSE /\ dirty' = FALSE
        /\ lostWork' = (lostWork \/ (~refused /\ dirty /\ ~removing.force))
        /\ closedRefused' = (closedRefused \/ (refused /\ removing.chats # {}))
    BY <1>11 DEF Wt!GitRemoves, Wt!wtChats, Wt!Forces
  <2>2. WtFlags'
    BY <1>1, <2>1 DEF WtFlags
  <2>3. ~lostWork'
    BY <1>1, <2>1 DEF WtSafe
  <2>4. WtRemoving' /\ removing'.ran = {}
    BY <1>1, <2>1 DEF WtRemoving, Wt!NoRemoval
  <2> QED BY <1>1, <2>1, <2>2, <2>3, <2>4 DEF WtIInv, WtChats, WtCounts, WtSafe
<1>12. CASE UNCHANGED wtVars
  BY <1>1, <1>12 DEF wtVars, WtIInv, WtFlags, WtChats, WtRemoving, WtCounts, WtSafe
<1> QED
  BY <1>2, <1>3, <1>4, <1>5, <1>6, <1>7, <1>8, <1>9, <1>10, <1>11, <1>12 DEF Wt!WtNext

(* Uncommitted work stays, a removal that finds changes closes no chat, and *)
(* no run that was on is cut, for any number of chats, adds and removals.   *)
THEOREM WorktreesAreSafe == Spec => []WorktreesSafe
<1>1. Init => WtIInv
  BY WtInitially DEF Init
<1>2. [Next]_vars => [Wt!WtNext]_wtVars
  BY DEF Next, Rest, vars, wtVars
<1>3. WtIInv /\ [Next]_vars => WtIInv'
  BY <1>2, WtStep
<1>4. WtIInv => WorktreesSafe
  <2>1. WtFlags => {present, locked, dirty, sawBranch, lostWork, closedDirty, killedAsked,
                    killedLate, closedRefused} \subseteq BOOLEAN
    BY Zenon DEF WtFlags
  <2>2. WtIInv => Wt!WtTypeOK
    BY <2>1, Zenon DEF WtIInv, WtChats, WtRemoving, WtCounts, Wt!WtTypeOK
  <2> QED
    BY <2>2 DEF WtIInv, WtSafe, WorktreesSafe, Wt!WorkKept, Wt!CheckedBeforeClosed,
                Wt!AskedRunsStay
<1> QED BY <1>1, <1>3, <1>4, PTL DEF Spec

-----------------------------------------------------------------------------
(* SessionHistory                                                           *)

(* Types: a transcript is on the disk or was deleted.                       *)
HistScan == [busy : BOOLEAN, done : BOOLEAN, infos : SUBSET Transcript]

HistDisk ==
  /\ onDisk \subseteq Transcript /\ deleted \subseteq Transcript /\ late \subseteq Transcript
  /\ onDisk \cap deleted = {}

HistChats ==
  /\ held \in [Transcript -> {"no", "active", "background"}]
  /\ streamingIn \subseteq {f \in Transcript : held[f] # "no"}
  /\ openings \subseteq Transcript
  /\ \A f, g \in Transcript : held[f] = "active" /\ held[g] = "active" => f = g

HistDeletion ==
  deletion \in [file : Transcript \cup {Hist!NoFile}, target : Transcript \cup {Hist!NoFile},
                phase : {"none", "listing", "moving"}]

HistLists ==
  /\ scans \in [1..MaxScans -> HistScan]
  /\ listCache \in [valid : BOOLEAN, infos : SUBSET Transcript]
  /\ shownList \subseteq Transcript /\ crossedScan \in BOOLEAN

HistNames ==
  /\ named \in [Transcript -> 0..1] /\ titled \in [Transcript -> 0..1]
  /\ renames \in 0..MaxRenames

(* A transcript that a chat holds, or that is being opened, is there, and   *)
(* has the title as its name, if nothing came between.                      *)
Taken(f) == held[f] # "no" \/ f \in openings
TakenThere ==
  \A f \in Transcript : Taken(f) =>
    /\ f \in onDisk \cup late
    /\ f \in onDisk \ late => titled[f] = named[f]

(* Without a scan in flight at a deletion, what a scan found, what is       *)
(* cached and, when no scan is in flight, what is shown is not deleted.     *)
ListsFresh ==
  ~crossedScan =>
    /\ \A i \in 1..MaxScans : scans[i].busy /\ scans[i].done
                                => scans[i].infos \cap deleted = {}
    /\ listCache.valid => listCache.infos \cap deleted = {}
    /\ (\A i \in 1..MaxScans : ~scans[i].busy) => shownList \cap deleted = {}

(* The inductive invariant.                                                 *)
HistIInv ==
  /\ HistDisk /\ HistChats /\ HistDeletion /\ HistLists /\ HistNames
  /\ TakenThere /\ ListsFresh

(* Some transcripts on the disk, none of them open.                         *)
LEMMA HistInitially == Hist!HistInit => HistIInv
<1> SUFFICES ASSUME Hist!HistInit PROVE HistIInv
  OBVIOUS
<1>1. HistDisk
  BY DEF Hist!HistInit, HistDisk
<1>2. HistChats
  BY DEF Hist!HistInit, HistChats
<1>3. HistDeletion
  BY DEF Hist!HistInit, HistDeletion, Hist!NoDeletion
<1>4. HistLists
  BY DEF Hist!HistInit, HistLists, HistScan, Hist!NoScan
<1>5. HistNames
  BY AdminBounds DEF Hist!HistInit, HistNames
<1>6. TakenThere
  BY DEF Hist!HistInit, TakenThere, Taken
<1>7. ListsFresh
  BY DEF Hist!HistInit, ListsFresh, Hist!NoScan
<1> QED BY <1>1, <1>2, <1>3, <1>4, <1>5, <1>6, <1>7 DEF HistIInv

(* The active chat goes to the background, or is dropped.                   *)
LEMMA DisplacedProperties ==
  ASSUME HistChats
  PROVE  /\ Hist!Displaced \in [Transcript -> {"no", "active", "background"}]
         /\ \A f \in Transcript :
              /\ Hist!Displaced[f] # "active"
              /\ Hist!Displaced[f] # "no" => held[f] # "no"
              /\ f \in streamingIn => Hist!Displaced[f] # "no"
BY DEF HistChats, Hist!Displaced

(* One chat is active at a time, and what was active and runs stays open.   *)
LEMMA ShownProperties ==
  ASSUME HistChats, NEW f \in Transcript,
         NEW g \in {Hist!Displaced, [Hist!Displaced EXCEPT ![f] = "active"]}
  PROVE  /\ g \in [Transcript -> {"no", "active", "background"}]
         /\ streamingIn \subseteq {h \in Transcript : g[h] # "no"}
         /\ \A x, y \in Transcript : g[x] = "active" /\ g[y] = "active" => x = y
         /\ \A x \in Transcript : g[x] # "no" => held[x] # "no" \/ x = f
<1>1. /\ Hist!Displaced \in [Transcript -> {"no", "active", "background"}]
      /\ \A x \in Transcript :
           /\ Hist!Displaced[x] # "active"
           /\ Hist!Displaced[x] # "no" => held[x] # "no"
           /\ x \in streamingIn => Hist!Displaced[x] # "no"
  BY DisplacedProperties
<1> QED BY <1>1 DEF HistChats

(* Another transcript is shown by its chat, or begins to be opened.         *)
LEMMA SwitchProperties ==
  ASSUME HistDisk, HistChats, HistNames, TakenThere, NEW f \in onDisk,
         Hist!SwitchSession(f),
         UNCHANGED <<onDisk, deleted, late, streamingIn, named, renames>>
  PROVE  HistDisk' /\ HistChats' /\ HistNames' /\ TakenThere'
<1>1. HistDisk'
  BY DEF HistDisk
<1>2. f \in Transcript
  BY DEF HistDisk
<1>3. CASE held[f] # "no"
  <2>1. /\ held' = [Hist!Displaced EXCEPT ![f] = "active"]
        /\ UNCHANGED <<openings, titled>>
    BY <1>3 DEF Hist!SwitchSession
  <2>2. HistChats'
    BY <1>2, <2>1, ShownProperties DEF HistChats
  <2>3. \A x \in Transcript : Taken(x)' => Taken(x)
    BY <1>2, <1>3, <2>1, ShownProperties DEF Taken
  <2> QED BY <1>1, <2>1, <2>2, <2>3 DEF HistNames, TakenThere
<1>4. CASE held[f] = "no"
  <2>1. /\ openings' = openings \cup {f} /\ UNCHANGED held
        /\ titled' = [titled EXCEPT ![f] = named[f]]
    BY <1>4 DEF Hist!SwitchSession
  <2>2. HistChats' /\ HistNames'
    BY <1>2, <2>1 DEF HistChats, HistNames
  <2>3. TakenThere'
    BY <1>2, <2>1 DEF TakenThere, Taken, HistNames
  <2> QED BY <1>1, <2>2, <2>3
<1> QED BY <1>3, <1>4

(* What the user does with chats, and the answer of a runtime.              *)
LEMMA ChatsKeep ==
  ASSUME HistIInv,
         \/ \E f \in Transcript : \/ Hist!OpenSession(f) \/ Hist!Opened(f)
                                  \/ Hist!OpenFails(f) \/ Hist!RunEnds(f)
         \/ Hist!NewChat \/ Hist!Prompt \/ Hist!DeleteMoves
  PROVE  HistIInv'
<1>1. /\ HistDisk /\ HistChats /\ HistDeletion /\ HistLists /\ HistNames
      /\ TakenThere /\ ListsFresh
  BY DEF HistIInv
<1>2. UNCHANGED <<onDisk, scans, listCache, shownList, named, renames, deleted,
                  crossedScan, late>>
  BY DEF Hist!OpenSession, Hist!Opened, Hist!OpenFails, Hist!RunEnds, Hist!NewChat,
         Hist!Prompt, Hist!DeleteMoves, Hist!listVars, Hist!nameVars
<1>3. HistLists' /\ ListsFresh' /\ HistDisk'
  BY <1>1, <1>2 DEF HistLists, ListsFresh, HistDisk
<1>4. ASSUME NEW f \in Transcript, Hist!OpenSession(f) PROVE HistIInv'
  <2>1. UNCHANGED <<streamingIn, deletion>> /\ f \in onDisk /\ Hist!SwitchSession(f)
    BY <1>4 DEF Hist!OpenSession
  <2>2. HistChats' /\ HistNames' /\ TakenThere'
    BY <1>1, <1>2, <2>1, SwitchProperties
  <2> QED BY <1>1, <1>3, <2>1, <2>2 DEF HistIInv, HistDeletion
<1>5. ASSUME NEW f \in Transcript, Hist!Opened(f) PROVE HistIInv'
  <2>1. /\ UNCHANGED <<streamingIn, deletion, titled>> /\ f \in openings
        /\ openings' = openings \ {f}
        /\ held' = [Hist!Displaced EXCEPT ![f] = "active"]
    BY <1>5 DEF Hist!Opened, Hist!nameVars
  <2>2. HistChats'
    BY <1>1, <2>1, ShownProperties DEF HistChats
  <2>3. \A x \in Transcript : Taken(x)' => Taken(x)
    BY <1>1, <2>1, ShownProperties DEF Taken
  <2>4. HistNames' /\ TakenThere' /\ HistDeletion'
    BY <1>1, <1>2, <2>1, <2>3 DEF HistNames, TakenThere, HistDeletion
  <2> QED BY <1>3, <2>2, <2>4 DEF HistIInv
<1>6. ASSUME NEW f \in Transcript, Hist!OpenFails(f) \/ Hist!RunEnds(f) PROVE HistIInv'
  <2>1. /\ UNCHANGED <<held, deletion, titled>> /\ openings' \subseteq openings
        /\ streamingIn' \subseteq streamingIn
    BY <1>6 DEF Hist!OpenFails, Hist!RunEnds, Hist!nameVars
  <2>2. HistChats' /\ HistNames' /\ TakenThere' /\ HistDeletion'
    BY <1>1, <1>2, <2>1 DEF HistChats, HistNames, TakenThere, Taken, HistDeletion
  <2> QED BY <1>3, <2>2 DEF HistIInv
<1>7. ASSUME Hist!Prompt PROVE HistIInv'
  <2>1. /\ UNCHANGED <<held, deletion, titled, openings>>
        /\ \E f \in Transcript : held[f] = "active" /\ streamingIn' = streamingIn \cup {f}
    BY <1>7 DEF Hist!Prompt, Hist!nameVars
  <2>2. HistChats' /\ HistNames' /\ TakenThere' /\ HistDeletion'
    BY <1>1, <1>2, <2>1 DEF HistChats, HistNames, TakenThere, Taken, HistDeletion
  <2> QED BY <1>3, <2>2 DEF HistIInv
<1>8. ASSUME held' = Hist!Displaced, UNCHANGED <<openings, titled, streamingIn>>
      PROVE  HistChats' /\ HistNames' /\ TakenThere'
  <2>1. HistChats'
    BY <1>1, <1>8, DisplacedProperties DEF HistChats
  <2>2. \A x \in Transcript : Taken(x)' => Taken(x)
    BY <1>1, <1>8, DisplacedProperties DEF Taken
  <2> QED BY <1>1, <1>2, <1>8, <2>1, <2>2 DEF HistNames, TakenThere
<1>9. ASSUME Hist!NewChat PROVE HistIInv'
  <2>1. HistChats' /\ HistNames' /\ TakenThere' /\ UNCHANGED deletion
    BY <1>8, <1>9 DEF Hist!NewChat, Hist!nameVars
  <2> QED BY <1>1, <1>3, <2>1 DEF HistIInv, HistDeletion
<1>10. ASSUME Hist!DeleteMoves PROVE HistIInv'
  <2>1. CASE /\ held' = Hist!Displaced /\ UNCHANGED <<openings, titled>>
             /\ deletion' = [deletion EXCEPT !.phase = "moving"]
    <3>1. HistChats' /\ HistNames' /\ TakenThere'
      BY <1>8, <1>10, <2>1 DEF Hist!DeleteMoves
    <3>2. HistDeletion'
      BY <1>1, <2>1 DEF HistDeletion
    <3> QED BY <1>3, <3>1, <3>2 DEF HistIInv
  <2>2. ASSUME NEW g \in onDisk, Hist!SwitchSession(g),
               deletion' = [deletion EXCEPT !.phase = "moving", !.target = g]
        PROVE  HistIInv'
    <3>1. HistChats' /\ HistNames' /\ TakenThere'
      BY <1>1, <1>2, <1>10, <2>2, SwitchProperties DEF Hist!DeleteMoves
    <3>2. HistDeletion'
      BY <1>1, <2>2 DEF HistDeletion, HistDisk
    <3> QED BY <1>3, <3>1, <3>2 DEF HistIInv
  <2> QED BY <1>10, <2>1, <2>2 DEF Hist!DeleteMoves
<1> QED BY <1>4, <1>5, <1>6, <1>7, <1>9, <1>10

(* A scan that begins is in flight and has found nothing.                   *)
LEMMA BegunProperties ==
  ASSUME HistLists, Hist!Free # {}
  PROVE  /\ Hist!Begun \in [1..MaxScans -> HistScan]
         /\ \E i \in 1..MaxScans :
              /\ Hist!Begun[i].busy /\ ~Hist!Begun[i].done
              /\ \A j \in 1..MaxScans : j # i => Hist!Begun[j] = scans[j]
<1> DEFINE i == CHOOSE j \in Hist!Free : TRUE
           new == [Hist!NoScan EXCEPT !.busy = TRUE]
<1>1. i \in Hist!Free
  OBVIOUS
<1>2. i \in 1..MaxScans
  BY <1>1 DEF Hist!Free
<1>3. new \in HistScan /\ new.busy /\ ~new.done
  BY DEF Hist!NoScan, HistScan
<1>4. Hist!Begun = [scans EXCEPT ![i] = new]
  BY DEF Hist!Begun
<1> HIDE DEF i, new
<1> QED BY <1>2, <1>3, <1>4 DEF HistLists

(* What is not a list stays.                                                *)
Aside ==
  UNCHANGED <<onDisk, held, streamingIn, openings, deletion, named, titled, renames,
              deleted, late>>

(* A step of the lists alone.                                               *)
LEMMA AsideKeeps ==
  ASSUME HistIInv, Aside, HistLists', ListsFresh' PROVE HistIInv'
BY DEF HistIInv, Aside, HistDisk, HistChats, HistDeletion, HistNames, TakenThere, Taken

(* The lists are read and shown.                                            *)
LEMMA ListsKeep ==
  ASSUME HistIInv,
         \/ Hist!PushSessions \/ Hist!CacheExpires
         \/ \E i \in 1..MaxScans : Hist!ScanReads(i) \/ Hist!ScanEnds(i)
  PROVE  HistIInv'
<1>1. HistLists /\ ListsFresh /\ HistDisk
  BY DEF HistIInv
<1>2. Aside /\ UNCHANGED crossedScan
  BY DEF Aside, Hist!PushSessions, Hist!CacheExpires, Hist!ScanReads, Hist!ScanEnds,
         Hist!chatVars, Hist!nameVars
<1>3. deleted' = deleted /\ crossedScan' = crossedScan
  BY <1>2 DEF Aside
<1>4. CASE Hist!PushSessions
  <2>1. CASE listCache.valid
    <3>1. shownList' = listCache.infos /\ UNCHANGED <<scans, listCache>>
      BY <1>4, <2>1 DEF Hist!PushSessions
    <3>2. HistLists' /\ ListsFresh'
      BY <1>1, <1>3, <2>1, <3>1 DEF HistLists, ListsFresh
    <3> QED BY <1>2, <3>2, AsideKeeps
  <2>2. CASE ~listCache.valid
    <3>1. Hist!Free # {} /\ scans' = Hist!Begun /\ UNCHANGED <<shownList, listCache>>
      BY <1>4, <2>2 DEF Hist!PushSessions
    <3>2. HistLists'
      BY <1>1, <1>3, <3>1, BegunProperties DEF HistLists
    <3>3. ListsFresh'
      BY <1>1, <1>3, <3>1, BegunProperties DEF ListsFresh
    <3> QED BY <1>2, <3>2, <3>3, AsideKeeps
  <2> QED BY <2>1, <2>2
<1>5. CASE Hist!CacheExpires
  <2>1. /\ listCache' = [listCache EXCEPT !.valid = FALSE]
        /\ UNCHANGED <<scans, shownList>>
    BY <1>5 DEF Hist!CacheExpires
  <2>2. HistLists' /\ ~listCache'.valid
    BY <1>1, <1>3, <2>1 DEF HistLists
  <2>3. ListsFresh'
    BY <1>1, <1>3, <2>1, <2>2 DEF ListsFresh
  <2> QED BY <1>2, <2>2, <2>3, AsideKeeps
<1>6. ASSUME NEW i \in 1..MaxScans, Hist!ScanReads(i) PROVE HistIInv'
  <2>1. /\ scans' = [scans EXCEPT ![i].done = TRUE, ![i].infos = onDisk]
        /\ UNCHANGED <<listCache, shownList>> /\ scans[i].busy
    BY <1>6 DEF Hist!ScanReads
  <2>2. onDisk \in SUBSET Transcript /\ onDisk \cap deleted = {}
    BY <1>1 DEF HistDisk
  <2>3. /\ scans' \in [1..MaxScans -> HistScan]
        /\ scans'[i].infos = onDisk /\ scans'[i].busy = scans[i].busy
        /\ \A j \in 1..MaxScans : j # i => scans'[j] = scans[j]
    BY <1>1, <2>1, <2>2 DEF HistLists, HistScan
  <2>4. HistLists'
    BY <1>1, <1>3, <2>1, <2>3 DEF HistLists
  <2>5. ListsFresh'
    BY <1>1, <1>3, <2>1, <2>2, <2>3 DEF ListsFresh
  <2> QED BY <1>2, <2>4, <2>5, AsideKeeps
<1>7. ASSUME NEW i \in 1..MaxScans, Hist!ScanEnds(i) PROVE HistIInv'
  <2>1. /\ listCache' = [valid |-> TRUE, infos |-> scans[i].infos]
        /\ shownList' = scans[i].infos /\ scans[i].busy /\ scans[i].done
        /\ scans' = [scans EXCEPT ![i] = Hist!NoScan]
    BY <1>7 DEF Hist!ScanEnds
  <2>2. scans[i].infos \in SUBSET Transcript
    BY <1>1 DEF HistLists, HistScan
  <2>3. Hist!NoScan \in HistScan /\ ~Hist!NoScan.busy
    BY DEF Hist!NoScan, HistScan
  <2>4. HistLists'
    BY <1>1, <1>3, <2>1, <2>2, <2>3 DEF HistLists
  <2>5. \A j \in 1..MaxScans : j # i => scans'[j] = scans[j]
    BY <1>1, <2>1 DEF HistLists
  <2>6. ListsFresh'
    BY <1>1, <1>3, <2>1, <2>3, <2>5 DEF ListsFresh, HistLists
  <2> QED BY <1>2, <2>4, <2>6, AsideKeeps
<1> QED BY <1>4, <1>5, <1>6, <1>7

(* A transcript that no chat holds is removed: nothing is cached, and       *)
(* another scan begins.                                                     *)
LEMMA UnlinkProperties ==
  ASSUME HistIInv, NEW f \in onDisk, held[f] = "no", Hist!Unlink(f),
         UNCHANGED <<held, streamingIn, openings, named, titled, renames>>
  PROVE  HistDisk' /\ HistLists' /\ TakenThere' /\ ListsFresh'
<1>1. HistDisk /\ HistLists /\ TakenThere /\ ListsFresh
  BY DEF HistIInv
<1>2. /\ onDisk' = onDisk \ {f} /\ deleted' = deleted \cup {f}
      /\ crossedScan' = (crossedScan \/ \E i \in 1..MaxScans : scans[i].busy)
      /\ late' = IF f \in openings THEN late \cup {f} ELSE late
      /\ listCache' = Hist!Invalidated
  BY DEF Hist!Unlink
<1>3. listCache' \in [valid : BOOLEAN, infos : SUBSET Transcript] /\ ~listCache'.valid
  BY <1>1, <1>2 DEF Hist!Invalidated, HistLists
<1>4. Hist!Free # {} /\ scans' = Hist!Begun /\ UNCHANGED shownList
  BY <1>3 DEF Hist!Unlink
<1>5. PICK i \in 1..MaxScans :
        /\ scans'[i].busy /\ ~scans'[i].done
        /\ \A j \in 1..MaxScans : j # i => scans'[j] = scans[j]
  BY <1>1, <1>4, BegunProperties
<1>6. crossedScan' \in BOOLEAN
  BY <1>1, <1>2 DEF HistLists
<1>7. HistDisk'
  BY <1>1, <1>2 DEF HistDisk
<1>8. HistLists'
  BY <1>1, <1>3, <1>4, <1>6, BegunProperties DEF HistLists
<1>9. TakenThere'
  BY <1>1, <1>2 DEF TakenThere, Taken
<1>10. ListsFresh'
  BY <1>1, <1>2, <1>3, <1>5 DEF ListsFresh
<1> QED BY <1>7, <1>8, <1>9, <1>10

(* deleteSession, before and after its wait.                                *)
LEMMA DeleteKeeps ==
  ASSUME HistIInv, (\E f \in Transcript : Hist!Delete(f)) \/ Hist!DeleteEnds
  PROVE  HistIInv'
<1>1. /\ HistDisk /\ HistChats /\ HistDeletion /\ HistLists /\ HistNames
      /\ TakenThere /\ ListsFresh
  BY DEF HistIInv
<1>2. UNCHANGED <<held, streamingIn, openings, named, titled, renames>>
  BY DEF Hist!Delete, Hist!DeleteEnds, Hist!chatVars, Hist!nameVars
<1>3. HistChats' /\ HistNames'
  BY <1>1, <1>2 DEF HistChats, HistNames
<1>4. Hist!NoDeletion \in [file : Transcript \cup {Hist!NoFile},
                           target : Transcript \cup {Hist!NoFile},
                           phase : {"none", "listing", "moving"}]
  BY DEF Hist!NoDeletion
<1>5. HistDeletion'
  <2>1. ASSUME NEW f \in Transcript, Hist!Delete(f) PROVE HistDeletion'
    <3>1. CASE UNCHANGED deletion
      BY <1>1, <3>1 DEF HistDeletion
    <3>2. CASE deletion' = [file |-> f, target |-> Hist!NoFile, phase |-> "listing"]
      BY <3>2 DEF HistDeletion
    <3> QED BY <2>1, <3>1, <3>2 DEF Hist!Delete
  <2>2. ASSUME Hist!DeleteEnds PROVE HistDeletion'
    BY <1>4, <2>2 DEF Hist!DeleteEnds, HistDeletion
  <2> QED BY <2>1, <2>2
<1>6. CASE \E f \in onDisk : held[f] = "no" /\ Hist!Unlink(f)
  <2>1. HistDisk' /\ HistLists' /\ TakenThere' /\ ListsFresh'
    BY <1>2, <1>6, UnlinkProperties
  <2> QED BY <1>3, <1>5, <2>1 DEF HistIInv
<1>7. CASE UNCHANGED <<onDisk, scans, listCache, shownList, deleted, crossedScan, late>>
  <2>1. HistDisk' /\ HistLists' /\ ListsFresh'
    BY <1>1, <1>7 DEF HistDisk, HistLists, ListsFresh
  <2>2. TakenThere'
    BY <1>1, <1>2, <1>7 DEF TakenThere, Taken
  <2> QED BY <1>3, <1>5, <2>1, <2>2 DEF HistIInv
<1> QED BY <1>6, <1>7 DEF Hist!Delete, Hist!DeleteEnds, Hist!Released, Hist!listVars

(* A rename in the list or of the chat: the name and the title go           *)
(* together.                                                                *)
LEMMA RenameKeeps ==
  ASSUME HistIInv, NEW f \in Transcript,
         \/ Hist!RenameSession(f)
         \/ \E reached \in BOOLEAN : Hist!RenameConversation(f, reached)
  PROVE  HistIInv'
<1>1. /\ HistDisk /\ HistChats /\ HistDeletion /\ HistLists /\ HistNames
      /\ TakenThere /\ ListsFresh
  BY DEF HistIInv
<1>2. /\ UNCHANGED <<onDisk, held, streamingIn, openings, deletion, scans, shownList,
                     deleted, crossedScan>>
      /\ listCache' = Hist!Invalidated
      /\ renames' \in 0..MaxRenames
  BY <1>1, AdminBounds
  DEF Hist!RenameSession, Hist!RenameConversation, Hist!chatVars, HistNames
<1>3. listCache' \in [valid : BOOLEAN, infos : SUBSET Transcript] /\ ~listCache'.valid
  BY <1>1, <1>2 DEF Hist!Invalidated, HistLists
<1>4. HistLists' /\ ListsFresh' /\ HistChats' /\ HistDeletion'
  BY <1>1, <1>2, <1>3 DEF HistLists, ListsFresh, HistChats, HistDeletion
<1>5. \A n \in 0..1 : 1 - n \in 0..1
  OBVIOUS
<1>6. ASSUME Hist!RenameSession(f) PROVE HistDisk' /\ HistNames' /\ TakenThere'
  <2>1. /\ named' = [named EXCEPT ![f] = 1 - @]
        /\ titled' = (IF held[f] # "no" THEN [titled EXCEPT ![f] = named'[f]] ELSE titled)
        /\ late' = (IF f \in openings THEN late \cup {f} ELSE late)
    BY <1>6 DEF Hist!RenameSession, Hist!Retitled
  <2>2. named' \in [Transcript -> 0..1]
    BY <1>1, <1>5, <2>1 DEF HistNames
  <2>3. HistDisk' /\ HistNames'
    BY <1>1, <1>2, <2>1, <2>2 DEF HistDisk, HistNames
  <2>4. TakenThere'
    BY <1>1, <1>2, <2>1 DEF TakenThere, Taken, HistNames
  <2> QED BY <2>3, <2>4
<1>7. ASSUME NEW reached \in BOOLEAN, Hist!RenameConversation(f, reached)
      PROVE  HistDisk' /\ HistNames' /\ TakenThere'
  <2>1. /\ titled' = [titled EXCEPT ![f] = 1 - @]
        /\ named' = (IF reached THEN [named EXCEPT ![f] = titled'[f]] ELSE named)
        /\ late' = (IF reached THEN late ELSE late \cup {f})
    BY <1>7 DEF Hist!RenameConversation
  <2>2. titled' \in [Transcript -> 0..1]
    BY <1>1, <1>5, <2>1 DEF HistNames
  <2>3. HistDisk' /\ HistNames'
    BY <1>1, <1>2, <2>1, <2>2 DEF HistDisk, HistNames
  <2>4. TakenThere'
    BY <1>1, <1>2, <2>1 DEF TakenThere, Taken, HistNames
  <2> QED BY <2>3, <2>4
<1>8. HistDisk' /\ HistNames' /\ TakenThere'
  BY <1>6, <1>7
<1> QED BY <1>4, <1>8 DEF HistIInv

(* Every step of the history keeps the invariant.                           *)
LEMMA HistStep == HistIInv /\ [Hist!HistNext]_histVars => HistIInv'
<1>1. HistIInv /\ UNCHANGED histVars => HistIInv'
  BY DEF HistIInv, histVars, HistDisk, HistChats, HistDeletion, HistLists, HistNames,
         TakenThere, Taken, ListsFresh
<1> QED BY <1>1, ChatsKeep, ListsKeep, DeleteKeeps, RenameKeeps DEF Hist!HistNext

(* Its types are the type invariant of the part.                            *)
LEMMA HistHolds == HistIInv => Hist!HistTypeOK
<1> SUFFICES ASSUME HistIInv PROVE Hist!HistTypeOK
  OBVIOUS
<1>1. HistDisk /\ HistChats /\ HistDeletion /\ HistLists /\ HistNames
  BY DEF HistIInv
<1>2. onDisk \cup openings \cup shownList \cup deleted \cup late \subseteq Transcript
  BY <1>1 DEF HistDisk, HistChats, HistLists
<1> DEFINE A == {f \in Transcript : held[f] = "active"}
<1>3. Hist!Cardinality(A) <= 1
  <2>1. Hist!Cardinality(A) = Cardinality(A)
    BY Zenon DEF Hist!Cardinality, Cardinality
  <2>2. A = {} \/ \E f : A = {f}
    BY <1>1 DEF HistChats
  <2>3. Cardinality(A) \in {0, 1}
    BY <2>2, FS_EmptySet, FS_Singleton
  <2> QED BY <2>1, <2>3
<1> QED
  BY <1>1, <1>2, <1>3 DEF HistChats, HistDeletion, HistLists, HistNames, HistScan,
     Hist!HistTypeOK

(* No transcript is deleted under an open chat, a deleted one is not listed *)
(* again, and a title is the name, for any transcripts, scans and renames.  *)
THEOREM HistoryIsKept == Spec => []HistoryKept
<1>1. Init => HistIInv
  BY HistInitially DEF Init
<1>2. [Next]_vars => [Hist!HistNext]_histVars
  BY DEF Next, Rest, vars, histVars
<1>3. HistIInv /\ [Next]_vars => HistIInv'
  BY <1>2, HistStep
<1>4. HistIInv => HistoryKept
  <2> SUFFICES ASSUME HistIInv PROVE HistoryKept
    OBVIOUS
  <2>1. HistDisk /\ HistChats /\ TakenThere /\ ListsFresh
    BY DEF HistIInv
  <2>2. Hist!NotUnderAChat /\ Hist!TitleIsName
    BY <2>1 DEF TakenThere, Taken, HistDisk, Hist!NotUnderAChat, Hist!TitleIsName
  <2>3. Hist!DeletedStaysGone
    BY <2>1 DEF ListsFresh, Hist!DeletedStaysGone
  <2> QED BY <2>2, <2>3, HistHolds DEF HistoryKept
<1> QED BY <1>1, <1>3, <1>4, PTL DEF Spec

-----------------------------------------------------------------------------
(* ProjectModels                                                            *)

(* Types of keys and handlers.                                              *)
KeyOrNone == KeyName \cup {Models!None}

Handler ==
  [kind : {Models!None, "restore", "restoreModel", "choose", "chosen", "activate",
           "remove", "clear"},
   project : Project \cup {Models!None}, provider : Provider \cup {Models!None},
   key : KeyOrNone, todo : [Provider -> KeyOrNone]]

(* A handler knows the project it restores, and else its provider.          *)
Fits(h) ==
  /\ h.kind = "restore" => h.project \in Project
  /\ h.kind \in {"restoreModel", "choose", "chosen", "activate", "remove", "clear"}
       => h.provider \in Provider

(* Types of the rest.                                                       *)
ModelFlags == overlapped \in BOOLEAN /\ overwritten \in BOOLEAN

ModelData ==
  /\ keys \in [Provider -> SUBSET KeyName] /\ activeKey \in [Provider -> KeyOrNone]
  /\ pinnedKey \in [Project -> [Provider -> KeyOrNone]]
  /\ pinnedModel \in [Project -> Provider \cup {Models!None}]
  /\ chosenModel \in [Project -> Provider \cup {Models!None}]
  /\ modelOf \in [Project -> Provider \cup {Models!None}]
  /\ inProject \in Project /\ usedChats \subseteq Project
ModelTyped ==
  /\ ModelData
  /\ handler \in [Models!Slot -> Handler] /\ \A i \in Models!Slot : Fits(handler[i])

(* The active key of a provider is one of its keys K, if it has any.        *)
OneOf(K, A) == \A p \in Provider : IF K[p] = {} THEN A[p] = Models!None ELSE A[p] \in K[p]

(* The keys pinned to the project, where nothing is to be restored any more.*)
Agree(p) == pinnedKey[inProject][p] \in {Models!None, activeKey[p]}
Exist(j, p) == pinnedKey[j][p] \in keys[p] \cup {Models!None}
KeysAgree == \A p \in Provider : Agree(p)
KeysExist == \A j \in Project, p \in Provider : Exist(j, p)

(* Of the pins P of a project the ones still to do, by the keys K, differ   *)
(* from the active keys A, the others agree with them.                      *)
ToDo(K, A, todo) == {p \in Provider : todo[p] \in K[p] /\ todo[p] # A[p]}
Restoring(K, A, P, todo) ==
  \A p \in Provider : IF p \in ToDo(K, A, todo) THEN P[p] = todo[p]
                      ELSE P[p] \in {Models!None, A[p]}

RememberedBut(j) == \A k \in Project \ {j} : pinnedModel[k] = chosenModel[k]
AllRemembered == \A j \in Project : pinnedModel[j] = chosenModel[j]

(* What holds while a handler waits that nothing overlaps.                  *)
WaitsFor(h) ==
  \/ /\ h.kind = "restore" /\ h.project = inProject /\ KeysExist /\ AllRemembered
     /\ Restoring(keys, activeKey, pinnedKey[inProject], h.todo)
  \/ /\ h.kind = "restoreModel" /\ KeysAgree /\ KeysExist /\ AllRemembered
     /\ inProject \notin usedChats
  \/ /\ h.kind \in {"choose", "chosen"} /\ KeysAgree /\ KeysExist
     /\ chosenModel[inProject] = h.provider /\ RememberedBut(inProject)
  \/ /\ h.kind = "activate" /\ KeysExist /\ AllRemembered
     /\ activeKey[h.provider] = h.key /\ h.key \in keys[h.provider]
     /\ \A p \in Provider \ {h.provider} : Agree(p)
  \/ /\ h.kind = "remove" /\ AllRemembered
     /\ \A p \in Provider : p # h.provider \/ pinnedKey[inProject][p] # h.key => Agree(p)
     /\ \A j \in Project, p \in Provider :
          p # h.provider \/ pinnedKey[j][p] # h.key => Exist(j, p)
  \/ /\ h.kind = "clear" /\ AllRemembered
     /\ \A p \in Provider \ {h.provider} : Agree(p) /\ \A j \in Project : Exist(j, p)

Alone(i) == \A j \in Models!Slot \ {i} : handler[j] = Models!NoHandler

(* If nothing overlapped: one handler at most, and what it waits for;       *)
(* when none waits, the three properties.                                   *)
InTurn ==
  /\ ~overwritten
  /\ Models!Calm => KeysAgree /\ KeysExist /\ AllRemembered
  /\ \A i \in Models!Slot :
       handler[i] # Models!NoHandler => Alone(i) /\ WaitsFor(handler[i])

ModelIInv ==
  /\ ModelFlags /\ ModelTyped /\ OneOf(keys, activeKey) /\ steps \in 0..MaxSteps
  /\ ~overlapped => InTurn

(* What stands for nothing is no key, provider or project.                  *)
LEMMA NoneApart ==
  /\ Models!None \notin KeyName /\ Models!None \notin Provider /\ Models!None \notin Project
  /\ \A K \in [Provider -> SUBSET KeyName], p \in Provider :
       Models!None \notin K[p] /\ \A k \in K[p] : k \in KeyName /\ k \in KeyOrNone
BY AdminBounds DEF Models!None, KeyOrNone

(* A slot is free, or its handler is of a kind.                             *)
LEMMA NoHandlerTyped ==
  /\ Models!NoHandler \in Handler /\ Models!NoHandler.kind = Models!None
  /\ Fits(Models!NoHandler)
  /\ Models!NoHandler.todo = [p \in Provider |-> Models!None]
  /\ \A h \in Handler : h.kind # Models!None => h # Models!NoHandler
BY DEF Models!NoHandler, Handler, Models!None, Fits, KeyOrNone

(* The fields of a handler.                                                 *)
LEMMA HandlerFields ==
  ASSUME NEW h \in Handler
  PROVE  /\ h.project \in Project \cup {Models!None} /\ h.key \in KeyOrNone
         /\ h.provider \in Provider \cup {Models!None} /\ h.todo \in [Provider -> KeyOrNone]
BY DEF Handler

(* One key each, nothing pinned.                                            *)
LEMMA ModelInitially == Models!ModelInit => ModelIInv
<1> SUFFICES ASSUME Models!ModelInit PROVE ModelIInv
  OBVIOUS
<1>1. ModelFlags /\ ~overwritten
  BY DEF Models!ModelInit, ModelFlags
<1>2. /\ keys = [p \in Provider |-> {FirstKey}]
      /\ activeKey = [p \in Provider |-> FirstKey]
      /\ pinnedKey = [j \in Project |-> [p \in Provider |-> Models!None]]
      /\ pinnedModel = [j \in Project |-> Models!None] /\ chosenModel = pinnedModel
      /\ inProject = HomeProject /\ modelOf = pinnedModel /\ usedChats = {}
      /\ handler = [i \in Models!Slot |-> Models!NoHandler]
  BY DEF Models!ModelInit
<1>3. FirstKey \in KeyName /\ HomeProject \in Project
  BY AdminBounds
<1>4. ModelTyped
  <2>1. keys \in [Provider -> SUBSET KeyName] /\ activeKey \in [Provider -> KeyOrNone]
    BY <1>2, <1>3 DEF KeyOrNone
  <2>2. pinnedKey \in [Project -> [Provider -> KeyOrNone]]
    BY <1>2 DEF KeyOrNone
  <2>3. /\ handler \in [Models!Slot -> Handler]
        /\ \A i \in Models!Slot : Fits(handler[i])
    BY <1>2, NoHandlerTyped
  <2> QED BY <1>2, <1>3, <2>1, <2>2, <2>3 DEF ModelTyped, ModelData
<1>5. OneOf(keys, activeKey)
  BY <1>2 DEF OneOf
<1>6. KeysAgree /\ KeysExist /\ AllRemembered
  BY <1>2, <1>3 DEF KeysAgree, KeysExist, AllRemembered, Agree, Exist
<1>7. steps \in 0..MaxSteps
  <2>1. steps = 0
    BY DEF Models!ModelInit
  <2> QED BY <2>1, AdminBounds
<1>8. InTurn
  BY <1>1, <1>2, <1>6 DEF InTurn
<1> QED BY <1>1, <1>4, <1>5, <1>7, <1>8 DEF ModelIInv

(* One pin is done: the others are as before.                               *)
LEMMA RestoringStep ==
  ASSUME NEW K \in [Provider -> SUBSET KeyName], NEW A \in [Provider -> KeyOrNone],
         NEW P \in [Provider -> KeyOrNone], NEW todo \in [Provider -> KeyOrNone],
         Restoring(K, A, P, todo), NEW p \in ToDo(K, A, todo)
  PROVE  Restoring(K, [A EXCEPT ![p] = todo[p]], P, [todo EXCEPT ![p] = Models!None])
<1> DEFINE B == [A EXCEPT ![p] = todo[p]]
           left == [todo EXCEPT ![p] = Models!None]
<1>1. p \in Provider
  BY DEF ToDo
<1>2. p \notin ToDo(K, B, left) /\ P[p] = todo[p] /\ B[p] = todo[p]
  BY <1>1, NoneApart DEF ToDo, Restoring
<1>3. ASSUME NEW q \in Provider, q # p
      PROVE  /\ B[q] = A[q] /\ left[q] = todo[q]
             /\ q \in ToDo(K, B, left) <=> q \in ToDo(K, A, todo)
  BY <1>3 DEF ToDo
<1> HIDE DEF B, left
<1>4. Restoring(K, B, P, left)
  BY <1>2, <1>3 DEF Restoring
<1> QED BY <1>4 DEF B, left

(* A key that exists becomes the active one.                                *)
LEMMA OneOfStep ==
  ASSUME NEW K \in [Provider -> SUBSET KeyName], NEW A \in [Provider -> KeyOrNone],
         OneOf(K, A), NEW p \in Provider, NEW k \in K[p]
  PROVE  /\ [A EXCEPT ![p] = k] \in [Provider -> KeyOrNone]
         /\ OneOf(K, [A EXCEPT ![p] = k])
<1>1. k \in KeyOrNone /\ K[p] # {}
  BY NoneApart
<1> QED BY <1>1 DEF OneOf

(* A handler that waits: it is typed, and if nothing overlapped it is the   *)
(* only one.                                                                *)
LEMMA HandlerTurn ==
  ASSUME ModelIInv, NEW i \in Models!Slot, handler[i].kind # Models!None
  PROVE  /\ handler[i] \in Handler /\ Fits(handler[i])
         /\ ~overlapped => ~overwritten /\ Alone(i) /\ WaitsFor(handler[i])
<1>1. handler[i] \in Handler /\ Fits(handler[i])
  BY DEF ModelIInv, ModelTyped, ModelData
<1>2. handler[i] # Models!NoHandler
  BY NoHandlerTyped
<1>3. ASSUME ~overlapped PROVE ~overwritten /\ Alone(i) /\ WaitsFor(handler[i])
  BY <1>2, <1>3 DEF ModelIInv, InTurn
<1> QED BY <1>1, <1>3

(* A step of the user: if nothing overlaps, nothing waited.                 *)
LEMMA UserTurn ==
  ASSUME ModelIInv, Models!UserStep
  PROVE  /\ overlapped' \in BOOLEAN /\ steps' \in 0..MaxSteps
         /\ ~overlapped' => /\ ~overwritten /\ KeysAgree /\ KeysExist /\ AllRemembered
                            /\ \A i \in Models!Slot : Alone(i)
<1>1. overlapped' = (overlapped \/ ~Models!Calm)
  BY DEF Models!UserStep
<1>2. steps' \in 0..MaxSteps
  <2>1. steps \in 0..MaxSteps /\ steps < MaxSteps /\ steps' = steps + 1
    BY DEF ModelIInv, Models!UserStep
  <2> QED BY <2>1, AdminBounds
<1>3. overlapped' \in BOOLEAN
  BY <1>1 DEF ModelIInv, ModelFlags
<1>4. ASSUME ~overlapped'
      PROVE  /\ ~overwritten /\ KeysAgree /\ KeysExist /\ AllRemembered
             /\ \A i \in Models!Slot : Alone(i)
  <2>1. ~overlapped /\ Models!Calm
    BY <1>1, <1>4
  <2>2. InTurn
    BY <2>1 DEF ModelIInv
  <2> QED BY <2>1, <2>2 DEF InTurn, Models!Calm, Alone
<1> QED BY <1>2, <1>3, <1>4

(* The handler of slot i goes on as h.                                      *)
LEMMA HandlerWaits ==
  ASSUME ModelTyped, NEW i \in Models!Slot, NEW h \in Handler, Fits(h),
         handler' = [handler EXCEPT ![i] = h]
  PROVE  handler' \in [Models!Slot -> Handler] /\ \A k \in Models!Slot : Fits(handler'[k])
<1>1. handler \in [Models!Slot -> Handler] /\ \A k \in Models!Slot : Fits(handler[k])
  BY DEF ModelTyped, ModelData
<1>2. handler' \in [Models!Slot -> Handler]
  BY <1>1
<1>3. ASSUME NEW k \in Models!Slot PROVE Fits(handler'[k])
  <2>1. handler'[k] = IF k = i THEN h ELSE handler[k]
    BY <1>1
  <2>2. CASE k = i
    BY <2>1, <2>2
  <2>3. CASE k # i
    BY <1>1, <2>1, <2>3
  <2> QED BY <2>2, <2>3
<1> QED BY <1>2, <1>3

(* Alone, the handler waits for what it is to find, or ends and leaves      *)
(* all in order.                                                            *)
LEMMA TurnGoesOn ==
  ASSUME ModelTyped, NEW i \in Models!Slot, NEW h \in Handler,
         handler' = [handler EXCEPT ![i] = h], Alone(i), ~overwritten',
         h = Models!NoHandler => (KeysAgree /\ KeysExist /\ AllRemembered)',
         h # Models!NoHandler => WaitsFor(h)'
  PROVE  InTurn'
<1>1. handler'[i] = h /\ \A k \in Models!Slot \ {i} : handler'[k] = Models!NoHandler
  BY DEF ModelTyped, ModelData, Alone
<1>2. Alone(i)'
  BY <1>1 DEF Alone
<1>3. ASSUME Models!Calm' PROVE (KeysAgree /\ KeysExist /\ AllRemembered)'
  <2>1. h = Models!NoHandler
    BY <1>1, <1>3 DEF Models!Calm
  <2> QED BY <2>1
<1>4. ASSUME NEW k \in Models!Slot, handler'[k] # Models!NoHandler
      PROVE  k = i /\ h # Models!NoHandler
  BY <1>1, <1>4
<1>5. ASSUME NEW k \in Models!Slot, handler'[k] # Models!NoHandler
      PROVE  (Alone(k) /\ WaitsFor(handler[k]))'
  <2>1. k = i /\ WaitsFor(h)'
    BY <1>4, <1>5
  <2>2. WaitsFor(handler[k])'
    BY <1>1, <2>1 DEF WaitsFor
  <2> QED BY <1>2, <2>1, <2>2
<1> QED BY <1>3, <1>5 DEF InTurn

(* The step of a handler, or of the user who starts it.                     *)
LEMMA TurnKept ==
  ASSUME ModelIInv, NEW i \in Models!Slot, NEW h \in Handler, Fits(h),
         handler' = [handler EXCEPT ![i] = h],
         ModelData', OneOf(keys, activeKey)', ModelFlags', (steps \in 0..MaxSteps)',
         ~overlapped' => /\ Alone(i) /\ ~overwritten'
                         /\ h = Models!NoHandler => (KeysAgree /\ KeysExist /\ AllRemembered)'
                         /\ h # Models!NoHandler => WaitsFor(h)'
  PROVE  ModelIInv'
<1>1. ModelTyped
  BY DEF ModelIInv
<1>2. handler' \in [Models!Slot -> Handler] /\ \A k \in Models!Slot : Fits(handler'[k])
  BY <1>1, HandlerWaits
<1>3. ModelTyped'
  BY <1>2 DEF ModelTyped
<1>4. ~overlapped' => InTurn'
  BY <1>1, TurnGoesOn
<1> QED BY <1>3, <1>4 DEF ModelIInv

(* RestoresKey: the keys pinned to a project are restored one by one.       *)
LEMMA KeyRestored ==
  ASSUME ModelTyped, OneOf(keys, activeKey), NEW i \in Models!Slot, NEW j \in Project,
         NEW todo \in [Provider -> KeyOrNone], Models!RestoresKey(i, j, todo)
  PROVE  /\ activeKey' \in [Provider -> KeyOrNone] /\ OneOf(keys, activeKey')
         /\ \E h \in Handler :
              /\ Fits(h) /\ h # Models!NoHandler /\ h.kind = "restore" /\ h.project = j
              /\ handler' = [handler EXCEPT ![i] = h]
              /\ \A P \in [Provider -> KeyOrNone] :
                   Restoring(keys, activeKey, P, todo)
                     => Restoring(keys, activeKey', P, h.todo)
<1>1. PICK p \in Models!Needed(todo) :
        /\ activeKey' = [activeKey EXCEPT ![p] = todo[p]]
        /\ handler' = [handler EXCEPT ![i] =
                         [Models!NoHandler EXCEPT !.kind = "restore", !.project = j,
                            !.todo = [todo EXCEPT ![p] = Models!None]]]
  BY DEF Models!RestoresKey, Models!Activate, Models!Waits
<1>2. p \in ToDo(keys, activeKey, todo) /\ p \in Provider /\ todo[p] \in keys[p]
  BY DEF Models!Needed, ToDo
<1>3. keys \in [Provider -> SUBSET KeyName] /\ activeKey \in [Provider -> KeyOrNone]
  BY DEF ModelTyped, ModelData
<1>4. activeKey' \in [Provider -> KeyOrNone] /\ OneOf(keys, activeKey')
  BY <1>1, <1>2, <1>3, OneOfStep
<1> DEFINE left == [todo EXCEPT ![p] = Models!None]
           h == [Models!NoHandler EXCEPT !.kind = "restore", !.project = j, !.todo = left]
<1>5. left \in [Provider -> KeyOrNone]
  BY DEF KeyOrNone
<1>6. ASSUME NEW P \in [Provider -> KeyOrNone], Restoring(keys, activeKey, P, todo)
      PROVE  Restoring(keys, activeKey', P, left)
  BY <1>1, <1>2, <1>3, <1>6, RestoringStep
<1> HIDE DEF left
<1>7. h \in Handler /\ h.kind = "restore" /\ h.project = j /\ h.todo = left
  BY <1>5, NoHandlerTyped DEF Handler
<1>8. Fits(h) /\ h # Models!NoHandler
  BY <1>7, NoHandlerTyped DEF Fits, Models!None
<1>9. handler' = [handler EXCEPT ![i] = h]
  BY <1>1 DEF left
<1> HIDE DEF h
<1> QED BY <1>4, <1>6, <1>7, <1>8, <1>9

(* restoreProjectDefaults goes on: a key, or the model.                     *)
LEMMA KeepRestoreGoesOn ==
  ASSUME ModelIInv, NEW i \in Models!Slot, Models!RestoreGoesOn(i)
  PROVE  ModelIInv'
<1> DEFINE j == handler[i].project
           todo == handler[i].todo
           m == pinnedModel[j]
<1>1. /\ UNCHANGED <<keys, pinnedKey, pinnedModel, inProject, modelOf, usedChats, steps,
                     overlapped, chosenModel, overwritten>>
      /\ handler[i].kind = "restore"
  BY DEF Models!RestoreGoesOn
<1>2. /\ ModelTyped /\ OneOf(keys, activeKey) /\ ModelFlags /\ steps \in 0..MaxSteps
  BY DEF ModelIInv
<1>3. /\ handler[i] \in Handler /\ Fits(handler[i])
      /\ ~overlapped => ~overwritten /\ Alone(i) /\ WaitsFor(handler[i])
  BY <1>1, HandlerTurn DEF Models!None
<1>4. j \in Project /\ todo \in [Provider -> KeyOrNone]
  BY <1>1, <1>3, HandlerFields DEF Fits
<1>5. ~overlapped => /\ j = inProject /\ KeysExist /\ AllRemembered
                     /\ Restoring(keys, activeKey, pinnedKey[inProject], todo)
  BY <1>1, <1>3 DEF WaitsFor
<1>6. pinnedKey[inProject] \in [Provider -> KeyOrNone] /\ inProject \in Project
  BY <1>2 DEF ModelTyped, ModelData
<1>7. Models!Needed(todo) = ToDo(keys, activeKey, todo)
  BY DEF Models!Needed, ToDo
<1> HIDE DEF j, todo
<1>8. SUFFICES /\ activeKey' \in [Provider -> KeyOrNone] /\ OneOf(keys, activeKey')
               /\ \E h \in Handler :
                    /\ Fits(h) /\ handler' = [handler EXCEPT ![i] = h]
                    /\ ~overlapped =>
                         /\ h = Models!NoHandler => KeysAgree'
                         /\ h # Models!NoHandler => WaitsFor(h)'
  <2>1. PICK h \in Handler :
          /\ Fits(h) /\ handler' = [handler EXCEPT ![i] = h]
          /\ ~overlapped => /\ h = Models!NoHandler => KeysAgree'
                            /\ h # Models!NoHandler => WaitsFor(h)'
    BY <1>8
  <2>2. ModelTyped'
    <3>1. handler' \in [Models!Slot -> Handler] /\ \A k \in Models!Slot : Fits(handler'[k])
      BY <1>2, <2>1, HandlerWaits
    <3> QED BY <1>1, <1>2, <1>8, <3>1 DEF ModelTyped, ModelData
  <2>3. OneOf(keys, activeKey)'
    BY <1>1, <1>8 DEF OneOf
  <2>4. ASSUME ~overlapped PROVE InTurn'
    <3>1. KeysExist' /\ AllRemembered'
      BY <1>1, <1>5, <2>4 DEF KeysExist, Exist, AllRemembered
    <3> QED BY <1>1, <1>2, <1>3, <2>1, <2>4, <3>1, TurnGoesOn
  <2>5. ModelFlags' /\ (steps \in 0..MaxSteps)' /\ (overlapped <=> overlapped')
    BY <1>1, <1>2 DEF ModelFlags
  <2> QED BY <2>2, <2>3, <2>4, <2>5 DEF ModelIInv
<1>9. CASE Models!RestoresKey(i, j, todo)
  <2>1. /\ activeKey' \in [Provider -> KeyOrNone] /\ OneOf(keys, activeKey')
        /\ \E h \in Handler :
              /\ Fits(h) /\ h # Models!NoHandler /\ h.kind = "restore" /\ h.project = j
              /\ handler' = [handler EXCEPT ![i] = h]
              /\ \A P \in [Provider -> KeyOrNone] :
                   Restoring(keys, activeKey, P, todo)
                     => Restoring(keys, activeKey', P, h.todo)
    BY <1>2, <1>4, <1>9, KeyRestored
  <2>2. PICK h \in Handler :
              /\ Fits(h) /\ h # Models!NoHandler /\ h.kind = "restore" /\ h.project = j
              /\ handler' = [handler EXCEPT ![i] = h]
              /\ \A P \in [Provider -> KeyOrNone] :
                   Restoring(keys, activeKey, P, todo)
                     => Restoring(keys, activeKey', P, h.todo)
    BY <2>1
  <2>3. ASSUME ~overlapped PROVE WaitsFor(h)'
    <3>1. Restoring(keys, activeKey', pinnedKey[inProject], h.todo)
      BY <1>5, <1>6, <2>2, <2>3
    <3>2. Restoring(keys, activeKey, pinnedKey[inProject], h.todo)'
      BY <1>1, <3>1 DEF Restoring, ToDo
    <3>3. KeysExist' /\ AllRemembered'
      BY <1>1, <1>5, <2>3 DEF KeysExist, Exist, AllRemembered
    <3>4. h.project = inProject'
      BY <1>1, <1>5, <2>2, <2>3
    <3> QED BY <2>2, <3>2, <3>3, <3>4 DEF WaitsFor
  <2> QED BY <2>1, <2>2, <2>3
<1>10. CASE /\ Models!Needed(todo) = {} /\ ~Models!Restores(j)
            /\ handler' = [handler EXCEPT ![i] = Models!NoHandler] /\ UNCHANGED activeKey
  <2>1. ASSUME ~overlapped PROVE KeysAgree'
    <3>1. ToDo(keys, activeKey, todo) = {}
      BY <1>7, <1>10
    <3>2. \A p \in Provider : pinnedKey[inProject][p] \in {Models!None, activeKey[p]}
      BY <1>5, <2>1, <3>1 DEF Restoring
    <3> QED BY <1>1, <1>10, <3>2 DEF KeysAgree, Agree
  <2>2. activeKey' \in [Provider -> KeyOrNone] /\ OneOf(keys, activeKey')
    BY <1>2, <1>10 DEF ModelTyped, ModelData
  <2> QED BY <1>10, <2>1, <2>2, NoHandlerTyped
<1>11. CASE /\ Models!Needed(todo) = {} /\ Models!Restores(j)
            /\ handler' = [handler EXCEPT ![i] =
                  IF modelOf[inProject] = m THEN Models!NoHandler
                  ELSE [Models!NoHandler EXCEPT !.kind = "restoreModel", !.provider = m]]
            /\ IF pinnedKey[j][m] \in keys[m]
               THEN activeKey' = [activeKey EXCEPT ![m] = pinnedKey[j][m]]
               ELSE UNCHANGED activeKey
  <2>1. m \in Provider /\ inProject \notin usedChats
    BY <1>2, <1>4, <1>11 DEF Models!Restores, ModelTyped, ModelData
  <2>2. PICK r : r = [Models!NoHandler EXCEPT !.kind = "restoreModel", !.provider = m]
    OBVIOUS
  <2> HIDE DEF m
  <2>3. r \in Handler /\ r.kind = "restoreModel" /\ r.provider = m
    BY <2>1, <2>2, NoHandlerTyped DEF Handler
  <2>4. Fits(r) /\ r # Models!NoHandler
    BY <2>1, <2>3, NoHandlerTyped DEF Fits, Models!None
  <2>5. activeKey' \in [Provider -> KeyOrNone] /\ OneOf(keys, activeKey')
    <3> DEFINE k == pinnedKey[j][m]
    <3>1. CASE k \in keys[m]
      <4>1. activeKey' = [activeKey EXCEPT ![m] = k]
        BY <1>11, <3>1
      <4>2. keys \in [Provider -> SUBSET KeyName] /\ activeKey \in [Provider -> KeyOrNone]
        BY <1>2 DEF ModelTyped, ModelData
      <4> HIDE DEF k
      <4> QED BY <1>2, <2>1, <3>1, <4>1, <4>2, OneOfStep
    <3>2. CASE k \notin keys[m]
      BY <1>2, <1>11, <3>2 DEF ModelTyped, ModelData
    <3> QED BY <3>1, <3>2
  <2>6. ASSUME ~overlapped PROVE activeKey' = activeKey /\ KeysAgree'
    <3>1. \A p \in Provider : pinnedKey[inProject][p] \in {Models!None, activeKey[p]}
      <4>1. ToDo(keys, activeKey, todo) = {}
        BY <1>7, <1>11
      <4> QED BY <1>5, <2>6, <4>1 DEF Restoring
    <3>2. activeKey' = activeKey
      <4>1. CASE pinnedKey[j][m] \in keys[m]
        <5>1. pinnedKey[j][m] = activeKey[m]
          BY <1>2, <1>5, <2>1, <2>6, <3>1, <4>1, NoneApart DEF ModelTyped, ModelData
        <5> QED BY <1>2, <1>11, <4>1, <5>1 DEF ModelTyped, ModelData
      <4>2. CASE pinnedKey[j][m] \notin keys[m]
        BY <1>11, <4>2
      <4> QED BY <4>1, <4>2
    <3>3. KeysAgree'
      BY <1>1, <3>1, <3>2 DEF KeysAgree, Agree
    <3> QED BY <3>2, <3>3
  <2>7. ASSUME ~overlapped PROVE WaitsFor(r)'
    <3>1. KeysExist' /\ AllRemembered' /\ (inProject \notin usedChats)'
      BY <1>1, <1>5, <2>1, <2>7 DEF KeysExist, Exist, AllRemembered
    <3> QED BY <2>3, <2>6, <2>7, <3>1 DEF WaitsFor
  <2>8. CASE modelOf[inProject] = m
    <3>1. handler' = [handler EXCEPT ![i] = Models!NoHandler]
      BY <1>11, <2>8
    <3> QED BY <2>5, <2>6, <3>1, NoHandlerTyped
  <2>9. CASE modelOf[inProject] # m
    <3>1. handler' = [handler EXCEPT ![i] = r]
      BY <1>11, <2>2, <2>9
    <3> QED BY <2>3, <2>4, <2>5, <2>7, <3>1
  <2> QED BY <2>8, <2>9
<1> QED
  <2>1. \/ Models!RestoresKey(i, j, todo)
        \/ /\ Models!Needed(todo) = {} /\ ~Models!Restores(j)
           /\ Models!Waits(i, Models!NoHandler) /\ UNCHANGED activeKey
        \/ /\ Models!Needed(todo) = {} /\ Models!Restores(j)
           /\ Models!Waits(i, IF modelOf[inProject] = m THEN Models!NoHandler
                  ELSE [Models!NoHandler EXCEPT !.kind = "restoreModel", !.provider = m])
           /\ IF pinnedKey[j][m] \in keys[m]
              THEN Models!Activate(m, pinnedKey[j][m]) ELSE UNCHANGED activeKey
    BY Zenon DEF Models!RestoreGoesOn, j, todo, m
  <2> QED BY <1>9, <1>10, <1>11, <2>1 DEF Models!Waits, Models!Activate

-----------------------------------------------------------------------------
(* setModel of the restore.                                                 *)
LEMMA KeepRestoreModel ==
  ASSUME ModelIInv, NEW i \in Models!Slot, Models!RestoreModel(i)
  PROVE  ModelIInv'
<1>1. /\ handler[i].kind = "restoreModel"
      /\ modelOf' = [modelOf EXCEPT ![inProject] = handler[i].provider]
      /\ overwritten' = (overwritten \/ (inProject \in usedChats /\ modelOf # modelOf'))
      /\ handler' = [handler EXCEPT ![i] = Models!NoHandler]
      /\ UNCHANGED <<keys, activeKey, pinnedKey, pinnedModel, inProject, usedChats, steps,
                     overlapped, chosenModel>>
  BY DEF Models!RestoreModel, Models!Waits
<1>2. /\ ModelTyped /\ OneOf(keys, activeKey) /\ ModelFlags /\ steps \in 0..MaxSteps
  BY DEF ModelIInv
<1>3. /\ handler[i] \in Handler /\ Fits(handler[i])
      /\ ~overlapped => ~overwritten /\ Alone(i) /\ WaitsFor(handler[i])
  BY <1>1, HandlerTurn DEF Models!None
<1>4. handler[i].provider \in Provider
  BY <1>1, <1>3 DEF Fits
<1>5. ModelData'
  BY <1>1, <1>2, <1>4 DEF ModelTyped, ModelData
<1>6. OneOf(keys, activeKey)' /\ ModelFlags' /\ (steps \in 0..MaxSteps)'
  BY <1>1, <1>2 DEF OneOf, ModelFlags
<1>7. ASSUME ~overlapped'
      PROVE  Alone(i) /\ ~overwritten' /\ (KeysAgree /\ KeysExist /\ AllRemembered)'
  <2>1. /\ KeysAgree /\ KeysExist /\ AllRemembered /\ inProject \notin usedChats
        /\ Alone(i) /\ ~overwritten
    BY <1>1, <1>3, <1>7 DEF WaitsFor
  <2> QED BY <1>1, <2>1 DEF KeysAgree, KeysExist, AllRemembered, Agree, Exist
<1> QED BY <1>1, <1>5, <1>6, <1>7, NoHandlerTyped, TurnKept

(* A message is sent in the chat.                                           *)
LEMMA KeepUseChat ==
  ASSUME ModelIInv, Models!UseChat
  PROVE  ModelIInv'
<1>1. /\ usedChats' = usedChats \cup {inProject}
      /\ overlapped' = (overlapped \/ ~Models!Calm)
      /\ UNCHANGED <<keys, activeKey, pinnedKey, pinnedModel, inProject, modelOf, handler,
                     steps, chosenModel, overwritten>>
  BY DEF Models!UseChat
<1>2. /\ ModelTyped /\ OneOf(keys, activeKey) /\ ModelFlags /\ steps \in 0..MaxSteps
      /\ ~overlapped => InTurn
  BY DEF ModelIInv
<1>3. ModelTyped'
  BY <1>1, <1>2 DEF ModelTyped, ModelData
<1>4. OneOf(keys, activeKey)' /\ ModelFlags' /\ (steps \in 0..MaxSteps)'
  BY <1>1, <1>2 DEF OneOf, ModelFlags
<1>5. ASSUME ~overlapped' PROVE InTurn'
  <2>1. ~overlapped /\ Models!Calm
    BY <1>1, <1>5
  <2>2. ~overwritten /\ KeysAgree /\ KeysExist /\ AllRemembered
    BY <1>2, <2>1 DEF InTurn
  <2>3. Models!Calm' /\ KeysAgree' /\ KeysExist' /\ AllRemembered' /\ ~overwritten'
    BY <1>1, <2>1, <2>2
       DEF KeysAgree, KeysExist, AllRemembered, Agree, Exist, Models!Calm
  <2> QED BY <2>3 DEF InTurn, Models!Calm
<1> QED BY <1>3, <1>4, <1>5 DEF ModelIInv

(* setModel: the session has the model, the project does not know it yet.   *)
LEMMA KeepChooseModel ==
  ASSUME ModelIInv, NEW i \in Models!Slot, NEW m \in Provider, Models!ChooseModel(i, m)
  PROVE  ModelIInv'
<1> DEFINE h == [Models!NoHandler EXCEPT !.kind = "choose", !.project = inProject,
                                         !.provider = m]
<1>1. /\ Models!UserStep
      /\ modelOf' = [modelOf EXCEPT ![inProject] = m]
      /\ chosenModel' = [chosenModel EXCEPT ![inProject] = m]
      /\ handler' = [handler EXCEPT ![i] = h]
      /\ UNCHANGED <<keys, activeKey, pinnedKey, pinnedModel, inProject, usedChats,
                     overwritten>>
  BY DEF Models!ChooseModel, Models!Waits
<1>2. /\ ModelTyped /\ OneOf(keys, activeKey) /\ ModelFlags
  BY DEF ModelIInv
<1>3. /\ overlapped' \in BOOLEAN /\ steps' \in 0..MaxSteps
      /\ ~overlapped' => /\ ~overwritten /\ KeysAgree /\ KeysExist /\ AllRemembered
                         /\ \A k \in Models!Slot : Alone(k)
  BY <1>1, UserTurn
<1>4. h \in Handler /\ h.kind = "choose" /\ h.provider = m
  BY <1>2, NoHandlerTyped DEF Handler, ModelTyped, ModelData
<1> PICK r : r = h
  OBVIOUS
<1>5. r \in Handler /\ r.kind = "choose" /\ r.provider = m
  BY <1>4
<1> HIDE DEF h
<1>6. Fits(r) /\ r # Models!NoHandler
  BY <1>5, NoHandlerTyped DEF Fits, Models!None
<1>7. ModelData'
  BY <1>1, <1>2 DEF ModelTyped, ModelData
<1>8. OneOf(keys, activeKey)' /\ ModelFlags'
  BY <1>1, <1>2, <1>3 DEF OneOf, ModelFlags
<1>9. ASSUME ~overlapped' PROVE Alone(i) /\ ~overwritten' /\ WaitsFor(r)'
  <2>1. KeysAgree' /\ KeysExist'
    BY <1>1, <1>3, <1>9 DEF KeysAgree, KeysExist, Agree, Exist
  <2>2. chosenModel'[inProject'] = r.provider /\ RememberedBut(inProject)'
    BY <1>1, <1>2, <1>3, <1>5, <1>9 DEF RememberedBut, AllRemembered, ModelTyped, ModelData
  <2>3. WaitsFor(r)'
    BY <1>5, <2>1, <2>2 DEF WaitsFor
  <2> QED BY <1>1, <1>3, <1>9, <2>3
<1> QED BY <1>1, <1>3, <1>5, <1>6, <1>7, <1>8, <1>9, TurnKept

(* restoreKeyForModel: the pinned key is active already, or it is gone.     *)
LEMMA KeepChooseKey ==
  ASSUME ModelIInv, NEW i \in Models!Slot, Models!ChooseKey(i)
  PROVE  ModelIInv'
<1> DEFINE p == handler[i].provider
           k == pinnedKey[inProject][p]
<1>1. /\ handler[i].kind = "choose"
      /\ IF k \in keys[p] /\ k # activeKey[p] THEN activeKey' = [activeKey EXCEPT ![p] = k]
                                              ELSE activeKey' = activeKey
      /\ pinnedKey' = IF k \in keys[p] THEN pinnedKey
                      ELSE [pinnedKey EXCEPT ![inProject][p] = Models!None]
      /\ handler' = [handler EXCEPT ![i] = [handler[i] EXCEPT !.kind = "chosen"]]
      /\ UNCHANGED <<keys, pinnedModel, inProject, modelOf, usedChats, steps, overlapped,
                     chosenModel, overwritten>>
  BY DEF Models!ChooseKey, Models!Waits, Models!Activate
<1>2. /\ ModelTyped /\ OneOf(keys, activeKey) /\ ModelFlags /\ steps \in 0..MaxSteps
  BY DEF ModelIInv
<1>3. /\ handler[i] \in Handler /\ Fits(handler[i])
      /\ ~overlapped => ~overwritten /\ Alone(i) /\ WaitsFor(handler[i])
  BY <1>1, HandlerTurn DEF Models!None
<1>4. p \in Provider
  BY <1>1, <1>3 DEF Fits
<1>5. ~overlapped => /\ KeysAgree /\ KeysExist /\ chosenModel[inProject] = p
                     /\ RememberedBut(inProject)
  BY <1>1, <1>3 DEF WaitsFor
<1> PICK r : r = [handler[i] EXCEPT !.kind = "chosen"]
  OBVIOUS
<1>6. r \in Handler /\ r.kind = "chosen" /\ r.provider = p
  BY <1>3 DEF Handler
<1>7. Fits(r) /\ r # Models!NoHandler
  BY <1>4, <1>6, NoHandlerTyped DEF Fits, Models!None
<1> HIDE DEF p
<1>8. activeKey' \in [Provider -> KeyOrNone] /\ OneOf(keys, activeKey)'
  <2>1. keys \in [Provider -> SUBSET KeyName] /\ activeKey \in [Provider -> KeyOrNone]
    BY <1>2 DEF ModelTyped, ModelData
  <2>2. CASE k \in keys[p] /\ k # activeKey[p]
    <3> HIDE DEF k
    <3>1. /\ [activeKey EXCEPT ![p] = k] \in [Provider -> KeyOrNone]
          /\ OneOf(keys, [activeKey EXCEPT ![p] = k])
      BY <1>2, <1>4, <2>1, <2>2, OneOfStep
    <3> QED BY <1>1, <2>2, <3>1 DEF OneOf
  <2>3. CASE ~(k \in keys[p] /\ k # activeKey[p])
    BY <1>1, <1>2, <2>1, <2>3 DEF OneOf
  <2> QED BY <2>2, <2>3
<1>9. pinnedKey' \in [Project -> [Provider -> KeyOrNone]]
  BY <1>1, <1>2 DEF ModelTyped, ModelData, KeyOrNone
<1>10. ModelData' /\ ModelFlags' /\ (steps \in 0..MaxSteps)'
  BY <1>1, <1>2, <1>8, <1>9 DEF ModelTyped, ModelData, ModelFlags
<1>11. ASSUME ~overlapped' PROVE Alone(i) /\ ~overwritten' /\ WaitsFor(r)'
  <2>1. k \in {Models!None, activeKey[p]}
    BY <1>1, <1>4, <1>5, <1>11 DEF KeysAgree, Agree
  <2>2. activeKey' = activeKey
    BY <1>1, <1>2, <1>4, <2>1, NoneApart DEF ModelTyped, ModelData
  <2>3. \A j \in Project, q \in Provider :
          pinnedKey'[j][q] \in {pinnedKey[j][q], Models!None}
    BY <1>1, <1>2 DEF ModelTyped, ModelData
  <2>4. KeysAgree' /\ KeysExist'
    BY <1>1, <1>2, <1>5, <1>11, <2>2, <2>3
       DEF KeysAgree, KeysExist, Agree, Exist, ModelTyped, ModelData
  <2>5. chosenModel'[inProject'] = r.provider /\ RememberedBut(inProject)'
    BY <1>1, <1>5, <1>6, <1>11 DEF RememberedBut
  <2>6. WaitsFor(r)'
    BY <1>6, <2>4, <2>5 DEF WaitsFor
  <2> QED BY <1>1, <1>3, <1>11, <2>6
<1>12. handler' = [handler EXCEPT ![i] = r]
  BY <1>1
<1> QED BY <1>6, <1>7, <1>8, <1>10, <1>11, <1>12, TurnKept

(* rememberProjectModel, and the key that is active.                        *)
LEMMA KeepRemembered ==
  ASSUME ModelIInv, NEW i \in Models!Slot, Models!Remembered(i)
  PROVE  ModelIInv'
<1> DEFINE p == handler[i].provider
<1>1. /\ handler[i].kind = "chosen"
      /\ pinnedModel' = [pinnedModel EXCEPT ![inProject] = p]
      /\ pinnedKey' = IF activeKey[p] = Models!None THEN pinnedKey
                      ELSE [pinnedKey EXCEPT ![inProject][p] = activeKey[p]]
      /\ handler' = [handler EXCEPT ![i] = Models!NoHandler]
      /\ UNCHANGED <<keys, activeKey, inProject, modelOf, usedChats, steps, overlapped,
                     chosenModel, overwritten>>
  BY DEF Models!Remembered, Models!Waits, Models!WithModel
<1>2. /\ ModelTyped /\ OneOf(keys, activeKey) /\ ModelFlags /\ steps \in 0..MaxSteps
  BY DEF ModelIInv
<1>3. /\ handler[i] \in Handler /\ Fits(handler[i])
      /\ ~overlapped => ~overwritten /\ Alone(i) /\ WaitsFor(handler[i])
  BY <1>1, HandlerTurn DEF Models!None
<1>4. p \in Provider
  BY <1>1, <1>3 DEF Fits
<1>5. ~overlapped => /\ KeysAgree /\ KeysExist /\ chosenModel[inProject] = p
                     /\ RememberedBut(inProject)
  BY <1>1, <1>3 DEF WaitsFor
<1> HIDE DEF p
<1>6. activeKey[p] \in keys[p] \cup {Models!None}
  BY <1>2, <1>4 DEF OneOf
<1>7. pinnedKey' \in [Project -> [Provider -> KeyOrNone]]
  BY <1>1, <1>2, <1>4 DEF ModelTyped, ModelData
<1>8. ModelData' /\ ModelFlags' /\ (steps \in 0..MaxSteps)' /\ OneOf(keys, activeKey)'
  BY <1>1, <1>2, <1>4, <1>7 DEF ModelTyped, ModelData, ModelFlags, OneOf
<1>9. ASSUME ~overlapped'
      PROVE  Alone(i) /\ ~overwritten' /\ (KeysAgree /\ KeysExist /\ AllRemembered)'
  <2>1. \A j \in Project, q \in Provider :
          \/ pinnedKey'[j][q] = pinnedKey[j][q]
          \/ q = p /\ pinnedKey'[j][q] = activeKey[q]
    BY <1>1, <1>2, <1>4 DEF ModelTyped, ModelData
  <2>2. KeysAgree' /\ KeysExist'
    BY <1>1, <1>2, <1>5, <1>6, <1>9, <2>1
       DEF KeysAgree, KeysExist, Agree, Exist, ModelTyped, ModelData
  <2>3. AllRemembered'
    BY <1>1, <1>2, <1>5, <1>9 DEF RememberedBut, AllRemembered, ModelTyped, ModelData
  <2> QED BY <1>1, <1>3, <1>9, <2>2, <2>3
<1> QED BY <1>1, <1>8, <1>9, NoHandlerTyped, TurnKept

-----------------------------------------------------------------------------
(* addProviderKey: the first key of a provider becomes active.              *)
LEMMA KeepAddKey ==
  ASSUME ModelIInv, NEW i \in Models!Slot, NEW p \in Provider, NEW k \in KeyName,
         Models!AddKey(i, p, k)
  PROVE  ModelIInv'
<1>1. /\ Models!UserStep /\ keys' = [keys EXCEPT ![p] = keys[p] \cup {k}]
      /\ IF keys[p] = {} THEN activeKey' = [activeKey EXCEPT ![p] = k]
                         ELSE activeKey' = activeKey
      /\ handler' = [handler EXCEPT ![i] =
                       [Models!NoHandler EXCEPT !.kind = "activate", !.project = inProject,
                                                !.provider = p, !.key = activeKey'[p]]]
      /\ UNCHANGED <<pinnedKey, pinnedModel, inProject, modelOf, usedChats, chosenModel,
                     overwritten>>
  BY DEF Models!AddKey, Models!Waits, Models!Activate
<1>2. /\ ModelTyped /\ OneOf(keys, activeKey) /\ ModelFlags
  BY DEF ModelIInv
<1>3. /\ overlapped' \in BOOLEAN /\ steps' \in 0..MaxSteps
      /\ ~overlapped' => /\ ~overwritten /\ KeysAgree /\ KeysExist /\ AllRemembered
                         /\ \A s \in Models!Slot : Alone(s)
  BY <1>1, UserTurn
<1>4. keys' \in [Provider -> SUBSET KeyName] /\ activeKey' \in [Provider -> KeyOrNone]
  BY <1>1, <1>2 DEF ModelTyped, ModelData, KeyOrNone
<1>5. OneOf(keys, activeKey)' /\ activeKey'[p] \in keys'[p]
  BY <1>1, <1>2 DEF OneOf, ModelTyped, ModelData
<1>6. PICK a \in KeyOrNone : a = activeKey'[p]
  BY <1>4
<1> PICK r : r = [Models!NoHandler EXCEPT !.kind = "activate", !.project = inProject,
                                          !.provider = p, !.key = a]
  OBVIOUS
<1>7. r \in Handler /\ r.kind = "activate" /\ r.provider = p /\ r.key = a
  BY <1>2, <1>6, NoHandlerTyped DEF Handler, ModelTyped, ModelData
<1>8. Fits(r) /\ r # Models!NoHandler
  BY <1>7, NoHandlerTyped DEF Fits, Models!None
<1>9. ModelData' /\ ModelFlags'
  BY <1>1, <1>2, <1>3, <1>4 DEF ModelTyped, ModelData, ModelFlags
<1>10. ASSUME ~overlapped' PROVE Alone(i) /\ ~overwritten' /\ WaitsFor(r)'
  <2>1. KeysExist' /\ AllRemembered'
    BY <1>1, <1>2, <1>3, <1>10
       DEF KeysExist, Exist, AllRemembered, ModelTyped, ModelData
  <2>2. \A q \in Provider \ {p} : Agree(q)'
    BY <1>1, <1>2, <1>3, <1>10 DEF KeysAgree, Agree, ModelTyped, ModelData
  <2>3. WaitsFor(r)'
    BY <1>5, <1>6, <1>7, <2>1, <2>2 DEF WaitsFor
  <2> QED BY <1>1, <1>3, <1>10, <2>3
<1>11. handler' = [handler EXCEPT ![i] = r]
  BY <1>1, <1>6
<1> QED BY <1>3, <1>5, <1>7, <1>8, <1>9, <1>10, <1>11, TurnKept

(* activateProviderKey, by hand.                                            *)
LEMMA KeepActivateKey ==
  ASSUME ModelIInv, NEW i \in Models!Slot, NEW p \in Provider, NEW k \in KeyName,
         Models!ActivateKey(i, p, k)
  PROVE  ModelIInv'
<1>1. /\ Models!UserStep /\ k \in keys[p] /\ activeKey' = [activeKey EXCEPT ![p] = k]
      /\ handler' = [handler EXCEPT ![i] =
                       [Models!NoHandler EXCEPT !.kind = "activate", !.project = inProject,
                                                !.provider = p, !.key = k]]
      /\ UNCHANGED <<keys, pinnedKey, pinnedModel, inProject, modelOf, usedChats,
                     chosenModel, overwritten>>
  BY DEF Models!ActivateKey, Models!Waits, Models!Activate
<1>2. /\ ModelTyped /\ OneOf(keys, activeKey) /\ ModelFlags
  BY DEF ModelIInv
<1>3. /\ overlapped' \in BOOLEAN /\ steps' \in 0..MaxSteps
      /\ ~overlapped' => /\ ~overwritten /\ KeysAgree /\ KeysExist /\ AllRemembered
                         /\ \A s \in Models!Slot : Alone(s)
  BY <1>1, UserTurn
<1>4. activeKey' \in [Provider -> KeyOrNone] /\ OneOf(keys, activeKey)'
  <2>1. keys \in [Provider -> SUBSET KeyName] /\ activeKey \in [Provider -> KeyOrNone]
    BY <1>2 DEF ModelTyped, ModelData
  <2>2. /\ [activeKey EXCEPT ![p] = k] \in [Provider -> KeyOrNone]
        /\ OneOf(keys, [activeKey EXCEPT ![p] = k])
    BY <1>1, <1>2, <2>1, OneOfStep
  <2> QED BY <1>1, <2>2 DEF OneOf
<1>5. activeKey'[p] = k
  BY <1>1, <1>2 DEF ModelTyped, ModelData
<1> PICK r : r = [Models!NoHandler EXCEPT !.kind = "activate", !.project = inProject,
                                          !.provider = p, !.key = k]
  OBVIOUS
<1>6. r \in Handler /\ r.kind = "activate" /\ r.provider = p /\ r.key = k
  BY <1>2, NoHandlerTyped DEF Handler, ModelTyped, ModelData, KeyOrNone
<1>7. Fits(r) /\ r # Models!NoHandler
  BY <1>6, NoHandlerTyped DEF Fits, Models!None
<1>8. ModelData' /\ ModelFlags'
  BY <1>1, <1>2, <1>3, <1>4 DEF ModelTyped, ModelData, ModelFlags
<1>9. ASSUME ~overlapped' PROVE Alone(i) /\ ~overwritten' /\ WaitsFor(r)'
  <2>1. KeysExist' /\ AllRemembered'
    BY <1>1, <1>3, <1>9 DEF KeysExist, Exist, AllRemembered
  <2>2. \A q \in Provider \ {p} : Agree(q)'
    BY <1>1, <1>2, <1>3, <1>9 DEF KeysAgree, Agree, ModelTyped, ModelData
  <2>3. WaitsFor(r)'
    BY <1>1, <1>5, <1>6, <2>1, <2>2 DEF WaitsFor
  <2> QED BY <1>1, <1>3, <1>9, <2>3
<1> QED BY <1>1, <1>3, <1>4, <1>6, <1>7, <1>8, <1>9, TurnKept

(* rememberProjectProviderKey, of the key that was activated.               *)
LEMMA KeepActivated ==
  ASSUME ModelIInv, NEW i \in Models!Slot, Models!Activated(i)
  PROVE  ModelIInv'
<1> DEFINE p == handler[i].provider
           k == handler[i].key
<1>1. /\ handler[i].kind = "activate"
      /\ pinnedKey' = [pinnedKey EXCEPT ![inProject][p] = k]
      /\ handler' = [handler EXCEPT ![i] = Models!NoHandler]
      /\ UNCHANGED <<keys, activeKey, pinnedModel, inProject, modelOf, usedChats, steps,
                     overlapped, chosenModel, overwritten>>
  BY DEF Models!Activated, Models!Waits
<1>2. /\ ModelTyped /\ OneOf(keys, activeKey) /\ ModelFlags /\ steps \in 0..MaxSteps
  BY DEF ModelIInv
<1>3. /\ handler[i] \in Handler /\ Fits(handler[i])
      /\ ~overlapped => ~overwritten /\ Alone(i) /\ WaitsFor(handler[i])
  BY <1>1, HandlerTurn DEF Models!None
<1>4. p \in Provider
  BY <1>1, <1>3 DEF Fits
<1>5. ~overlapped => /\ KeysExist /\ AllRemembered /\ activeKey[p] = k /\ k \in keys[p]
                     /\ \A q \in Provider \ {p} : Agree(q)
  BY <1>1, <1>3 DEF WaitsFor
<1>6. k \in KeyOrNone
  BY <1>3, HandlerFields
<1> HIDE DEF p, k
<1>7. pinnedKey' \in [Project -> [Provider -> KeyOrNone]]
  BY <1>1, <1>2, <1>4, <1>6 DEF ModelTyped, ModelData
<1>8. ModelData' /\ ModelFlags' /\ (steps \in 0..MaxSteps)' /\ OneOf(keys, activeKey)'
  BY <1>1, <1>2, <1>7 DEF ModelTyped, ModelData, ModelFlags, OneOf
<1>9. ASSUME ~overlapped'
      PROVE  Alone(i) /\ ~overwritten' /\ (KeysAgree /\ KeysExist /\ AllRemembered)'
  <2>1. \A j \in Project, q \in Provider :
          pinnedKey'[j][q] = IF j = inProject /\ q = p THEN k ELSE pinnedKey[j][q]
    BY <1>1, <1>2, <1>4 DEF ModelTyped, ModelData
  <2>2. KeysAgree' /\ KeysExist' /\ AllRemembered'
    BY <1>1, <1>2, <1>5, <1>9, <2>1
       DEF KeysAgree, KeysExist, Agree, Exist, AllRemembered, ModelTyped, ModelData
  <2> QED BY <1>1, <1>3, <1>9, <2>2
<1> QED BY <1>1, <1>8, <1>9, NoHandlerTyped, TurnKept

(* removeProviderKey: another key takes over, its pins do not know yet.     *)
LEMMA KeepRemoveKey ==
  ASSUME ModelIInv, NEW i \in Models!Slot, NEW p \in Provider, NEW k \in KeyName,
         Models!RemoveKey(i, p, k)
  PROVE  ModelIInv'
<1>1. /\ Models!UserStep /\ keys' = [keys EXCEPT ![p] = keys[p] \ {k}]
      /\ IF activeKey[p] # k THEN activeKey' = activeKey
         ELSE IF keys[p] = {k} THEN activeKey' = [activeKey EXCEPT ![p] = Models!None]
         ELSE \E first \in keys[p] \ {k} : activeKey' = [activeKey EXCEPT ![p] = first]
      /\ handler' = [handler EXCEPT ![i] =
                       [Models!NoHandler EXCEPT !.kind = "remove", !.provider = p, !.key = k]]
      /\ UNCHANGED <<pinnedKey, pinnedModel, inProject, modelOf, usedChats, chosenModel,
                     overwritten>>
  BY DEF Models!RemoveKey, Models!Waits, Models!Activate
<1>2. /\ ModelTyped /\ OneOf(keys, activeKey) /\ ModelFlags
  BY DEF ModelIInv
<1>3. /\ overlapped' \in BOOLEAN /\ steps' \in 0..MaxSteps
      /\ ~overlapped' => /\ ~overwritten /\ KeysAgree /\ KeysExist /\ AllRemembered
                         /\ \A s \in Models!Slot : Alone(s)
  BY <1>1, UserTurn
<1>4. keys \in [Provider -> SUBSET KeyName] /\ activeKey \in [Provider -> KeyOrNone]
  BY <1>2 DEF ModelTyped, ModelData
<1>5. \E a \in (keys[p] \ {k}) \cup {Models!None} :
        /\ activeKey' = [activeKey EXCEPT ![p] = a]
        /\ a = Models!None <=> keys[p] \ {k} = {}
        /\ activeKey[p] # k => a = activeKey[p]
  <2>1. CASE activeKey[p] # k
    <3>1. activeKey' = [activeKey EXCEPT ![p] = activeKey[p]]
      BY <1>1, <1>4, <2>1
    <3>2. activeKey[p] \in (keys[p] \ {k}) \cup {Models!None}
      BY <1>2, <2>1 DEF OneOf
    <3>3. activeKey[p] = Models!None <=> keys[p] \ {k} = {}
      BY <1>2, <1>4, <2>1, NoneApart DEF OneOf, Models!RemoveKey
    <3> QED BY <3>1, <3>2, <3>3
  <2>2. CASE activeKey[p] = k /\ keys[p] = {k}
    BY <1>1, <2>2
  <2>3. CASE activeKey[p] = k /\ keys[p] # {k}
    <3>1. PICK first \in keys[p] \ {k} : activeKey' = [activeKey EXCEPT ![p] = first]
      BY <1>1, <2>3
    <3>2. first # Models!None
      BY <1>4, NoneApart
    <3> QED BY <2>3, <3>1, <3>2
  <2> QED BY <2>1, <2>2, <2>3
<1>6. PICK a \in (keys[p] \ {k}) \cup {Models!None} :
        /\ activeKey' = [activeKey EXCEPT ![p] = a]
        /\ a = Models!None <=> keys[p] \ {k} = {}
        /\ activeKey[p] # k => a = activeKey[p]
  BY <1>5
<1>7. keys' \in [Provider -> SUBSET KeyName] /\ activeKey' \in [Provider -> KeyOrNone]
  BY <1>1, <1>4, <1>6 DEF KeyOrNone
<1>8. OneOf(keys, activeKey)'
  BY <1>1, <1>2, <1>4, <1>6 DEF OneOf
<1> PICK r : r = [Models!NoHandler EXCEPT !.kind = "remove", !.provider = p, !.key = k]
  OBVIOUS
<1>9. r \in Handler /\ r.kind = "remove" /\ r.provider = p /\ r.key = k
  BY NoHandlerTyped DEF Handler, KeyOrNone
<1>10. Fits(r) /\ r # Models!NoHandler
  BY <1>9, NoHandlerTyped DEF Fits, Models!None
<1>11. ModelData' /\ ModelFlags'
  BY <1>1, <1>2, <1>3, <1>7 DEF ModelTyped, ModelData, ModelFlags
<1>12. ASSUME ~overlapped' PROVE Alone(i) /\ ~overwritten' /\ WaitsFor(r)'
  <2>1. AllRemembered'
    BY <1>1, <1>3, <1>12 DEF AllRemembered
  <2>2. ASSUME NEW q \in Provider, q # p \/ pinnedKey[inProject][q] # k PROVE Agree(q)'
    BY <1>1, <1>2, <1>3, <1>4, <1>6, <1>12, <2>2 DEF KeysAgree, Agree
  <2>3. ASSUME NEW j \in Project, NEW q \in Provider, q # p \/ pinnedKey[j][q] # k
        PROVE  Exist(j, q)'
    BY <1>1, <1>3, <1>4, <1>12, <2>3 DEF KeysExist, Exist
  <2>4. WaitsFor(r)'
    BY <1>1, <1>9, <2>1, <2>2, <2>3 DEF WaitsFor
  <2> QED BY <1>1, <1>3, <1>12, <2>4
<1> QED BY <1>1, <1>3, <1>8, <1>9, <1>10, <1>11, <1>12, TurnKept

(* repointDeletedKeyEverywhere.                                             *)
LEMMA KeepRemoved ==
  ASSUME ModelIInv, NEW i \in Models!Slot, Models!Removed(i)
  PROVE  ModelIInv'
<1> DEFINE p == handler[i].provider
           k == handler[i].key
<1>1. /\ handler[i].kind = "remove"
      /\ pinnedKey' = Models!Repointed(p, k, activeKey[p])
      /\ handler' = [handler EXCEPT ![i] = Models!NoHandler]
      /\ UNCHANGED <<keys, activeKey, pinnedModel, inProject, modelOf, usedChats, steps,
                     overlapped, chosenModel, overwritten>>
  BY DEF Models!Removed, Models!Waits
<1>2. /\ ModelTyped /\ OneOf(keys, activeKey) /\ ModelFlags /\ steps \in 0..MaxSteps
  BY DEF ModelIInv
<1>3. /\ handler[i] \in Handler /\ Fits(handler[i])
      /\ ~overlapped => ~overwritten /\ Alone(i) /\ WaitsFor(handler[i])
  BY <1>1, HandlerTurn DEF Models!None
<1>4. p \in Provider
  BY <1>1, <1>3 DEF Fits
<1>5. ~overlapped =>
        /\ AllRemembered
        /\ \A q \in Provider : q # p \/ pinnedKey[inProject][q] # k => Agree(q)
        /\ \A j \in Project, q \in Provider : q # p \/ pinnedKey[j][q] # k => Exist(j, q)
  BY <1>1, <1>3 DEF WaitsFor
<1> HIDE DEF p, k
<1>6. activeKey[p] \in keys[p] \cup {Models!None} /\ activeKey[p] \in KeyOrNone
  BY <1>2, <1>4 DEF OneOf, ModelTyped, ModelData
<1>7. pinnedKey' \in [Project -> [Provider -> KeyOrNone]]
  BY <1>1, <1>2, <1>6 DEF ModelTyped, ModelData, Models!Repointed
<1>8. ModelData' /\ ModelFlags' /\ (steps \in 0..MaxSteps)' /\ OneOf(keys, activeKey)'
  BY <1>1, <1>2, <1>7 DEF ModelTyped, ModelData, ModelFlags, OneOf
<1>9. ASSUME ~overlapped'
      PROVE  Alone(i) /\ ~overwritten' /\ (KeysAgree /\ KeysExist /\ AllRemembered)'
  <2>1. \A j \in Project, q \in Provider :
          pinnedKey'[j][q] = IF q = p /\ pinnedKey[j][q] = k THEN activeKey[p]
                                                            ELSE pinnedKey[j][q]
    BY <1>1, <1>2 DEF ModelTyped, ModelData, Models!Repointed
  <2>2. inProject \in Project /\ inProject' = inProject
    BY <1>1, <1>2 DEF ModelTyped, ModelData
  <2>3. ASSUME NEW q \in Provider PROVE Agree(q)'
    BY <1>1, <1>5, <1>9, <2>1, <2>2, <2>3 DEF Agree
  <2>4. ASSUME NEW j \in Project, NEW q \in Provider PROVE Exist(j, q)'
    BY <1>1, <1>5, <1>6, <1>9, <2>1, <2>4 DEF Exist
  <2>5. KeysAgree' /\ KeysExist' /\ AllRemembered'
    BY <1>1, <1>5, <1>9, <2>3, <2>4 DEF KeysAgree, KeysExist, AllRemembered
  <2> QED BY <1>1, <1>3, <1>9, <2>5
<1> QED BY <1>1, <1>8, <1>9, NoHandlerTyped, TurnKept

(* clearProviderApiKey.                                                     *)
LEMMA KeepClearKeys ==
  ASSUME ModelIInv, NEW i \in Models!Slot, NEW p \in Provider, Models!ClearKeys(i, p)
  PROVE  ModelIInv'
<1>1. /\ Models!UserStep /\ keys' = [keys EXCEPT ![p] = {}]
      /\ activeKey' = [activeKey EXCEPT ![p] = Models!None]
      /\ handler' = [handler EXCEPT ![i] =
                       [Models!NoHandler EXCEPT !.kind = "clear", !.provider = p]]
      /\ UNCHANGED <<pinnedKey, pinnedModel, inProject, modelOf, usedChats, chosenModel,
                     overwritten>>
  BY DEF Models!ClearKeys, Models!Waits, Models!Activate
<1>2. /\ ModelTyped /\ OneOf(keys, activeKey) /\ ModelFlags
  BY DEF ModelIInv
<1>3. /\ overlapped' \in BOOLEAN /\ steps' \in 0..MaxSteps
      /\ ~overlapped' => /\ ~overwritten /\ KeysAgree /\ KeysExist /\ AllRemembered
                         /\ \A s \in Models!Slot : Alone(s)
  BY <1>1, UserTurn
<1>4. keys \in [Provider -> SUBSET KeyName] /\ activeKey \in [Provider -> KeyOrNone]
  BY <1>2 DEF ModelTyped, ModelData
<1>5. keys' \in [Provider -> SUBSET KeyName] /\ activeKey' \in [Provider -> KeyOrNone]
  BY <1>1, <1>4 DEF KeyOrNone
<1>6. OneOf(keys, activeKey)'
  BY <1>1, <1>2, <1>4 DEF OneOf
<1> PICK r : r = [Models!NoHandler EXCEPT !.kind = "clear", !.provider = p]
  OBVIOUS
<1>7. r \in Handler /\ r.kind = "clear" /\ r.provider = p
  BY NoHandlerTyped DEF Handler
<1>8. Fits(r) /\ r # Models!NoHandler
  BY <1>7, NoHandlerTyped DEF Fits, Models!None
<1>9. ModelData' /\ ModelFlags'
  BY <1>1, <1>2, <1>3, <1>5 DEF ModelTyped, ModelData, ModelFlags
<1>10. ASSUME ~overlapped' PROVE Alone(i) /\ ~overwritten' /\ WaitsFor(r)'
  <2>1. AllRemembered'
    BY <1>1, <1>3, <1>10 DEF AllRemembered
  <2>2. ASSUME NEW q \in Provider \ {p} PROVE (Agree(q) /\ \A j \in Project : Exist(j, q))'
    BY <1>1, <1>3, <1>4, <1>10 DEF KeysAgree, Agree, KeysExist, Exist
  <2>3. WaitsFor(r)'
    BY <1>7, <2>1, <2>2 DEF WaitsFor
  <2> QED BY <1>1, <1>3, <1>10, <2>3
<1> QED BY <1>1, <1>3, <1>6, <1>7, <1>8, <1>9, <1>10, TurnKept

(* deleteProviderEverywhere.                                                *)
LEMMA KeepCleared ==
  ASSUME ModelIInv, NEW i \in Models!Slot, Models!Cleared(i)
  PROVE  ModelIInv'
<1> DEFINE p == handler[i].provider
<1>1. /\ handler[i].kind = "clear"
      /\ pinnedKey' = [j \in Project |-> [pinnedKey[j] EXCEPT ![p] = Models!None]]
      /\ handler' = [handler EXCEPT ![i] = Models!NoHandler]
      /\ UNCHANGED <<keys, activeKey, pinnedModel, inProject, modelOf, usedChats, steps,
                     overlapped, chosenModel, overwritten>>
  BY DEF Models!Cleared, Models!Waits
<1>2. /\ ModelTyped /\ OneOf(keys, activeKey) /\ ModelFlags /\ steps \in 0..MaxSteps
  BY DEF ModelIInv
<1>3. /\ handler[i] \in Handler /\ Fits(handler[i])
      /\ ~overlapped => ~overwritten /\ Alone(i) /\ WaitsFor(handler[i])
  BY <1>1, HandlerTurn DEF Models!None
<1>4. p \in Provider
  BY <1>1, <1>3 DEF Fits
<1>5. ~overlapped =>
        /\ AllRemembered
        /\ \A q \in Provider \ {p} : Agree(q) /\ \A j \in Project : Exist(j, q)
  BY <1>1, <1>3 DEF WaitsFor
<1> HIDE DEF p
<1>6. pinnedKey' \in [Project -> [Provider -> KeyOrNone]]
  BY <1>1, <1>2 DEF ModelTyped, ModelData, KeyOrNone
<1>7. ModelData' /\ ModelFlags' /\ (steps \in 0..MaxSteps)' /\ OneOf(keys, activeKey)'
  BY <1>1, <1>2, <1>6 DEF ModelTyped, ModelData, ModelFlags, OneOf
<1>8. ASSUME ~overlapped'
      PROVE  Alone(i) /\ ~overwritten' /\ (KeysAgree /\ KeysExist /\ AllRemembered)'
  <2>1. \A j \in Project, q \in Provider :
          pinnedKey'[j][q] = IF q = p THEN Models!None ELSE pinnedKey[j][q]
    BY <1>1, <1>2 DEF ModelTyped, ModelData
  <2>2. KeysAgree' /\ KeysExist' /\ AllRemembered'
    BY <1>1, <1>2, <1>5, <1>8, <2>1
       DEF KeysAgree, KeysExist, Agree, Exist, AllRemembered, ModelTyped, ModelData
  <2> QED BY <1>1, <1>3, <1>8, <2>2
<1> QED BY <1>1, <1>7, <1>8, NoHandlerTyped, TurnKept

(* switchProject, restoreProjectDefaults: the first key that is needed, or  *)
(* none is.                                                                 *)
LEMMA KeepSwitchProject ==
  ASSUME ModelIInv, NEW i \in Models!Slot, NEW j \in Project, Models!SwitchProject(i, j)
  PROVE  ModelIInv'
<1> DEFINE todo == pinnedKey[j]
<1>1. /\ Models!UserStep /\ inProject' = j
      /\ pinnedKey' = [pinnedKey EXCEPT ![j] =
                         [p \in Provider |-> IF pinnedKey[j][p] \in keys[p]
                                             THEN pinnedKey[j][p] ELSE Models!None]]
      /\ UNCHANGED <<keys, pinnedModel, chosenModel, overwritten>>
  BY DEF Models!SwitchProject
<1>2. /\ ModelTyped /\ OneOf(keys, activeKey) /\ ModelFlags
  BY DEF ModelIInv
<1>3. /\ overlapped' \in BOOLEAN /\ steps' \in 0..MaxSteps
      /\ ~overlapped' => /\ ~overwritten /\ KeysAgree /\ KeysExist /\ AllRemembered
                         /\ \A s \in Models!Slot : Alone(s)
  BY <1>1, UserTurn
<1>4. modelOf' \in [Project -> Provider \cup {Models!None}] /\ usedChats' \subseteq Project
  <2>1. /\ modelOf \in [Project -> Provider \cup {Models!None}] /\ usedChats \subseteq Project
    BY <1>2 DEF ModelTyped, ModelData
  <2>2. \/ UNCHANGED <<modelOf, usedChats>>
        \/ /\ \E m \in Provider : modelOf' = [modelOf EXCEPT ![j] = m]
           /\ usedChats' = usedChats \cup {j}
        \/ /\ modelOf' = [modelOf EXCEPT ![j] = Models!None]
           /\ usedChats' = usedChats \ {j}
    BY DEF Models!SwitchProject
  <2> QED BY <2>1, <2>2
<1>5. /\ keys \in [Provider -> SUBSET KeyName] /\ activeKey \in [Provider -> KeyOrNone]
      /\ pinnedKey \in [Project -> [Provider -> KeyOrNone]]
      /\ todo \in [Provider -> KeyOrNone]
  BY <1>2 DEF ModelTyped, ModelData
<1>6. pinnedKey' \in [Project -> [Provider -> KeyOrNone]]
  BY <1>1, <1>5 DEF KeyOrNone
<1>7. /\ \A k \in Project \ {j}, p \in Provider : pinnedKey'[k][p] = pinnedKey[k][p]
      /\ \A p \in Provider : pinnedKey'[j][p] = IF todo[p] \in keys[p] THEN todo[p]
                                                               ELSE Models!None
  BY <1>1, <1>5
<1>8. ~overlapped' => KeysExist' /\ AllRemembered'
  BY <1>1, <1>3, <1>5, <1>7 DEF KeysExist, Exist, AllRemembered
<1>9. PICK Q \in [Provider -> KeyOrNone] : Q = pinnedKey'[j]
  BY <1>6
<1>10. Restoring(keys, activeKey, Q, todo)
  BY <1>5, <1>7, <1>9 DEF Restoring, ToDo
<1>11. Models!Needed(todo) = ToDo(keys, activeKey, todo)
  BY DEF Models!Needed, ToDo
<1> HIDE DEF todo
<1>12. SUFFICES /\ activeKey' \in [Provider -> KeyOrNone] /\ OneOf(keys, activeKey')
                /\ \E h \in Handler :
                     /\ Fits(h) /\ handler' = [handler EXCEPT ![i] = h]
                     /\ ~overlapped' =>
                          /\ h = Models!NoHandler => KeysAgree'
                          /\ h # Models!NoHandler => WaitsFor(h)'
  <2>1. PICK h \in Handler :
          /\ Fits(h) /\ handler' = [handler EXCEPT ![i] = h]
          /\ ~overlapped' => /\ h = Models!NoHandler => KeysAgree'
                             /\ h # Models!NoHandler => WaitsFor(h)'
    BY <1>12
  <2>2. ModelData'
    BY <1>1, <1>2, <1>4, <1>6, <1>12 DEF ModelTyped, ModelData
  <2>3. OneOf(keys, activeKey)' /\ ModelFlags' /\ (steps \in 0..MaxSteps)'
    BY <1>1, <1>2, <1>3, <1>12 DEF OneOf, ModelFlags
  <2>4. ~overlapped' => /\ Alone(i) /\ ~overwritten'
                        /\ h = Models!NoHandler =>
                             (KeysAgree /\ KeysExist /\ AllRemembered)'
                        /\ h # Models!NoHandler => WaitsFor(h)'
    BY <1>1, <1>3, <1>8, <2>1
  <2> QED BY <2>1, <2>2, <2>3, <2>4, TurnKept
<1>13. CASE Models!RestoresKey(i, j, todo)
  <2>1. /\ activeKey' \in [Provider -> KeyOrNone] /\ OneOf(keys, activeKey')
        /\ \E h \in Handler :
              /\ Fits(h) /\ h # Models!NoHandler /\ h.kind = "restore" /\ h.project = j
              /\ handler' = [handler EXCEPT ![i] = h]
              /\ \A P \in [Provider -> KeyOrNone] :
                   Restoring(keys, activeKey, P, todo)
                     => Restoring(keys, activeKey', P, h.todo)
    BY <1>2, <1>5, <1>13, KeyRestored
  <2>2. PICK h \in Handler :
              /\ Fits(h) /\ h # Models!NoHandler /\ h.kind = "restore" /\ h.project = j
              /\ handler' = [handler EXCEPT ![i] = h]
              /\ \A P \in [Provider -> KeyOrNone] :
                   Restoring(keys, activeKey, P, todo)
                     => Restoring(keys, activeKey', P, h.todo)
    BY <2>1
  <2>3. ASSUME ~overlapped' PROVE WaitsFor(h)'
    <3>1. Restoring(keys, activeKey', Q, h.todo)
      BY <1>9, <1>10, <2>2
    <3>2. Restoring(keys, activeKey, pinnedKey[inProject], h.todo)'
      BY <1>1, <1>9, <3>1 DEF Restoring, ToDo
    <3> QED BY <1>1, <1>8, <2>2, <2>3, <3>2 DEF WaitsFor
  <2> QED BY <2>1, <2>2, <2>3
<1>14. CASE /\ Models!Needed(todo) = {} /\ UNCHANGED activeKey
            /\ Models!Waits(i, IF pinnedModel[j] = Models!None THEN Models!NoHandler
                  ELSE [Models!NoHandler EXCEPT !.kind = "restore", !.project = j])
  <2>1. activeKey' \in [Provider -> KeyOrNone] /\ OneOf(keys, activeKey')
    BY <1>2, <1>5, <1>14
  <2>2. PICK h : h = IF pinnedModel[j] = Models!None THEN Models!NoHandler
                     ELSE [Models!NoHandler EXCEPT !.kind = "restore", !.project = j]
    OBVIOUS
  <2>3. handler' = [handler EXCEPT ![i] = h]
    BY <1>14, <2>2 DEF Models!Waits
  <2>4. h \in Handler /\ h.todo = [p \in Provider |-> Models!None]
    BY <2>2, NoHandlerTyped DEF Handler
  <2>5. h = Models!NoHandler \/ (h.kind = "restore" /\ h.project = j)
    BY <2>2, NoHandlerTyped DEF Handler
  <2>6. Fits(h)
    BY <2>5, NoHandlerTyped DEF Fits
  <2>7. \A p \in Provider : Q[p] \in {Models!None, activeKey[p]}
    BY <1>10, <1>11, <1>14 DEF Restoring
  <2>8. ASSUME ~overlapped', h = Models!NoHandler PROVE KeysAgree'
    BY <1>1, <1>9, <1>14, <2>7 DEF KeysAgree, Agree
  <2>9. ASSUME ~overlapped', h # Models!NoHandler PROVE WaitsFor(h)'
    <3>1. ToDo(keys, activeKey, h.todo) = {}
      BY <1>5, <2>4, NoneApart DEF ToDo
    <3>2. Restoring(keys, activeKey, Q, h.todo)
      BY <2>7, <3>1 DEF Restoring
    <3>3. Restoring(keys, activeKey, pinnedKey[inProject], h.todo)'
      BY <1>1, <1>9, <1>14, <3>2 DEF Restoring, ToDo
    <3> QED BY <1>1, <1>8, <2>5, <2>9, <3>3 DEF WaitsFor
  <2> QED BY <2>1, <2>3, <2>4, <2>6, <2>8, <2>9
<1> QED
  <2>1. \/ Models!RestoresKey(i, j, todo)
        \/ /\ Models!Needed(todo) = {} /\ UNCHANGED activeKey
           /\ Models!Waits(i, IF pinnedModel[j] = Models!None THEN Models!NoHandler
                 ELSE [Models!NoHandler EXCEPT !.kind = "restore", !.project = j])
    BY Zenon DEF Models!SwitchProject, todo
  <2> QED BY <1>13, <1>14, <2>1

(* Every step of the models keeps the invariant.                            *)
LEMMA ModelStep == ModelIInv /\ [Models!ModelNext]_modelVars => ModelIInv'
<1> SUFFICES ASSUME ModelIInv, [Models!ModelNext]_modelVars PROVE ModelIInv'
  OBVIOUS
<1>1. CASE UNCHANGED modelVars
  <2>1. UNCHANGED <<keys, activeKey, pinnedKey, pinnedModel, inProject, modelOf, usedChats,
                    handler, steps, overlapped, chosenModel, overwritten>>
    BY <1>1 DEF modelVars
  <2>2. ModelTyped' /\ ModelFlags' /\ OneOf(keys, activeKey)' /\ (steps \in 0..MaxSteps)'
    BY <2>1 DEF ModelIInv, ModelTyped, ModelData, ModelFlags, OneOf
  <2>3. ASSUME ~overlapped' PROVE InTurn'
    <3>1. InTurn
      BY <2>1, <2>3 DEF ModelIInv
    <3>2. /\ KeysAgree' <=> KeysAgree
          /\ KeysExist' <=> KeysExist
          /\ AllRemembered' <=> AllRemembered
          /\ RememberedBut(inProject)' <=> RememberedBut(inProject)
      BY <2>1 DEF KeysAgree, KeysExist, AllRemembered, Agree, Exist, RememberedBut
    <3>3. ASSUME NEW k \in Models!Slot, handler'[k] # Models!NoHandler
          PROVE  (Alone(k) /\ WaitsFor(handler[k]))'
      <4>1. Alone(k) /\ WaitsFor(handler[k])
        BY <2>1, <3>1, <3>3 DEF InTurn
      <4>2. Alone(k)'
        BY <2>1, <4>1 DEF Alone
      <4>3. WaitsFor(handler[k])'
        BY <2>1, <4>1
           DEF WaitsFor, KeysAgree, KeysExist, AllRemembered, Agree, Exist, RememberedBut,
               Restoring, ToDo
      <4> QED BY <4>2, <4>3
    <3> QED BY <2>1, <3>1, <3>2, <3>3 DEF InTurn, Models!Calm
  <2> QED BY <2>2, <2>3 DEF ModelIInv
<1>2. CASE Models!ModelNext
  <2>1. ASSUME NEW i \in Models!Slot, Models!RestoreGoesOn(i) PROVE ModelIInv'
    BY <2>1, KeepRestoreGoesOn
  <2>2. ASSUME NEW i \in Models!Slot, Models!RestoreModel(i) PROVE ModelIInv'
    BY <2>2, KeepRestoreModel
  <2>3. ASSUME NEW i \in Models!Slot, Models!ChooseKey(i) PROVE ModelIInv'
    BY <2>3, KeepChooseKey
  <2>4. ASSUME NEW i \in Models!Slot, Models!Remembered(i) PROVE ModelIInv'
    BY <2>4, KeepRemembered
  <2>5. ASSUME NEW i \in Models!Slot, Models!Activated(i) PROVE ModelIInv'
    BY <2>5, KeepActivated
  <2>6. ASSUME NEW i \in Models!Slot, Models!Removed(i) PROVE ModelIInv'
    BY <2>6, KeepRemoved
  <2>7. ASSUME NEW i \in Models!Slot, Models!Cleared(i) PROVE ModelIInv'
    BY <2>7, KeepCleared
  <2>8. ASSUME NEW i \in Models!Slot, NEW j \in Project, Models!SwitchProject(i, j)
        PROVE  ModelIInv'
    BY <2>8, KeepSwitchProject
  <2>9. ASSUME NEW i \in Models!Slot, NEW p \in Provider,
               Models!ChooseModel(i, p) \/ Models!ClearKeys(i, p)
        PROVE  ModelIInv'
    BY <2>9, KeepChooseModel, KeepClearKeys
  <2>10. ASSUME NEW i \in Models!Slot, NEW p \in Provider, NEW k \in KeyName,
                \/ Models!AddKey(i, p, k)
                \/ Models!ActivateKey(i, p, k)
                \/ Models!RemoveKey(i, p, k)
         PROVE  ModelIInv'
    BY <2>10, KeepAddKey, KeepActivateKey, KeepRemoveKey
  <2> QED BY <1>2, <2>1, <2>2, <2>3, <2>4, <2>5, <2>6, <2>7, <2>8, <2>9, <2>10, KeepUseChat
          DEF Models!ModelNext
<1> QED BY <1>1, <1>2

(* The invariant implies the properties of the part.                        *)
LEMMA ModelHolds ==
  ModelIInv => /\ Models!ModelTypeOK /\ Models!PinnedKeysHold
               /\ Models!UsedChatKeepsModel /\ Models!ChosenIsRemembered
<1> SUFFICES ASSUME ModelIInv
             PROVE  /\ Models!ModelTypeOK /\ Models!PinnedKeysHold
                    /\ Models!UsedChatKeepsModel /\ Models!ChosenIsRemembered
  OBVIOUS
<1>1. /\ ModelTyped /\ OneOf(keys, activeKey) /\ ModelFlags /\ steps \in 0..MaxSteps
      /\ ~overlapped => InTurn
  BY DEF ModelIInv
<1>2. Models!ModelTypeOK
  <2>1. ASSUME NEW i \in Models!Slot
        PROVE  handler[i].kind \in {Models!None, "restore", "restoreModel", "choose",
                                    "chosen", "activate", "remove", "clear"}
    BY <1>1 DEF ModelTyped, Handler
  <2>2. {overlapped, overwritten} \subseteq BOOLEAN
    BY <1>1, Zenon DEF ModelFlags
  <2> QED BY <1>1, <2>1, <2>2
          DEF Models!ModelTypeOK, ModelTyped, ModelData, OneOf, KeyOrNone
<1>3. Models!PinnedKeysHold
  BY <1>1 DEF Models!PinnedKeysHold, InTurn, KeysAgree, KeysExist, Agree, Exist
<1>4. Models!UsedChatKeepsModel
  BY <1>1 DEF Models!UsedChatKeepsModel, InTurn
<1>5. Models!ChosenIsRemembered
  BY <1>1 DEF Models!ChosenIsRemembered, InTurn, AllRemembered
<1> QED BY <1>2, <1>3, <1>4, <1>5

-----------------------------------------------------------------------------
(* ModelsConfig                                                             *)

(* Types, and the inductive invariant: unless a save overtook a refresh,    *)
(* what was written by hand or typed is in the file.                        *)
ConfigModel == [is : BOOLEAN, name : Config!Name, cost : BOOLEAN]

ConfigFlags ==
  /\ waitsForList \in BOOLEAN /\ headersByHand \in BOOLEAN /\ keyTyped \in BOOLEAN
  /\ baseTyped \in BOOLEAN /\ overtaken \in BOOLEAN

ConfigTyped ==
  /\ entry \in Config!Entry /\ refreshing \in Config!Entry
  /\ typed \in [ListedModel -> Config!Name] /\ byHand \subseteq ListedModel

(* What the entry holds of what was written and typed; a refresh that       *)
(* nothing overtook merges the entry as it is.                              *)
EntryHolds ==
  /\ waitsForList => refreshing = entry
  /\ \A m \in byHand : entry.models[m].is /\ entry.models[m].cost
  /\ \A m \in ListedModel :
       typed[m] = "typed" => entry.models[m].is /\ entry.models[m].name = "typed"
  /\ entry.base => baseTyped

ConfigIInv ==
  /\ ConfigFlags /\ ConfigTyped /\ saves \in 0..MaxSaves
  /\ headersByHand => entry.headers
  /\ ~overtaken => EntryHolds

(* An entry and a model that are not there.                                 *)
LEMMA NoEntryTyped ==
  /\ Config!NoEntry \in Config!Entry /\ Config!NoModel \in ConfigModel
  /\ ~Config!NoEntry.base
BY DEF Config!NoEntry, Config!Entry, Config!NoModel, ConfigModel, Config!Name

(* The fields of an entry.                                                  *)
LEMMA EntryFields ==
  ASSUME NEW e \in Config!Entry
  PROVE  /\ e.is \in BOOLEAN /\ e.key \in BOOLEAN /\ e.base \in BOOLEAN
         /\ e.headers \in BOOLEAN /\ e.models \in [ListedModel -> ConfigModel]
         /\ \A m \in ListedModel : e.models[m] \in ConfigModel
BY DEF Config!Entry, ConfigModel

(* A listed model keeps a name that was typed.                              *)
LEMMA ModelFields ==
  ASSUME NEW m \in ConfigModel
  PROVE  /\ m.is \in BOOLEAN /\ m.cost \in BOOLEAN /\ m.name \in Config!Name
         /\ Config!WithListed(m, "listed") \in ConfigModel
         /\ Config!WithListed(m, "listed").is = m.is
         /\ Config!WithListed(m, "listed").cost = m.cost
         /\ m.name = "typed" => Config!WithListed(m, "listed").name = "typed"
BY DEF ConfigModel, Config!WithListed, Config!Name

(* mergeProviderModels: what the form has, with the headers and the costs   *)
(* that were written by hand.                                               *)
LEMMA MergedProperties ==
  ASSUME NEW prev \in Config!Entry, NEW config \in Config!Entry
  PROVE  \E e \in Config!Entry :
           /\ Config!Merged(prev, config) = e
           /\ e.headers = prev.headers /\ e.base = config.base
           /\ \A m \in ListedModel : config.models[m].is =>
                /\ e.models[m].is /\ e.models[m].name = config.models[m].name
                /\ prev.models[m].cost => e.models[m].cost
<1> DEFINE row(m) == [is |-> TRUE, name |-> config.models[m].name,
                      cost |-> prev.models[m].cost \/ config.models[m].cost]
           rows == [m \in ListedModel |->
                      IF ~config.models[m].is THEN Config!NoModel ELSE row(m)]
<1>1. Config!Merged(prev, config) =
        [is |-> TRUE, key |-> config.key, base |-> config.base, headers |-> prev.headers,
         models |-> rows]
  BY DEF Config!Merged
<1>2. ASSUME NEW m \in ListedModel
      PROVE  row(m) \in ConfigModel /\ row(m).is /\ row(m).name = config.models[m].name
             /\ row(m).cost = (prev.models[m].cost \/ config.models[m].cost)
  BY EntryFields, ModelFields DEF ConfigModel
<1>3. rows \in [ListedModel -> ConfigModel]
  BY <1>2, NoEntryTyped
<1>4. \A m \in ListedModel : config.models[m].is => rows[m] = row(m)
  OBVIOUS
<1> HIDE DEF rows, row
<1> DEFINE e == [is |-> TRUE, key |-> config.key, base |-> config.base,
                 headers |-> prev.headers, models |-> rows]
<1>5. e \in Config!Entry
  BY <1>3, EntryFields DEF Config!Entry, ConfigModel
<1>6. e.headers = prev.headers /\ e.base = config.base /\ e.models = rows
  OBVIOUS
<1> HIDE DEF e
<1>7. \A m \in ListedModel : config.models[m].is =>
        /\ e.models[m].is /\ e.models[m].name = config.models[m].name
        /\ prev.models[m].cost => e.models[m].cost
  BY <1>2, <1>4, <1>6
<1>8. Config!Merged(prev, config) = e
  BY <1>1 DEF e
<1> QED BY <1>5, <1>6, <1>7, <1>8

(* The file may have an entry that was written by hand.                     *)
LEMMA ConfigInitially == Config!ConfigInit => ConfigIInv
<1> SUFFICES ASSUME Config!ConfigInit PROVE ConfigIInv
  OBVIOUS
<1>1. ConfigFlags
  BY DEF Config!ConfigInit, ConfigFlags
<1>2. ConfigTyped /\ saves \in 0..MaxSaves
  <2>1. "" \in Config!Name
    BY DEF Config!Name
  <2>2. ConfigTyped
    BY <2>1, NoEntryTyped DEF Config!ConfigInit, ConfigTyped
  <2>3. saves \in 0..MaxSaves
    <3>1. saves = 0
      BY DEF Config!ConfigInit
    <3> QED BY <3>1, AdminBounds
  <2> QED BY <2>2, <2>3
<1>3. EntryHolds /\ ~headersByHand
  BY NoEntryTyped DEF Config!ConfigInit, EntryHolds
<1> QED BY <1>1, <1>2, <1>3 DEF ConfigIInv

(* A form is saved over the entry.                                          *)
LEMMA SaveFormKeeps ==
  ASSUME ConfigIInv, NEW models \in SUBSET ListedModel, NEW names \in SUBSET ListedModel,
         NEW key \in BOOLEAN, NEW base \in BOOLEAN,
         Config!SaveForm(models, names, key, base)
  PROVE  ConfigIInv'
<1> DEFINE row(m) == [is |-> m \in models,
                      name |-> IF m \in models \cap names THEN "typed" ELSE "",
                      cost |-> FALSE]
           config == [is |-> TRUE, key |-> key, base |-> base, headers |-> FALSE,
                      models |-> [m \in ListedModel |-> row(m)]]
<1>1. ConfigFlags /\ ConfigTyped
  BY DEF ConfigIInv
<1>2. /\ saves < MaxSaves /\ saves' = saves + 1
      /\ overtaken' = (overtaken \/ waitsForList)
      /\ entry' = Config!Merged(entry, config)
      /\ typed' = [m \in ListedModel |-> config.models[m].name]
      /\ byHand' = byHand \cap models /\ keyTyped' = key /\ baseTyped' = base
      /\ UNCHANGED <<refreshing, waitsForList, headersByHand>>
  BY DEF Config!SaveForm, Config!SaveStep, Config!Changed
<1>3. ASSUME NEW m \in ListedModel
      PROVE  row(m) \in ConfigModel
  BY DEF ConfigModel, Config!Name
<1>4. /\ config \in Config!Entry /\ config.base = base
      /\ \A m \in ListedModel : config.models[m] = row(m)
  BY <1>3 DEF Config!Entry, ConfigModel
<1>5. \A m \in ListedModel :
        /\ row(m).is <=> m \in models
        /\ row(m).name \in Config!Name
        /\ row(m).name = "typed" => row(m).is
  BY DEF Config!Name
<1> HIDE DEF row, config
<1>6. /\ entry' \in Config!Entry /\ entry'.headers = entry.headers /\ entry'.base = base
      /\ \A m \in ListedModel : row(m).is =>
           /\ entry'.models[m].is /\ entry'.models[m].name = row(m).name
           /\ entry.models[m].cost => entry'.models[m].cost
  BY <1>1, <1>2, <1>4, MergedProperties DEF ConfigTyped
<1>7. /\ typed' \in [ListedModel -> Config!Name]
      /\ \A m \in ListedModel : typed'[m] = row(m).name
  BY <1>2, <1>4, <1>5
<1>8. ConfigFlags'
  BY <1>1, <1>2 DEF ConfigFlags
<1>9. ConfigTyped'
  BY <1>1, <1>2, <1>6, <1>7 DEF ConfigTyped
<1>10. saves' \in 0..MaxSaves
  BY <1>2, AdminBounds DEF ConfigIInv
<1>11. headersByHand' => entry'.headers
  BY <1>2, <1>6 DEF ConfigIInv
<1>12. ASSUME ~overtaken' PROVE EntryHolds'
  <2>1. EntryHolds /\ ~waitsForList
    BY <1>2, <1>12 DEF ConfigIInv
  <2>2. \A m \in byHand' : m \in ListedModel /\ m \in byHand /\ m \in models
    BY <1>1, <1>2 DEF ConfigTyped
  <2>3. \A m \in byHand' : entry'.models[m].is /\ entry'.models[m].cost
    BY <1>5, <1>6, <2>1, <2>2 DEF EntryHolds
  <2>4. \A m \in ListedModel :
          typed'[m] = "typed" => entry'.models[m].is /\ entry'.models[m].name = "typed"
    BY <1>5, <1>6, <1>7
  <2> QED BY <1>2, <1>6, <2>1, <2>3, <2>4 DEF EntryHolds
<1> QED BY <1>8, <1>9, <1>10, <1>11, <1>12 DEF ConfigIInv

(* models.json is edited by hand, or the provider deleted.                  *)
LEMMA HandKeeps ==
  ASSUME ConfigIInv,
         Config!DeleteProvider \/ (\E m \in ListedModel : Config!HandEdit(m))
  PROVE  ConfigIInv'
<1>1. ConfigFlags /\ ConfigTyped
  BY DEF ConfigIInv
<1>2. CASE Config!DeleteProvider
  <2>1. /\ saves < MaxSaves /\ saves' = saves + 1
        /\ overtaken' = (overtaken \/ waitsForList)
        /\ entry' = Config!NoEntry /\ typed' = [m \in ListedModel |-> ""] /\ byHand' = {}
        /\ headersByHand' = FALSE /\ keyTyped' = FALSE /\ baseTyped' = FALSE
        /\ UNCHANGED <<refreshing, waitsForList>>
    BY <1>2 DEF Config!DeleteProvider, Config!SaveStep, Config!Changed
  <2>2. ConfigFlags' /\ saves' \in 0..MaxSaves
    <3>1. ConfigFlags'
      BY <1>1, <2>1 DEF ConfigFlags
    <3>2. saves' \in 0..MaxSaves
      <4>1. saves \in 0..MaxSaves
        BY DEF ConfigIInv
      <4>2. saves < MaxSaves /\ saves' = saves + 1
        BY <2>1
      <4> QED BY <4>1, <4>2, AdminBounds
    <3> QED BY <3>1, <3>2
  <2>3. ConfigTyped'
    BY <1>1, <2>1, NoEntryTyped DEF ConfigTyped, Config!Name
  <2>4. ~overtaken' => EntryHolds'
    BY <2>1, NoEntryTyped DEF EntryHolds
  <2> QED BY <2>1, <2>2, <2>3, <2>4 DEF ConfigIInv
<1>3. ASSUME NEW m \in ListedModel, Config!HandEdit(m) PROVE ConfigIInv'
  <2>1. /\ saves < MaxSaves /\ saves' = saves + 1
        /\ overtaken' = (overtaken \/ waitsForList) /\ entry.models[m].is
        /\ entry' = [entry EXCEPT !.headers = TRUE, !.models[m].cost = TRUE]
        /\ headersByHand' = TRUE /\ byHand' = byHand \cup {m}
        /\ UNCHANGED <<refreshing, waitsForList, typed, keyTyped, baseTyped>>
    BY <1>3 DEF Config!HandEdit, Config!SaveStep, Config!Changed
  <2> DEFINE row == [entry.models[m] EXCEPT !.cost = TRUE]
             rows == [entry.models EXCEPT ![m] = row]
  <2>2. entry.models \in [ListedModel -> ConfigModel] /\ entry.models[m] \in ConfigModel
    BY <1>1, EntryFields DEF ConfigTyped
  <2>3. row \in ConfigModel /\ row.is = entry.models[m].is /\ row.cost
        /\ row.name = entry.models[m].name
    BY <2>2 DEF ConfigModel
  <2>4. entry' = [entry EXCEPT !.headers = TRUE, !.models = rows]
    BY <2>1
  <2> HIDE DEF row
  <2>5. /\ rows \in [ListedModel -> ConfigModel] /\ rows[m] = row
        /\ \A n \in ListedModel : n # m => rows[n] = entry.models[n]
    BY <2>2, <2>3
  <2> HIDE DEF rows
  <2>6. entry' \in Config!Entry /\ entry'.headers /\ entry'.base = entry.base
        /\ entry'.models = rows
    BY <1>1, <2>4, <2>5 DEF ConfigTyped, Config!Entry, ConfigModel
  <2>7. ConfigFlags' /\ saves' \in 0..MaxSaves
    <3>1. ConfigFlags'
      BY <1>1, <2>1 DEF ConfigFlags
    <3>2. saves' \in 0..MaxSaves
      <4>1. saves \in 0..MaxSaves
        BY DEF ConfigIInv
      <4>2. saves < MaxSaves /\ saves' = saves + 1
        BY <2>1
      <4> QED BY <4>1, <4>2, AdminBounds
    <3> QED BY <3>1, <3>2
  <2>8. ConfigTyped'
    BY <1>1, <2>1, <2>6 DEF ConfigTyped
  <2>9. ASSUME ~overtaken' PROVE EntryHolds'
    <3>1. EntryHolds /\ ~waitsForList
      BY <2>1, <2>9 DEF ConfigIInv
    <3>2. \A n \in byHand' : entry'.models[n].is /\ entry'.models[n].cost
      BY <1>1, <2>1, <2>3, <2>5, <2>6, <3>1 DEF EntryHolds, ConfigTyped
    <3>3. \A n \in ListedModel :
            typed'[n] = "typed" => entry'.models[n].is /\ entry'.models[n].name = "typed"
      BY <2>1, <2>3, <2>5, <2>6, <3>1 DEF EntryHolds
    <3> QED BY <2>1, <2>6, <3>1, <3>2, <3>3 DEF EntryHolds
  <2> QED BY <2>1, <2>6, <2>7, <2>8, <2>9 DEF ConfigIInv
<1> QED BY <1>2, <1>3

(* A refresh reads the entry, and merges what it read with the list.        *)
LEMMA RefreshKeeps ==
  ASSUME ConfigIInv,
         \/ Config!Refresh \/ Config!RefreshFails
         \/ \E listed \in SUBSET ListedModel : Config!RefreshEnds(listed)
  PROVE  ConfigIInv'
<1>1. ConfigFlags /\ ConfigTyped
  BY DEF ConfigIInv
<1>2. UNCHANGED <<typed, byHand, headersByHand, keyTyped, baseTyped, overtaken>>
  BY DEF Config!Refresh, Config!RefreshFails, Config!RefreshEnds
<1>3. ConfigFlags'
  BY <1>1, <1>2 DEF ConfigFlags, Config!Refresh, Config!RefreshFails, Config!RefreshEnds
<1>4. saves' \in 0..MaxSaves
  <2>1. saves \in 0..MaxSaves
    BY DEF ConfigIInv
  <2>2. saves' = saves \/ (saves < MaxSaves /\ saves' = saves + 1)
    BY DEF Config!Refresh, Config!RefreshFails, Config!RefreshEnds, Config!SaveStep
  <2> QED BY <2>1, <2>2, AdminBounds
<1>5. CASE Config!Refresh
  <2>1. refreshing' = entry /\ UNCHANGED entry
    BY <1>5 DEF Config!Refresh
  <2>2. ConfigTyped'
    BY <1>1, <1>2, <2>1 DEF ConfigTyped
  <2> QED BY <1>2, <1>3, <1>4, <2>1, <2>2 DEF ConfigIInv, EntryHolds
<1>6. CASE Config!RefreshFails
  <2>1. refreshing' = Config!NoEntry /\ ~waitsForList' /\ UNCHANGED entry
    BY <1>6 DEF Config!RefreshFails
  <2>2. ConfigTyped'
    BY <1>1, <1>2, <2>1, NoEntryTyped DEF ConfigTyped
  <2> QED BY <1>2, <1>3, <1>4, <2>1, <2>2 DEF ConfigIInv, EntryHolds
<1>7. ASSUME NEW listed \in SUBSET ListedModel, Config!RefreshEnds(listed)
      PROVE  ConfigIInv'
  <2> DEFINE row(m) == LET cur == refreshing.models[m] IN
                         IF m \notin listed THEN cur
                         ELSE IF cur.is THEN Config!WithListed(cur, "listed")
                         ELSE [is |-> TRUE, name |-> "listed", cost |-> FALSE]
             config == [is |-> TRUE, key |-> FALSE, base |-> refreshing.base,
                        headers |-> FALSE, models |-> [m \in ListedModel |-> row(m)]]
  <2>1. /\ waitsForList /\ ~waitsForList' /\ refreshing' = Config!NoEntry
        /\ entry' = Config!Merged(entry, config)
    BY <1>7 DEF Config!RefreshEnds, Config!SavedBase
  <2>2. ASSUME NEW m \in ListedModel
        PROVE  /\ row(m) \in ConfigModel
               /\ refreshing.models[m].is => row(m).is
               /\ refreshing.models[m].is /\ refreshing.models[m].name = "typed"
                    => row(m).name = "typed"
    <3>1. refreshing.models[m] \in ConfigModel
      BY <1>1, EntryFields DEF ConfigTyped
    <3>2. [is |-> TRUE, name |-> "listed", cost |-> FALSE] \in ConfigModel
      BY DEF ConfigModel, Config!Name
    <3> QED BY <3>1, <3>2, ModelFields
  <2>3. refreshing.base \in BOOLEAN
    BY <1>1, EntryFields DEF ConfigTyped
  <2> HIDE DEF row
  <2>4. /\ config \in Config!Entry /\ config.base = refreshing.base
        /\ \A m \in ListedModel : config.models[m] = row(m)
    BY <2>2, <2>3 DEF Config!Entry, ConfigModel
  <2> HIDE DEF config
  <2>5. /\ entry' \in Config!Entry /\ entry'.headers = entry.headers
        /\ entry'.base = refreshing.base
        /\ \A m \in ListedModel : row(m).is =>
             /\ entry'.models[m].is /\ entry'.models[m].name = row(m).name
             /\ entry.models[m].cost => entry'.models[m].cost
    BY <1>1, <2>1, <2>4, MergedProperties DEF ConfigTyped
  <2>6. ConfigTyped'
    BY <1>1, <1>2, <2>1, <2>5, NoEntryTyped DEF ConfigTyped
  <2>7. ASSUME ~overtaken' PROVE EntryHolds'
    <3>1. EntryHolds /\ refreshing = entry
      BY <1>2, <2>1, <2>7 DEF ConfigIInv, EntryHolds
    <3>2. \A m \in byHand : entry'.models[m].is /\ entry'.models[m].cost
      BY <1>1, <2>2, <2>5, <3>1 DEF EntryHolds, ConfigTyped
    <3>3. \A m \in ListedModel :
            typed[m] = "typed" => entry'.models[m].is /\ entry'.models[m].name = "typed"
      BY <2>2, <2>5, <3>1 DEF EntryHolds
    <3> QED BY <1>2, <2>1, <2>5, <3>1, <3>2, <3>3 DEF EntryHolds
  <2> QED BY <1>2, <1>3, <1>4, <2>5, <2>6, <2>7 DEF ConfigIInv
<1> QED BY <1>5, <1>6, <1>7

(* Every step of the file keeps the invariant.                              *)
LEMMA ConfigStep == ConfigIInv /\ [Config!ConfigNext]_configVars => ConfigIInv'
<1>1. ConfigIInv /\ UNCHANGED configVars => ConfigIInv'
  BY DEF ConfigIInv, configVars, ConfigFlags, ConfigTyped, EntryHolds
<1> QED BY <1>1, SaveFormKeeps, HandKeeps, RefreshKeeps DEF Config!ConfigNext

(* The invariant implies the properties of the part.                        *)
LEMMA ConfigHolds ==
  ConfigIInv => /\ Config!ConfigTypeOK /\ Config!HandWrittenKept
                /\ Config!TypedNameKept /\ Config!OverlayKept
<1> SUFFICES ASSUME ConfigIInv
             PROVE  /\ Config!ConfigTypeOK /\ Config!HandWrittenKept
                    /\ Config!TypedNameKept /\ Config!OverlayKept
  OBVIOUS
<1>1. ConfigFlags /\ ConfigTyped /\ saves \in 0..MaxSaves
  BY DEF ConfigIInv
<1>2. {headersByHand, keyTyped, baseTyped, overtaken} \subseteq BOOLEAN
      /\ waitsForList \in BOOLEAN
  BY <1>1, Zenon DEF ConfigFlags
<1>3. Config!ConfigTypeOK
  BY <1>1, <1>2, Zenon DEF ConfigTyped, Config!ConfigTypeOK
<1>4. Config!HandWrittenKept /\ Config!TypedNameKept /\ Config!OverlayKept
  BY DEF ConfigIInv, EntryHolds, Config!HandWrittenKept, Config!TypedNameKept,
         Config!OverlayKept
<1> QED BY <1>3, <1>4

-----------------------------------------------------------------------------
(* The form of ModelsConfig                                                 *)

FormDraft  == [provider : FormProvider, rows : Config!Rows]
FormAnswer == [req : Nat, provider : FormProvider, ok : BOOLEAN]

FormFlags ==
  /\ open \in BOOLEAN /\ fetching \in BOOLEAN /\ again \in BOOLEAN /\ strayed \in BOOLEAN

FormTyped ==
  /\ formSaved \in [FormProvider -> Config!Rows]
  /\ draft = Config!NoDraft \/ (draft \in FormDraft /\ open)
  /\ fetchReqId \in Nat /\ handled \in Nat /\ message \in {"none", "ok", "error"}
  /\ result = Config!NoResult \/ result \in FormAnswer
  /\ probes \subseteq [req : Nat, provider : FormProvider]
  /\ answers \in Seq(FormAnswer)
  /\ formTyped \subseteq ListedModel /\ formSteps \in 0..MaxFormSteps

(* The one probe of a first visit that is under way, by its number and the  *)
(* provider that is asked.                                                  *)
UnderWay(n, p) ==
  \/ probes = {[req |-> n, provider |-> p]} /\ answers = <<>>
  \/ probes = {} /\ Len(answers) = 1 /\ answers[1].req = n /\ answers[1].provider = p

(* Until a modal that has asked is closed, one probe at most is under way,  *)
(* for the draft that is open if no other was opened meanwhile.             *)
FirstVisit ==
  /\ result.req <= fetchReqId /\ handled <= fetchReqId
  /\ ~open => fetchReqId = 0
  /\ fetching =>
       /\ handled < fetchReqId
       /\ \E p \in FormProvider :
            /\ UnderWay(fetchReqId, p)
            /\ ~strayed /\ draft # Config!NoDraft => draft.provider = p
  /\ ~fetching => probes = {} /\ answers = <<>>

FormIInv ==
  /\ FormFlags /\ FormTyped
  /\ Config!TypedIsKept /\ (~again => FirstVisit) /\ Config!FillsItsOwn

(* What stands for no draft and no answer is none.                          *)
LEMMA FormValues ==
  /\ Config!NoDraft \notin FormDraft /\ Config!NoDraft.rows \in Config!Rows
  /\ Config!NoDraft.provider = "none" /\ Config!NoResult.req = 0
  /\ \A d \in FormDraft : d # Config!NoDraft /\ d.provider \in FormProvider
                          /\ d.rows \in Config!Rows
  /\ \A r \in FormAnswer : r.req \in Nat /\ r.provider \in FormProvider /\ r.ok \in BOOLEAN
<1>1. Config!NoDraft.rows \in Config!Rows /\ Config!NoDraft.provider = "none"
  BY DEF Config!NoDraft, Config!Rows
<1>2. \A d \in FormDraft : d.provider \in FormProvider /\ d.rows \in Config!Rows
  BY DEF FormDraft
<1>3. Config!NoDraft \notin FormDraft
  BY <1>1, <1>2, AdminBounds
<1>4. Config!NoResult.req = 0
  BY DEF Config!NoResult
<1> QED BY <1>1, <1>2, <1>3, <1>4 DEF FormAnswer

(* The form is closed.                                                      *)
LEMMA FormInitially == Config!FormInit => FormIInv
<1> SUFFICES ASSUME Config!FormInit PROVE FormIInv
  OBVIOUS
<1>1. FormFlags
  BY DEF Config!FormInit, FormFlags
<1>2. /\ draft = Config!NoDraft /\ fetchReqId = 0 /\ handled = 0 /\ message = "none"
      /\ result = Config!NoResult /\ probes = {} /\ answers = <<>> /\ formTyped = {}
      /\ ~fetching /\ formSteps = 0
  BY DEF Config!FormInit
<1>3. formSaved \in [FormProvider -> Config!Rows]
  BY DEF Config!FormInit, Config!Rows
<1>4. FormTyped
  BY <1>2, <1>3, AdminBounds, EmptySeq DEF FormTyped
<1>5. FirstVisit /\ Config!TypedIsKept /\ Config!FillsItsOwn
  BY <1>2, FormValues DEF FirstVisit, Config!TypedIsKept, Config!FillsItsOwn
<1> QED BY <1>1, <1>4, <1>5 DEF FormIInv

(* What an endpoint offers fills rows that are absent or empty.             *)
LEMMA MergedRows ==
  ASSUME NEW rows \in Config!Rows, NEW offered
  PROVE  /\ Config!FilledIn(rows, offered) \in Config!Rows
         /\ \A m \in ListedModel :
              /\ rows[m] = "named" => Config!FilledIn(rows, offered)[m] = "named"
              /\ Config!FilledIn(rows, offered)[m] = "filled"
                   => rows[m] = "filled" \/ m \in offered
BY DEF Config!FilledIn, Config!Rows

(* An answer is applied once.                                               *)
LEMMA AppliesProperties ==
  ASSUME FormTyped, NEW r \in FormAnswer, Config!Applies(r)
  PROVE  /\ draft' = Config!NoDraft \/ (draft' \in FormDraft /\ open)
         /\ handled' \in Nat /\ message' \in {"none", "ok", "error"}
         /\ draft = Config!NoDraft <=> draft' = Config!NoDraft
         /\ draft # Config!NoDraft => draft'.provider = draft.provider
         /\ \A m \in ListedModel :
              /\ draft.rows[m] = "named" => draft'.rows[m] = "named"
              /\ draft'.rows[m] = "filled"
                   => \/ draft.rows[m] = "filled"
                      \/ r.req # 0 /\ r.req # handled /\ m \in FormOffers[r.provider]
         /\ IF r.req = 0 \/ r.req = handled THEN UNCHANGED <<fetching, handled>>
            ELSE fetching' = FALSE /\ handled' = r.req
<1>1. CASE r.req = 0 \/ r.req = handled
  <2>1. UNCHANGED <<draft, fetching, handled, message>>
    BY <1>1 DEF Config!Applies
  <2> QED BY <1>1, <2>1 DEF FormTyped
<1>2. CASE ~(r.req = 0 \/ r.req = handled)
  <2> DEFINE more == Config!FilledIn(draft.rows, FormOffers[r.provider])
  <2>1. /\ handled' = r.req /\ fetching' = FALSE /\ message' \in {"ok", "error"}
        /\ draft' = IF r.ok /\ draft # Config!NoDraft
                    THEN [draft EXCEPT !.rows = more] ELSE draft
    BY <1>2 DEF Config!Applies
  <2>2. r.req \in Nat
    BY FormValues
  <2>3. CASE r.ok /\ draft # Config!NoDraft
    <3>1. draft \in FormDraft /\ draft.rows \in Config!Rows /\ open
      BY <2>3, FormValues DEF FormTyped
    <3>2. /\ more \in Config!Rows
          /\ \A m \in ListedModel :
               /\ draft.rows[m] = "named" => more[m] = "named"
               /\ more[m] = "filled"
                    => draft.rows[m] = "filled" \/ m \in FormOffers[r.provider]
      BY <3>1, MergedRows
    <3> HIDE DEF more
    <3>3. draft' \in FormDraft /\ draft'.provider = draft.provider /\ draft'.rows = more
      BY <2>1, <2>3, <3>1, <3>2 DEF FormDraft
    <3> QED BY <1>2, <2>1, <2>2, <2>3, <3>1, <3>2, <3>3, FormValues
  <2>4. CASE ~(r.ok /\ draft # Config!NoDraft)
    <3>1. draft' = draft
      BY <2>1, <2>4
    <3> QED BY <1>2, <2>1, <2>2, <3>1 DEF FormTyped
  <2> QED BY <2>3, <2>4
<1> QED BY <1>1, <1>2

(* The invariant and its parts.                                             *)
LEMMA FormParts ==
  FormIInv <=> /\ FormFlags /\ FormTyped
               /\ Config!TypedIsKept /\ (~again => FirstVisit) /\ Config!FillsItsOwn
BY DEF FormIInv

(* The form opens: an answer from before is not its own.                    *)
LEMMA MountKeeps ==
  ASSUME FormIInv, Config!Mount PROVE FormIInv'
<1>1. FormFlags /\ FormTyped /\ (~again => FirstVisit)
  BY DEF FormIInv
<1>2. /\ ~open /\ open' = TRUE /\ fetchReqId' = 0 /\ fetching' = FALSE
      /\ draft' = Config!NoDraft /\ handled' = result.req
      /\ message' \in {"none", "ok", "error"}
      /\ UNCHANGED <<formSaved, result, probes, answers, formTyped, again, strayed>>
  BY DEF Config!Mount, Config!net
<1>3. FormFlags'
  BY <1>1, <1>2 DEF FormFlags
<1>4. formSteps' \in 0..MaxFormSteps
  BY <1>1, AdminBounds DEF Config!Mount, Config!FormStep, FormTyped
<1>5. handled' \in Nat
  BY <1>1, <1>2, FormValues DEF FormTyped
<1>6. FormTyped'
  BY <1>1, <1>2, <1>4, <1>5 DEF FormTyped
<1>7. Config!TypedIsKept' /\ Config!FillsItsOwn'
  BY <1>2 DEF Config!TypedIsKept, Config!FillsItsOwn
<1>8. ASSUME ~again' PROVE FirstVisit'
  <2>1. FirstVisit /\ fetchReqId = 0
    BY <1>1, <1>2, <1>8 DEF FirstVisit
  <2>2. result.req \in Nat /\ result.req <= 0
    BY <1>1, <2>1, FormValues DEF FirstVisit, FormTyped
  <2>3. ~fetching
    BY <1>1, <2>1 DEF FirstVisit, FormTyped
  <2> QED BY <1>2, <2>1, <2>2, <2>3 DEF FirstVisit
<1> QED BY <1>3, <1>6, <1>7, <1>8, FormParts DEF FormIInv

(* The modal is closed, or its form saved.                                  *)
LEMMA UnmountKeeps ==
  ASSUME FormIInv, Config!Close \/ Config!Save PROVE FormIInv'
<1>1. FormFlags /\ FormTyped /\ (~again => FirstVisit)
  BY DEF FormIInv
<1>2. /\ open' = FALSE /\ draft' = Config!NoDraft /\ fetching' = FALSE /\ formTyped' = {}
      /\ again' = (again \/ fetchReqId # 0)
      /\ UNCHANGED <<fetchReqId, handled, message, result, probes, answers, strayed>>
  BY DEF Config!Close, Config!Save, Config!Unmount, Config!net
<1>3. FormFlags'
  BY <1>1, <1>2 DEF FormFlags
<1>4. formSteps' \in 0..MaxFormSteps
  BY <1>1, AdminBounds DEF Config!Close, Config!Save, Config!FormStep, FormTyped
<1>5. formSaved' \in [FormProvider -> Config!Rows]
  <2>1. CASE Config!Close
    BY <1>1, <2>1 DEF Config!Close, FormTyped
  <2>2. CASE Config!Save
    <3>1. draft \in FormDraft /\ formSaved' = [formSaved EXCEPT ![draft.provider] = draft.rows]
      BY <1>1, <2>2 DEF Config!Save, FormTyped
    <3> QED BY <1>1, <3>1, FormValues DEF FormTyped
  <2> QED BY <2>1, <2>2
<1>6. FormTyped'
  BY <1>1, <1>2, <1>4, <1>5 DEF FormTyped
<1>7. Config!TypedIsKept' /\ Config!FillsItsOwn'
  BY <1>2 DEF Config!TypedIsKept, Config!FillsItsOwn
<1>8. ASSUME ~again' PROVE FirstVisit'
  <2>1. FirstVisit /\ fetchReqId = 0
    BY <1>1, <1>2, <1>8
  <2>2. ~fetching
    BY <1>1, <2>1 DEF FirstVisit, FormTyped
  <2> QED BY <1>2, <2>1, <2>2 DEF FirstVisit
<1> QED BY <1>3, <1>6, <1>7, <1>8, FormParts DEF FormIInv

(* A draft is opened, left, or a row of it edited.                          *)
LEMMA DraftKeeps ==
  ASSUME FormIInv,
         \/ \E p \in FormProvider : Config!Edit(p)
         \/ Config!Cancel
         \/ \E m \in ListedModel, what \in {"none", "bare", "named"} : Config!EditRow(m, what)
  PROVE  FormIInv'
<1>1. /\ FormFlags /\ FormTyped /\ (~again => FirstVisit)
      /\ Config!TypedIsKept /\ Config!FillsItsOwn
  BY DEF FormIInv
<1>2. /\ UNCHANGED <<formSaved, open, fetching, fetchReqId, handled, message, result,
                     probes, answers, again>>
      /\ strayed' \in BOOLEAN /\ (strayed => strayed')
  BY <1>1 DEF Config!Edit, Config!Cancel, Config!EditRow, Config!net, FormFlags
<1>3. FormFlags'
  BY <1>1, <1>2 DEF FormFlags
<1>4. formSteps' \in 0..MaxFormSteps
  BY <1>1, AdminBounds DEF Config!Edit, Config!Cancel, Config!EditRow, Config!FormStep, FormTyped
<1>5. ASSUME draft' = Config!NoDraft \/ (draft' \in FormDraft /\ open), formTyped' \subseteq ListedModel,
             Config!TypedIsKept', Config!FillsItsOwn',
             fetching /\ ~strayed' /\ draft' # Config!NoDraft
               => draft # Config!NoDraft /\ draft'.provider = draft.provider
      PROVE  FormIInv'
  <2>1. FormTyped'
    BY <1>1, <1>2, <1>4, <1>5 DEF FormTyped
  <2>2. ASSUME ~again' PROVE FirstVisit'
    <3>1. FirstVisit
      BY <1>1, <1>2, <2>2
    <3>2. ~fetching' => probes' = {} /\ answers' = <<>>
      BY <1>2, <3>1 DEF FirstVisit
    <3>3. ASSUME fetching' PROVE handled' < fetchReqId' /\ \E p \in FormProvider :
            /\ UnderWay(fetchReqId, p)'
            /\ ~strayed' /\ draft' # Config!NoDraft => draft'.provider = p
      <4>1. PICK p \in FormProvider :
              /\ UnderWay(fetchReqId, p)
              /\ ~strayed /\ draft # Config!NoDraft => draft.provider = p
        BY <1>2, <3>1, <3>3 DEF FirstVisit
      <4>2. UnderWay(fetchReqId, p)'
        BY <1>2, <4>1 DEF UnderWay
      <4>3. ~strayed' /\ draft' # Config!NoDraft => draft'.provider = p
        BY <1>2, <1>5, <3>3, <4>1
      <4>4. handled' < fetchReqId'
        BY <1>2, <3>1, <3>3 DEF FirstVisit
      <4> QED BY <4>2, <4>3, <4>4
    <3> QED BY <1>2, <3>1, <3>2, <3>3 DEF FirstVisit, UnderWay
  <2> QED BY <1>3, <1>5, <2>1, <2>2 DEF FormIInv
<1>6. ASSUME NEW p \in FormProvider, Config!Edit(p) PROVE FormIInv'
  <2>1. /\ draft' = [provider |-> p, rows |-> formSaved[p]] /\ open
        /\ formTyped' = {m \in ListedModel : formSaved[p][m] = "named"}
        /\ strayed' = (strayed \/ fetching)
    BY <1>6 DEF Config!Edit, Config!DraftOf
  <2>2. draft' \in FormDraft /\ draft'.provider = p /\ draft'.rows = formSaved[p]
    BY <1>1, <2>1 DEF FormDraft, FormTyped
  <2>3. Config!TypedIsKept'
    BY <2>1, <2>2 DEF Config!TypedIsKept
  <2>4. Config!FillsItsOwn'
    BY <1>2, <2>2 DEF Config!FillsItsOwn, Config!Offered
  <2> QED BY <1>5, <2>1, <2>2, <2>3, <2>4
<1>7. ASSUME Config!Cancel PROVE FormIInv'
  <2>1. draft' = Config!NoDraft /\ formTyped' = {}
    BY <1>7 DEF Config!Cancel
  <2>2. Config!TypedIsKept' /\ Config!FillsItsOwn'
    BY <2>1 DEF Config!TypedIsKept, Config!FillsItsOwn
  <2> QED BY <1>5, <2>1, <2>2
<1>8. ASSUME NEW m \in ListedModel, NEW what \in {"none", "bare", "named"},
             Config!EditRow(m, what)
      PROVE  FormIInv'
  <2>1. /\ draft # Config!NoDraft /\ draft' = [draft EXCEPT !.rows[m] = what]
        /\ formTyped' = (IF what = "named" THEN formTyped \cup {m} ELSE formTyped \ {m})
        /\ strayed' = strayed
    BY <1>8 DEF Config!EditRow
  <2>2. draft \in FormDraft /\ draft.rows \in Config!Rows /\ open
    BY <1>1, <2>1, FormValues DEF FormTyped
  <2>3. /\ draft' \in FormDraft /\ draft'.provider = draft.provider
        /\ draft'.rows = [draft.rows EXCEPT ![m] = what]
    BY <2>1, <2>2 DEF FormDraft, Config!Rows
  <2>4. \A n \in ListedModel : draft'.rows[n] = IF n = m THEN what ELSE draft.rows[n]
    BY <2>2, <2>3 DEF Config!Rows
  <2>5. formTyped' \subseteq ListedModel
    BY <1>1, <2>1 DEF FormTyped
  <2>6. Config!TypedIsKept'
    BY <1>1, <2>1, <2>4, <2>5 DEF Config!TypedIsKept, FormTyped
  <2>7. Config!FillsItsOwn'
    BY <1>1, <1>2, <2>1, <2>3, <2>4 DEF Config!FillsItsOwn, Config!Offered
  <2> QED BY <1>5, <2>1, <2>2, <2>3, <2>5, <2>6, <2>7
<1> QED BY <1>6, <1>7, <1>8

(* The models of an endpoint are asked for.                                 *)
LEMMA FetchKeeps ==
  ASSUME FormIInv, Config!FetchModels PROVE FormIInv'
<1>1. /\ FormFlags /\ FormTyped /\ (~again => FirstVisit)
      /\ Config!TypedIsKept /\ Config!FillsItsOwn
  BY DEF FormIInv
<1> DEFINE asked == [req |-> fetchReqId + 1, provider |-> draft.provider]
<1>2. /\ draft # Config!NoDraft /\ ~fetching /\ fetching' = TRUE /\ message' = "none"
      /\ fetchReqId' = fetchReqId + 1 /\ probes' = probes \cup {asked}
      /\ UNCHANGED <<formSaved, open, draft, handled, result, answers, formTyped, again,
                     strayed>>
  BY DEF Config!FetchModels, Config!NextReq
<1>3. FormFlags'
  BY <1>1, <1>2 DEF FormFlags
<1>4. formSteps' \in 0..MaxFormSteps
  BY <1>1, AdminBounds DEF Config!FetchModels, Config!FormStep, FormTyped
<1>5. draft.provider \in FormProvider /\ fetchReqId' \in Nat
  BY <1>1, <1>2, FormValues DEF FormTyped
<1>6. asked \in [req : Nat, provider : FormProvider]
  BY <1>2, <1>5
<1>7. FormTyped'
  BY <1>1, <1>2, <1>4, <1>5, <1>6 DEF FormTyped
<1>8. Config!TypedIsKept' /\ Config!FillsItsOwn'
  BY <1>1, <1>2 DEF Config!TypedIsKept, Config!FillsItsOwn, Config!Offered
<1>9. ASSUME ~again' PROVE FirstVisit'
  <2>1. FirstVisit /\ probes = {} /\ answers = <<>>
    BY <1>1, <1>2, <1>9 DEF FirstVisit
  <2>2. result.req \in Nat
    BY <1>1, FormValues DEF FormTyped
  <2>3. result'.req <= fetchReqId' /\ handled' < fetchReqId' /\ handled' <= fetchReqId'
    BY <1>1, <1>2, <2>1, <2>2 DEF FirstVisit, FormTyped
  <2>4. open'
    BY <1>1, <1>2 DEF FormTyped
  <2>5. probes' = {[req |-> fetchReqId', provider |-> draft.provider]} /\ answers' = <<>>
    BY <1>2, <2>1
  <2> QED BY <1>2, <1>5, <2>3, <2>4, <2>5 DEF FirstVisit, UnderWay
<1> QED BY <1>3, <1>7, <1>8, <1>9 DEF FormIInv

(* The endpoint has answered, or failed to.                                 *)
LEMMA ProbeKeeps ==
  ASSUME FormIInv, NEW p \in probes, NEW ok \in BOOLEAN, Config!ProbeEnds(p, ok)
  PROVE  FormIInv'
<1>1. /\ FormFlags /\ FormTyped /\ (~again => FirstVisit)
      /\ Config!TypedIsKept /\ Config!FillsItsOwn
  BY DEF FormIInv
<1> DEFINE said == [req |-> p.req, provider |-> p.provider, ok |-> ok]
<1>2. /\ probes' = probes \ {p} /\ answers' = Append(answers, said)
      /\ UNCHANGED <<formSaved, open, draft, fetching, fetchReqId, handled, message, result,
                     formTyped, again, strayed, formSteps>>
  BY DEF Config!ProbeEnds
<1>3. p.req \in Nat /\ p.provider \in FormProvider
  BY <1>1 DEF FormTyped
<1>4. said \in FormAnswer /\ said.req = p.req /\ said.provider = p.provider
  BY <1>3 DEF FormAnswer
<1> HIDE DEF said
<1>5. answers' \in Seq(FormAnswer)
  BY <1>1, <1>2, <1>4, AppendProperties DEF FormTyped
<1>6. FormTyped'
  BY <1>1, <1>2, <1>5 DEF FormTyped
<1>7. FormFlags' /\ Config!TypedIsKept' /\ Config!FillsItsOwn'
  BY <1>1, <1>2 DEF FormFlags, Config!TypedIsKept, Config!FillsItsOwn, Config!Offered
<1>8. ASSUME ~again' PROVE FirstVisit'
  <2>1. FirstVisit /\ fetching
    BY <1>1, <1>2, <1>8 DEF FirstVisit, FormFlags
  <2>2. PICK q \in FormProvider :
          /\ UnderWay(fetchReqId, q)
          /\ ~strayed /\ draft # Config!NoDraft => draft.provider = q
    BY <2>1 DEF FirstVisit
  <2>3. p = [req |-> fetchReqId, provider |-> q] /\ probes' = {} /\ answers = <<>>
    BY <1>2, <2>2 DEF UnderWay
  <2>4. Len(answers') = 1 /\ answers'[1] = said
    BY <1>2, <1>4, <2>3, EmptySeq, AppendProperties
  <2>5. UnderWay(fetchReqId, q)'
    BY <1>2, <1>4, <2>3, <2>4 DEF UnderWay
  <2> QED BY <1>2, <2>1, <2>2, <2>5 DEF FirstVisit
<1> QED BY <1>6, <1>7, <1>8 DEF FormIInv

(* An answer reaches the page.                                              *)
LEMMA ArriveKeeps ==
  ASSUME FormIInv, Config!Arrive PROVE FormIInv'
<1>1. /\ FormFlags /\ FormTyped /\ (~again => FirstVisit)
      /\ Config!TypedIsKept /\ Config!FillsItsOwn
  BY DEF FormIInv
<1> DEFINE r == Head(answers)
<1>2. /\ answers # <<>> /\ answers' = Tail(answers) /\ result' = r
      /\ IF open THEN Config!Applies(r) ELSE UNCHANGED <<draft, fetching, handled, message>>
      /\ UNCHANGED <<formSaved, open, fetchReqId, probes, formTyped, again, strayed,
                     formSteps>>
  BY DEF Config!Arrive
<1>3. /\ r \in FormAnswer /\ answers' \in Seq(FormAnswer)
      /\ r = answers[1] /\ Len(answers') = Len(answers) - 1 /\ Len(answers) \in Nat
      /\ Len(answers) = 0 <=> answers = <<>>
      /\ Len(answers') = 0 <=> answers' = <<>>
  <2>1. answers \in Seq(FormAnswer) /\ answers # <<>> /\ answers' = Tail(answers)
    BY <1>1, <1>2 DEF FormTyped
  <2>2. r \in FormAnswer /\ answers' \in Seq(FormAnswer)
        /\ Len(answers') = Len(answers) - 1
    BY <2>1, HeadTailProperties
  <2>3. r = answers[1]
    BY <2>1
  <2>4. /\ Len(answers) \in Nat
        /\ Len(answers) = 0 <=> answers = <<>>
        /\ Len(answers') = 0 <=> answers' = <<>>
    BY <2>1, <2>2, EmptySeq, LenProperties
  <2> QED BY <2>2, <2>3, <2>4
<1> HIDE DEF r
<1>4. /\ draft' = Config!NoDraft \/ (draft' \in FormDraft /\ open)
      /\ handled' \in Nat /\ message' \in {"none", "ok", "error"}
      /\ (draft = Config!NoDraft <=> draft' = Config!NoDraft)
      /\ draft # Config!NoDraft => draft'.provider = draft.provider
      /\ \A m \in ListedModel :
           /\ draft.rows[m] = "named" => draft'.rows[m] = "named"
           /\ draft'.rows[m] = "filled"
                => \/ draft.rows[m] = "filled"
                   \/ open /\ r.req # 0 /\ r.req # handled /\ m \in FormOffers[r.provider]
      /\ IF ~open \/ r.req = 0 \/ r.req = handled THEN UNCHANGED <<fetching, handled>>
         ELSE fetching' = FALSE /\ handled' = r.req
  <2>1. CASE open
    BY <1>1, <1>2, <1>3, <2>1, AppliesProperties
  <2>2. CASE ~open
    BY <1>1, <1>2, <2>2 DEF FormTyped
  <2> QED BY <2>1, <2>2
<1>5. FormFlags'
  BY <1>1, <1>2, <1>4 DEF FormFlags
<1>6. FormTyped'
  BY <1>1, <1>2, <1>3, <1>4 DEF FormTyped
<1>7. Config!TypedIsKept'
  BY <1>1, <1>2, <1>4 DEF Config!TypedIsKept, FormTyped
<1>8. ASSUME ~again, FirstVisit
      PROVE  /\ fetching /\ handled < fetchReqId /\ r.req = fetchReqId
             /\ probes = {} /\ answers' = <<>>
             /\ ~strayed /\ draft # Config!NoDraft => draft.provider = r.provider
  <2>1. fetching
    BY <1>1, <1>2, <1>8 DEF FirstVisit, FormFlags
  <2>2. PICK q \in FormProvider :
          /\ UnderWay(fetchReqId, q)
          /\ ~strayed /\ draft # Config!NoDraft => draft.provider = q
    BY <1>8, <2>1 DEF FirstVisit
  <2>3. probes = {} /\ Len(answers) = 1 /\ r.req = fetchReqId /\ r.provider = q
    BY <1>2, <1>3, <2>2 DEF UnderWay
  <2>4. answers' = <<>>
    BY <1>3, <2>3
  <2> QED BY <1>8, <2>1, <2>2, <2>3, <2>4 DEF FirstVisit
<1>9. ASSUME ~again' PROVE FirstVisit'
  <2>1. ~again /\ FirstVisit
    BY <1>1, <1>2, <1>9
  <2>2. /\ fetching /\ handled < fetchReqId /\ r.req = fetchReqId
        /\ probes = {} /\ answers' = <<>>
    BY <1>8, <2>1
  <2>3. handled \in Nat /\ fetchReqId \in Nat
    BY <1>1 DEF FormTyped
  <2>4. open /\ fetchReqId # 0 /\ r.req # handled
    BY <2>1, <2>2, <2>3 DEF FirstVisit
  <2>5. fetching' = FALSE /\ handled' = fetchReqId
    BY <1>4, <2>2, <2>4
  <2>6. result'.req <= fetchReqId' /\ handled' <= fetchReqId'
    BY <1>2, <2>2, <2>3, <2>5
  <2> QED BY <1>2, <2>2, <2>4, <2>5, <2>6 DEF FirstVisit
<1>10. Config!FillsItsOwn'
  <2> SUFFICES ASSUME draft' # Config!NoDraft, ~strayed', ~again', NEW m \in ListedModel,
                      draft'.rows[m] = "filled"
               PROVE  m \in Config!Offered(draft.provider)'
    BY Zenon DEF Config!FillsItsOwn
  <2>1. /\ draft # Config!NoDraft /\ ~strayed /\ ~again /\ FirstVisit
        /\ draft'.provider = draft.provider
    BY <1>1, <1>2, <1>4
  <2>2. draft.provider = r.provider
    BY <1>8, <2>1
  <2>3. draft.rows[m] = "filled" \/ m \in FormOffers[draft.provider]
    BY <1>4, <2>2
  <2>4. m \in Config!Offered(draft.provider)
    BY <1>1, <2>1, <2>3 DEF Config!FillsItsOwn, Config!Offered
  <2> QED BY <1>2, <2>1, <2>4 DEF Config!Offered
<1> QED BY <1>5, <1>6, <1>7, <1>9, <1>10 DEF FormIInv

(* Every step of the form keeps the invariant.                              *)
LEMMA FormStep == FormIInv /\ [Config!FormNext]_formVars => FormIInv'
<1>1. FormIInv /\ UNCHANGED formVars => FormIInv'
  BY DEF FormIInv, formVars, FormFlags, FormTyped, FirstVisit, UnderWay,
         Config!TypedIsKept, Config!FillsItsOwn, Config!Offered
<1> QED
  BY <1>1, MountKeeps, UnmountKeeps, DraftKeeps, FetchKeeps, ProbeKeeps, ArriveKeeps
  DEF Config!FormNext

(* The invariant implies the properties of the part.                        *)
LEMMA FormHolds ==
  FormIInv => /\ Config!FormTypeOK /\ Config!TypedIsKept
              /\ Config!FetchComesBack /\ Config!FillsItsOwn
<1> SUFFICES ASSUME FormIInv
             PROVE  /\ Config!FormTypeOK /\ Config!TypedIsKept
                    /\ Config!FetchComesBack /\ Config!FillsItsOwn
  OBVIOUS
<1>1. /\ FormFlags /\ FormTyped /\ (~again => FirstVisit)
      /\ Config!TypedIsKept /\ Config!FillsItsOwn
  BY DEF FormIInv
<1>2. {open, fetching, again, strayed} \subseteq BOOLEAN
  BY <1>1, Zenon DEF FormFlags
<1>3. draft.provider \in FormProvider \cup {"none"} /\ draft.rows \in Config!Rows
  BY <1>1, FormValues DEF FormTyped
<1>4. \A p \in probes : p.req \in Nat /\ p.provider \in FormProvider
  BY <1>1 DEF FormTyped
<1>5. Config!FormTypeOK
  BY <1>1, <1>2, <1>3, <1>4, Zenon DEF FormTyped, Config!FormTypeOK
<1>6. Config!FetchComesBack
  <2> SUFFICES ASSUME fetching, ~again
               PROVE  fetchReqId \in Config!Awaited /\ fetchReqId # handled
    BY DEF Config!FetchComesBack
  <2>1. PICK q \in FormProvider : UnderWay(fetchReqId, q)
    BY <1>1 DEF FirstVisit
  <2>2. handled < fetchReqId /\ handled \in Nat /\ fetchReqId \in Nat
    BY <1>1 DEF FirstVisit, FormTyped
  <2>3. CASE probes = {[req |-> fetchReqId, provider |-> q]}
    <3>1. \E p \in probes : p.req = fetchReqId
      BY <2>3
    <3> QED BY <2>2, <3>1 DEF Config!Awaited
  <2>4. CASE Len(answers) = 1 /\ answers[1].req = fetchReqId
    <3>1. 1 \in DOMAIN answers
      BY <1>1, <2>4, LenProperties DEF FormTyped
    <3> QED BY <2>2, <2>4, <3>1 DEF Config!Awaited
  <2> QED BY <2>1, <2>3, <2>4 DEF UnderWay
<1> QED BY <1>1, <1>5, <1>6

-----------------------------------------------------------------------------
(* ModelsKept, of the three parts: the keys pinned to a project are the     *)
(* active ones in it and exist, a chat that has messages keeps its model,   *)
(* the model chosen last is remembered; what was written by hand or typed   *)
(* survives saves, refreshes and fetches.                                   *)
THEOREM ModelsAreKept == Spec => []ModelsKept
<1> DEFINE IInv == ModelIInv /\ ConfigIInv /\ FormIInv
<1>1. Init => IInv
  BY ModelInitially, ConfigInitially, FormInitially DEF Init
<1>2. /\ [Next]_vars => [Models!ModelNext]_modelVars
      /\ [Next]_vars => [Config!ConfigNext]_configVars
      /\ [Next]_vars => [Config!FormNext]_formVars
  BY DEF Next, Rest, vars, modelVars, configVars, formVars
<1>3. IInv /\ [Next]_vars => IInv'
  BY <1>2, ModelStep, ConfigStep, FormStep
<1>4. IInv => ModelsKept
  BY ModelHolds, ConfigHolds, FormHolds DEF ModelsKept
<1> QED BY <1>1, <1>3, <1>4, PTL DEF Spec
==============================================================================
