----------------------------- MODULE BgServers -----------------------------
(***************************************************************************)
(* The servers a bash command leaves running in the background (class      *)
(* BgServerTracker): the listening ports are snapshotted before and after  *)
(* each bash tool call, and the difference, without the programs the agent *)
(* cannot have started, is the list of the Background panel.  All the      *)
(* conversations of a client share one tracker and one "before" snapshot.  *)
(***************************************************************************)
EXTENDS Naturals, FiniteSets

CONSTANTS
  Bash,        \* bash calls, each made once
  Port,
  MaxProcs     \* bound: processes that open a port

VARIABLES
  listening,   \* [Port -> the process that listens on it, or 0]
  procs,       \* processes so far
  owner,       \* what each process descends from: a bash call, "desktop", or
               \* "unknown" when the chain of parents is broken
  servers,     \* BgServerTracker.servers: [Port -> pid, or 0]
  listenBefore,\* the ports of the last "before" snapshot, or NoSnapshot
  bash,        \* progress of each call
  snapping,    \* calls whose "before" snapshot is still being taken
  before,      \* the snapshot trackAfterBash has taken over
  seen,        \* ports that were open when the call's own snapshot was taken
  surely,      \* calls whose own "before" snapshot preceded every port they
               \* opened, and which no other call overlapped
  killed       \* pids killed through the panel

bgVars == <<listening, procs, owner, servers, listenBefore, bash, snapping,
            before, seen, surely, killed>>

Pid == 1..MaxProcs
NoSnapshot == [taken |-> FALSE, ports |-> {}]
Snapshot == [taken |-> TRUE, ports |-> {p \in Port : listening[p] # 0}]

Stage == {"none", "running", "binding", "done"}

BgTypeOK ==
  /\ listening \in [Port -> 0..MaxProcs] /\ servers \in [Port -> 0..MaxProcs]
  /\ procs \in 0..MaxProcs
  /\ owner \in [Pid -> Bash \cup {"none", "desktop", "unknown"}]
  /\ listenBefore \in [taken : BOOLEAN, ports : SUBSET Port]
  /\ bash \in [Bash -> Stage]
  /\ before \in [Bash -> [taken : BOOLEAN, ports : SUBSET Port]]
  /\ seen \in [Bash -> SUBSET Port]
  /\ snapping \subseteq Bash /\ surely \subseteq Bash /\ killed \subseteq Pid

BgInit ==
  /\ listening = [p \in Port |-> 0] /\ procs = 0
  /\ owner = [i \in Pid |-> "none"]
  /\ servers = [p \in Port |-> 0]
  /\ listenBefore = NoSnapshot
  /\ bash = [b \in Bash |-> "none"] /\ before = [b \in Bash |-> NoSnapshot]
  /\ seen = [b \in Bash |-> {}] /\ snapping = {} /\ surely = {} /\ killed = {}

InFlight == {b \in Bash : bash[b] = "running" \/ b \in snapping}

(* tool_execution_start: the snapshot is asked for, not awaited.            *)
BashStart(b) ==
  /\ bash[b] = "none"
  /\ bash' = [bash EXCEPT ![b] = "running"]
  /\ snapping' = snapping \cup {b}
  /\ surely' = IF InFlight = {} THEN surely \cup {b} ELSE surely \ InFlight
  /\ UNCHANGED <<listening, procs, owner, servers, listenBefore, before, killed, seen>>

MutFirstWins == IF listenBefore.taken THEN listenBefore ELSE Snapshot
(* The newest snapshot replaces whatever is there.                          *)
Baseline == Snapshot

(* The snapshot is there, possibly after the call has ended.                *)
SnapshotBefore(b) ==
  /\ b \in snapping
  /\ snapping' = snapping \ {b}
  /\ listenBefore' = Baseline /\ seen' = [seen EXCEPT ![b] = Snapshot.ports]
  /\ UNCHANGED <<listening, procs, owner, servers, bash, before, surely, killed>>

(* A process begins to listen: started by a running command, by one whose   *)
(* server binds late, or by something else on the machine.                  *)
Listen(p, who) ==
  /\ listening[p] = 0 /\ procs < MaxProcs
  /\ who \in Bash => bash[who] \in {"running", "binding"}
  /\ procs' = procs + 1
  /\ owner' = [owner EXCEPT ![procs'] = who]
  /\ listening' = [listening EXCEPT ![p] = procs']
  /\ surely' = IF who \in Bash /\ (who \in snapping \/ p \in seen[who])
               THEN surely \ {who} ELSE surely
  /\ UNCHANGED <<servers, listenBefore, bash, snapping, before, killed, seen>>

Exit(p) ==
  /\ listening[p] # 0
  /\ listening' = [listening EXCEPT ![p] = 0]
  /\ UNCHANGED <<procs, owner, servers, listenBefore, bash, snapping, before, surely,
                 killed, seen>>

(* tool_execution_end, trackAfterBash: the call takes the snapshot over;    *)
(* without one there is nothing to compare.                                 *)
BashEnd(b) ==
  /\ bash[b] = "running"
  /\ before' = [before EXCEPT ![b] = listenBefore]
  /\ listenBefore' = NoSnapshot
  /\ bash' = [bash EXCEPT ![b] = IF listenBefore.taken THEN "binding" ELSE "done"]
  /\ surely' = IF b \in snapping THEN surely \ {b} ELSE surely
  /\ UNCHANGED <<listening, procs, owner, servers, snapping, killed, seen>>

MutDesktopToo(p) == TRUE
(* shouldTrackBackgroundServer: a desktop program is left out, a process    *)
(* whose chain of parents is broken is not.                                 *)
ShouldTrack(p) == owner[listening[p]] # "desktop"

Fresh(b) == {p \in Port : listening[p] # 0 /\ p \notin before[b].ports /\ servers[p] = 0}

(* It waits for the servers to bind, and records what is new.               *)
TrackAfterBash(b) ==
  /\ bash[b] = "binding"
  /\ bash' = [bash EXCEPT ![b] = "done"]
  /\ servers' = [p \in Port |-> IF p \in Fresh(b) /\ ShouldTrack(p)
                                THEN listening[p] ELSE servers[p]]
  /\ UNCHANGED <<listening, procs, owner, listenBefore, snapping, before, surely,
                 killed, seen>>

(* refresh: port and pid must both match.                                   *)
Refreshed(p) == IF listening[p] = servers[p] THEN servers[p] ELSE 0

Refresh ==
  /\ \E p \in Port : servers[p] # 0
  /\ servers' = [p \in Port |-> Refreshed(p)]
  /\ UNCHANGED <<listening, procs, owner, listenBefore, bash, snapping, before, surely,
                 killed, seen>>

(* killOne, and killAll with every port: the pid that was recorded.         *)
Kill(ports) ==
  /\ \A p \in ports : servers[p] # 0
  /\ killed' = killed \cup {servers[p] : p \in ports}
  /\ listening' = [p \in Port |-> IF listening[p] \in killed' THEN 0 ELSE listening[p]]
  /\ servers' = [p \in Port |-> IF p \in ports THEN 0 ELSE servers[p]]
  /\ UNCHANGED <<procs, owner, listenBefore, bash, snapping, before, surely, seen>>

KillOne == \E p \in Port : Kill({p})
KillAll == LET all == {p \in Port : servers[p] # 0} IN all # {} /\ Kill(all)

BgNext ==
  \/ Refresh \/ KillOne \/ KillAll
  \/ \E b \in Bash : BashStart(b) \/ SnapshotBefore(b) \/ BashEnd(b) \/ TrackAfterBash(b)
  \/ \E p \in Port : Exit(p) \/ \E who \in Bash \cup {"desktop", "unknown"} : Listen(p, who)

BgSpec == BgInit /\ [][BgNext]_bgVars

-----------------------------------------------------------------------------
(* A server that a command opened is in the list once its call has been     *)
(* tracked, if the snapshot of the call came in time and no other call      *)
(* overlapped it: the calls share one snapshot.                             *)
ServersFound ==
  [][\A b \in surely : TrackAfterBash(b) =>
       \A p \in Port : (listening[p] # 0 /\ owner[listening[p]] = b)
         => servers'[p] # 0]_bgVars

(* The panel stops only what an agent's command may have started: never a   *)
(* program of the desktop, also when it took over the port of a server that *)
(* has exited.                                                              *)
DesktopIsSafe == \A i \in killed : owner[i] # "desktop"
=============================================================================
