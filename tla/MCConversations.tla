-------------------------- MODULE MCConversations --------------------------
(***************************************************************************)
(* The instances of Conversations that TLC checks: two projects, one with  *)
(* a transcript on disk, and a client that uses some of the commands.      *)
(***************************************************************************)
EXTENDS Conversations

CONSTANTS p, q, h    \* the projects and the transcript of p

MCHistoryCwd == [x \in History |-> p]

(* The commands that decide where the user is, with the terminals and       *)
(* dismissals that decide what is kept.                                     *)
Switching == {"newChat", "newChatIn", "setCwd", "switch", "open", "prompt",
              "save", "quiesce", "dismiss", "terminal"}

(* Runs that hang, interrupted by Stop, by the watchdog or by force.        *)
Stopping == {"open", "switch", "prompt", "stop", "hang", "forceDismiss"}

(* Commands whose handlers overlap.                                         *)
Overlapping == {"newChat", "setCwd", "switch", "open", "prompt", "dismiss"}
=============================================================================
