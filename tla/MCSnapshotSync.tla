--------------------------- MODULE MCSnapshotSync ---------------------------
(***************************************************************************)
(* The instances of SnapshotSync that TLC checks.                          *)
(***************************************************************************)
EXTENDS SnapshotSync, TLC

CONSTANTS
  c1, c2, c3, m1, m2,
  Events, Clicking, Breaks, Restarts   \* the budget of each kind

MCBudget == [k \in Kind |-> CASE k = "event" -> Events
                              [] k = "click" -> Clicking
                              [] k = "break" -> Breaks
                              [] k = "restart" -> Restarts]

(* The chats that are not there at the start are alike.                    *)
ConvSymmetry == Permutations({c2, c3})
=============================================================================
