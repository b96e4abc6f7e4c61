--------------------------- MODULE SnapshotBoard ---------------------------
(***************************************************************************)
(* What the snapshot protocol promises, without its messages: the server   *)
(* publishes one state after another, each under a revision of its own,    *)
(* and a tab shows published states only.  It may skip some, and it may    *)
(* return to an older one of another conversation, but it never shows a    *)
(* conversation older than it just did.                                    *)
(***************************************************************************)
EXTENDS Naturals

CONSTANTS
  Tab,
  Entry,     \* [conv, rev, ...]: a state of a conversation, as published
  Blank      \* what a tab shows before the first snapshot

VARIABLES
  log,       \* the published states
  shown      \* [Tab -> log \cup {Blank}]

Init ==
  /\ log = {}
  /\ shown = [t \in Tab |-> Blank]

(* Stated of the new log, so that a step of an implementation decides it.  *)
Publish ==
  /\ \E e \in log' :
       /\ e \in Entry
       /\ \A older \in log : older.rev < e.rev
       /\ log' = log \cup {e}
  /\ UNCHANGED shown

Show(t, e) ==
  /\ e.conv = shown[t].conv => e.rev >= shown[t].rev
  /\ shown' = [shown EXCEPT ![t] = e]
  /\ UNCHANGED log

Next ==
  \/ Publish
  \/ \E t \in Tab : \E e \in log : Show(t, e)

Spec == Init /\ [][Next]_<<log, shown>>
=============================================================================
