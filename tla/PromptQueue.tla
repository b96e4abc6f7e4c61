---------------------------- MODULE PromptQueue ----------------------------
(***************************************************************************)
(* The texts a user queues while a run streams, and taking one back (the   *)
(* cross on its bubble: ClientSession.removeQueued).  The SDK has no call  *)
(* that removes one text: the handler empties both queues, drops the first *)
(* occurrence and queues the survivors again, one await at a time.  What   *)
(* the run takes, what the user types and a second click come in between.  *)
(***************************************************************************)
EXTENDS Naturals, Sequences, FiniteSets, SequencesExt

CONSTANTS
  MaxPrompts,   \* bound: texts queued in one behaviour
  Words,        \* what a text can say; two texts may say the same
  Clicks        \* removals that can be in flight at the same time

VARIABLES
  steering, followUp,  \* the SDK's queues of prompt numbers; queue_update
                       \* keeps conv.queueSteering and queueFollowUp equal
  said,                \* what each prompt says, the prompts in typing order
  kindOf,              \* the queue each was put in
  removal,             \* the removal in each slot
  delivered,           \* prompts in the order the run took them
  removed, lost,       \* prompts taken back; prompts whose re-queueing failed
  crossed              \* pairs of which one was typed, or drained, while a
                       \* removal held the other

queueVars == <<steering, followUp, said, kindOf, removal, delivered, removed, lost,
               crossed>>

QueueKind == {"steer", "followUp"}
Idle == [busy |-> FALSE, steer |-> <<>>, followUp |-> <<>>]

QueueTypeOK ==
  /\ said \in Seq(Words) /\ Len(said) <= MaxPrompts
  /\ kindOf \in Seq(QueueKind) /\ Len(kindOf) = Len(said)
  /\ \A q \in {steering, followUp, delivered} : q \in Seq(1..Len(said))
  /\ removed \cup lost \subseteq 1..Len(said)
  /\ removal \in [Clicks -> [busy : BOOLEAN, steer : Seq(1..Len(said)),
                             followUp : Seq(1..Len(said))]]

QueueInit ==
  /\ steering = <<>> /\ followUp = <<>> /\ said = <<>> /\ kindOf = <<>>
  /\ removal = [c \in Clicks |-> Idle]
  /\ delivered = <<>> /\ removed = {} /\ lost = {} /\ crossed = {}

Held == UNION {Range(removal[c].steer) \cup Range(removal[c].followUp) : c \in Clicks}

Queued(kind) == IF kind = "steer" THEN steering ELSE followUp

(* prompt while the run streams: steer() or followUp().                     *)
Type(word, kind) ==
  /\ Len(said) < MaxPrompts
  /\ said' = Append(said, word) /\ kindOf' = Append(kindOf, kind)
  /\ IF kind = "steer"
     THEN steering' = Append(steering, Len(said')) /\ UNCHANGED followUp
     ELSE followUp' = Append(followUp, Len(said')) /\ UNCHANGED steering
  /\ crossed' = crossed \cup {{i, Len(said')} : i \in Held}
  /\ UNCHANGED <<removal, delivered, removed, lost>>

(* The run takes a steering text before its next request, and a follow-up   *)
(* when it would otherwise end.                                             *)
Take ==
  /\ \/ /\ steering # <<>>
        /\ delivered' = Append(delivered, Head(steering))
        /\ steering' = Tail(steering) /\ UNCHANGED followUp
     \/ /\ steering = <<>> /\ followUp # <<>>
        /\ delivered' = Append(delivered, Head(followUp))
        /\ followUp' = Tail(followUp) /\ UNCHANGED steering
  /\ UNCHANGED <<said, kindOf, removal, removed, lost, crossed>>

MutFilterByValue(q, word) == SelectSeq(q, LAMBDA i : said[i] # word)
MutLeavesHole(q, word) ==
  LET hole == SelectInSeq(q, LAMBDA j : said[j] = word)
  IN [j \in DOMAIN q |-> IF j = hole THEN 0 ELSE q[j]]
(* queue-utils.ts: the first text that equals the bubble's, and no other.   *)
RemoveFirstOccurrence(q, word) ==
  LET i == SelectInSeq(q, LAMBDA j : said[j] = word)
  IN IF i = 0 THEN q ELSE RemoveAt(q, i)

MutDrainAll(kind, word, k) == IF k = kind THEN RemoveFirstOccurrence(Queued(k), word) ELSE <<>>
MutReversed(kind, word, k) ==
  Reverse(IF k = kind THEN RemoveFirstOccurrence(Queued(k), word) ELSE Queued(k))
(* What the handler holds after clearQueue: the survivors of queue k.       *)
Kept(kind, word, k) ==
  IF k = kind THEN RemoveFirstOccurrence(Queued(k), word) ELSE Queued(k)

(* The cross on a bubble.  A text that is no longer in the mirror is left   *)
(* alone: it was delivered, or another removal holds it.                    *)
RemoveQueued(c, kind, word) ==
  /\ ~removal[c].busy
  /\ \E i \in Range(Queued(kind)) : said[i] = word
  /\ removal' = [removal EXCEPT ![c] =
       [busy |-> TRUE, steer |-> Kept(kind, word, "steer"),
        followUp |-> Kept(kind, word, "followUp")]]
  /\ removed' = removed \cup (Range(Queued(kind)) \ Range(Kept(kind, word, kind)))
  /\ steering' = <<>> /\ followUp' = <<>>
  /\ crossed' = crossed \cup
       {{i, j} : i \in Held, j \in Range(steering) \cup Range(followUp)}
  /\ UNCHANGED <<said, kindOf, delivered, lost>>

(* One await of the two loops: the steering texts first, then the others.   *)
(* A call that rejects is reported, and the next one still made.            *)
Requeue(c) ==
  LET r == removal[c] IN
  /\ r.busy
  /\ \/ /\ r.steer # <<>>
        /\ removal' = [removal EXCEPT ![c].steer = Tail(r.steer)]
        /\ \/ steering' = Append(steering, Head(r.steer)) /\ UNCHANGED lost
           \/ lost' = lost \cup {Head(r.steer)} /\ UNCHANGED steering
        /\ UNCHANGED followUp
     \/ /\ r.steer = <<>> /\ r.followUp # <<>>
        /\ removal' = [removal EXCEPT ![c].followUp = Tail(r.followUp)]
        /\ \/ followUp' = Append(followUp, Head(r.followUp)) /\ UNCHANGED lost
           \/ lost' = lost \cup {Head(r.followUp)} /\ UNCHANGED followUp
        /\ UNCHANGED steering
     \/ /\ r.steer = <<>> /\ r.followUp = <<>>
        /\ removal' = [removal EXCEPT ![c] = Idle]
        /\ UNCHANGED <<steering, followUp, lost>>
  /\ UNCHANGED <<said, kindOf, delivered, removed, crossed>>

QueueNext ==
  \/ Take
  \/ \E word \in Words, kind \in QueueKind : Type(word, kind)
  \/ \E c \in Clicks :
       \/ Requeue(c)
       \/ \E word \in Words, kind \in QueueKind : RemoveQueued(c, kind, word)

QueueSpec == QueueInit /\ [][QueueNext]_queueVars

-----------------------------------------------------------------------------
Places == <<Range(steering), Range(followUp), Held, Range(delivered), removed, lost>>

(* A text that was typed is in one place and one only: queued, in the hands *)
(* of a removal, delivered, taken back, or reported as lost.  No drain,     *)
(* delivery or second removal in between drops it or delivers it twice.     *)
QueueConserved ==
  /\ UNION Range(Places) = 1..Len(said)
  /\ \A i, j \in 1..Len(Places) : i # j => Places[i] \cap Places[j] = {}
  /\ Len(delivered) = Cardinality(Range(delivered))

(* One click takes back one text, also when another one says the same.      *)
OneClickOneText ==
  [][\A c \in Clicks : (~removal[c].busy /\ removal'[c].busy) =>
       Cardinality(removed' \ removed) = 1]_queueVars

(* Two texts of the same queue reach the run in the order they were typed,  *)
(* unless one was typed, or drained by a second removal, while a removal    *)
(* held the other.                                                          *)
QueueOrder ==
  \A i, j \in 1..Len(delivered) :
    (i < j /\ kindOf[delivered[i]] = kindOf[delivered[j]]) =>
      \/ delivered[i] < delivered[j]
      \/ {delivered[i], delivered[j]} \in crossed
=============================================================================
