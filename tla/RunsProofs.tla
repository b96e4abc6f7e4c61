------------------------------ MODULE RunsProofs ------------------------------
(***************************************************************************)
(* What TLAPS proves of the parts around the runs of a conversation, for   *)
(* every value of the bounds and every set of chats, calls and ports.  The *)
(* parts share no variable, so each has an invariant of its own that holds *)
(* whichever part the behaviour exercises; a step of the whole is a step   *)
(* of a part or leaves that part alone.                                    *)
(***************************************************************************)
EXTENDS MCRuns, SequencesExt, SequenceTheorems, FiniteSetTheorems,
        FunctionTheorems, WellFoundedInduction, TLAPS

-----------------------------------------------------------------------------
(* Lists                                                                    *)

(* A set of numbers has a smallest one (the indices SelectInSeq chooses     *)
(* among).                                                                  *)
LEMMA LeastOf ==
  ASSUME NEW S, S \subseteq Nat, S # {}
  PROVE  /\ Min(S) \in S
         /\ \A y \in S : Min(S) <= y
<1>1. \E x \in S : \A y \in S : ~ (<<y, x>> \in OpToRel(<, Nat))
  BY NatLessThanWellFounded, WFMin
<1>2. PICK x \in S : \A y \in S : ~ (<<y, x>> \in OpToRel(<, Nat))
  BY <1>1
<1>3. \A y \in S : x <= y
  <2> TAKE y \in S
  <2>1. <<y, x>> \in Nat \X Nat
    OBVIOUS
  <2>2. ~ (y < x)
    BY <1>2, <2>1 DEF OpToRel
  <2> QED BY <2>2
<1> QED BY <1>2, <1>3 DEF Min

(* A bounded set of numbers has a greatest one.                             *)
LEMMA GreatestOf ==
  ASSUME NEW n \in Nat, NEW S, S \subseteq 0..n, S # {}
  PROVE  /\ Max(S) \in S
         /\ \A y \in S : Max(S) >= y
<1> DEFINE Above == {m \in Nat : \A y \in S : m >= y}
<1>1. n \in Above
  OBVIOUS
<1>2. /\ Min(Above) \in Above
      /\ \A m \in Above : Min(Above) <= m
  BY <1>1, LeastOf
<1> DEFINE b == Min(Above)
<1>3. b \in Nat /\ \A y \in S : b >= y
  BY <1>2
<1>4. b \in S
  <2> SUFFICES ASSUME b \notin S PROVE FALSE
    OBVIOUS
  <2>1. \A y \in S : y \in Nat /\ b > y
    BY <1>3
  <2>2. b > 0
    <3>1. PICK y \in S : TRUE
      OBVIOUS
    <3> QED BY <3>1, <2>1, <1>3
  <2>3. b - 1 \in Above
    <3>1. b - 1 \in Nat
      BY <2>2, <1>3
    <3>2. \A y \in S : b - 1 >= y
      BY <2>1, <1>3
    <3> QED BY <3>1, <3>2
  <2> HIDE DEF Above
  <2>4. b <= b - 1
    BY <1>2, <2>3
  <2> QED BY <2>4, <1>3
<1> HIDE DEF b
<1> QED BY <1>3, <1>4 DEF Max

(* The first entry that passes a test, as the models read it.               *)
LEMMA FirstIndex ==
  ASSUME NEW n \in Nat, NEW I, I \subseteq 1..n
  PROVE  /\ I # {} => /\ Min(I) \in I
                      /\ \A y \in I : Min(I) <= y
         /\ (IF I # {} THEN Min(I) ELSE 0) \in 0..n
<1>1. ASSUME I # {} PROVE Min(I) \in I /\ \A y \in I : Min(I) <= y
  <2>1. I \subseteq Nat
    OBVIOUS
  <2> QED BY <2>1, <1>1, LeastOf
<1>2. CASE I = {}
  BY <1>2
<1>3. CASE I # {}
  <2>1. Min(I) \in 1..n
    BY <1>1, <1>3
  <2> QED BY <2>1, <1>1, <1>3
<1> QED BY <1>2, <1>3

(* A list without its i-th entry.                                           *)
LEMMA RemoveAtProperties ==
  ASSUME NEW S, NEW s \in Seq(S), NEW i \in 1..Len(s)
  PROVE  /\ RemoveAt(s, i) \in Seq(S)
         /\ Len(RemoveAt(s, i)) = Len(s) - 1
         /\ \A j \in 1..(Len(s) - 1) :
              RemoveAt(s, i)[j] = IF j < i THEN s[j] ELSE s[j + 1]
<1> DEFINE a == SubSeq(s, 1, i - 1)
           b == SubSeq(s, i + 1, Len(s))
<1>0. Len(s) \in Nat /\ \A k \in 1..Len(s) : s[k] \in S
  BY LenProperties, ElementOfSeq
<1>1. /\ a \in Seq(S) /\ Len(a) = i - 1
      /\ \A j \in 1..(i - 1) : a[j] = s[j]
  <2>1. \A k \in 1..(i - 1) : s[k] \in S
    BY <1>0
  <2>2. /\ a \in Seq(S)
        /\ Len(a) = IF 1 <= i - 1 THEN i - 1 - 1 + 1 ELSE 0
        /\ \A j \in 1..(i - 1 - 1 + 1) : a[j] = s[1 + j - 1]
    BY <2>1, <1>0, SubSeqProperties
  <2> QED BY <2>2, <1>0
<1>2. /\ b \in Seq(S) /\ Len(b) = Len(s) - i
      /\ \A j \in 1..(Len(s) - i) : b[j] = s[i + j]
  <2>1. \A k \in (i + 1)..Len(s) : s[k] \in S
    BY <1>0
  <2>2. /\ b \in Seq(S)
        /\ Len(b) = IF i + 1 <= Len(s) THEN Len(s) - (i + 1) + 1 ELSE 0
        /\ \A j \in 1..(Len(s) - (i + 1) + 1) : b[j] = s[(i + 1) + j - 1]
    BY <2>1, <1>0, SubSeqProperties
  <2> QED BY <2>2, <1>0
<1> HIDE DEF a, b
<1>3. /\ a \o b \in Seq(S)
      /\ Len(a \o b) = Len(a) + Len(b)
      /\ \A j \in 1..(Len(a) + Len(b)) :
           (a \o b)[j] = IF j <= Len(a) THEN a[j] ELSE b[j - Len(a)]
  BY <1>1, <1>2, ConcatProperties
<1>4. RemoveAt(s, i) = a \o b
  BY DEF RemoveAt, a, b
<1>5. \A j \in 1..(Len(s) - 1) : (a \o b)[j] = IF j < i THEN s[j] ELSE s[j + 1]
  <2> TAKE j \in 1..(Len(s) - 1)
  <2>1. CASE j < i
    <3>1. j \in 1..(i - 1) /\ j \in 1..(Len(a) + Len(b)) /\ j <= Len(a)
      BY <2>1, <1>0, <1>1, <1>2
    <3> QED BY <3>1, <2>1, <1>1, <1>3
  <2>2. CASE ~ (j < i)
    <3>1. (a \o b)[j] = b[j - (i - 1)]
      BY <2>2, <1>0, <1>1, <1>2, <1>3
    <3>2. j - (i - 1) \in 1..(Len(s) - i)
      BY <2>2, <1>0
    <3>3. b[j - (i - 1)] = s[i + (j - (i - 1))]
      BY <3>2, <1>2
    <3>4. i + (j - (i - 1)) = j + 1
      BY <1>0
    <3>5. ~ (j < i)
      BY <2>2, <1>0
    <3>6. (a \o b)[j] = s[j + 1]
      BY <3>1, <3>3, <3>4
    <3> QED BY <3>5, <3>6
  <2> QED BY <2>1, <2>2
<1> QED BY <1>0, <1>1, <1>2, <1>3, <1>4, <1>5

(* Its entries are the other ones.                                          *)
LEMMA RemoveAtRange ==
  ASSUME NEW S, NEW s \in Seq(S), NEW i \in 1..Len(s)
  PROVE  Range(RemoveAt(s, i)) = {s[j] : j \in (1..Len(s)) \ {i}}
<1> DEFINE r == RemoveAt(s, i)
<1>1. /\ r \in Seq(S) /\ Len(r) = Len(s) - 1 /\ Len(s) \in Nat
      /\ \A j \in 1..(Len(s) - 1) : r[j] = IF j < i THEN s[j] ELSE s[j + 1]
  BY RemoveAtProperties, LenProperties
<1> HIDE DEF r
<1>2. Range(r) = {r[j] : j \in 1..(Len(s) - 1)}
  BY <1>1, RangeEquality
<1>3. ASSUME NEW j \in (1..Len(s)) \ {i} PROVE \E k \in 1..(Len(s) - 1) : r[k] = s[j]
  <2>1. CASE j < i
    <3>1. j \in 1..(Len(s) - 1) /\ r[j] = s[j]
      BY <1>1, <2>1
    <3> QED BY <3>1
  <2>2. CASE j > i
    <3>1. j - 1 \in 1..(Len(s) - 1) /\ ~(j - 1 < i) /\ j - 1 + 1 = j
      BY <1>1, <2>2
    <3>2. r[j - 1] = s[j]
      BY <1>1, <3>1
    <3> QED BY <3>1, <3>2
  <2> QED BY <2>1, <2>2, <1>1
<1>4. ASSUME NEW k \in 1..(Len(s) - 1)
      PROVE  \E j \in (1..Len(s)) \ {i} : r[k] = s[j]
  <2>1. CASE k < i
    BY <1>1, <2>1
  <2>2. CASE k >= i
    <3>1. k + 1 \in (1..Len(s)) \ {i} /\ r[k] = s[k + 1]
      BY <1>1, <2>2
    <3> QED BY <3>1
  <2> QED BY <2>1, <2>2, <1>1
<1> DEFINE I == 1..(Len(s) - 1)
           J == (1..Len(s)) \ {i}
<1> HIDE DEF I, J
<1>6. \A x : (\E k \in I : x = r[k]) <=> (\E j \in J : x = s[j])
  BY <1>3, <1>4 DEF I, J
<1>5. Range(r) = {s[j] : j \in J}
  BY <1>2, <1>6, Zenon DEF I
<1> QED BY <1>5 DEF r, J

(* The entries after one is added.                                          *)
LEMMA AppendRange ==
  ASSUME NEW S, NEW s \in Seq(S), NEW e \in S
  PROVE  Range(Append(s, e)) = Range(s) \cup {e}
<1>1. /\ Append(s, e) \in Seq(S) /\ Len(Append(s, e)) = Len(s) + 1 /\ Len(s) \in Nat
      /\ \A i \in 1..Len(s) : Append(s, e)[i] = s[i]
      /\ Append(s, e)[Len(s) + 1] = e
  BY AppendProperties, LenProperties
<1> DEFINE r == Append(s, e)
<1>2. Range(r) = {r[i] : i \in 1..Len(r)}
  BY <1>1, RangeEquality
<1>3. Range(s) = {s[i] : i \in 1..Len(s)}
  BY RangeEquality
<1>4. 1..Len(r) = 1..Len(s) \cup {Len(s) + 1}
  BY <1>1
<1>5. \A i \in 1..Len(s) : r[i] = s[i]
  BY <1>1
<1>6. r[Len(s) + 1] = e
  BY <1>1
<1> HIDE DEF r
<1>7. Range(r) = Range(s) \cup {e}
  BY <1>2, <1>3, <1>4, <1>5, <1>6
<1> QED BY <1>7 DEF r

(* The head and the rest of a list are its entries.                         *)
LEMMA HeadTailRange ==
  ASSUME NEW S, NEW s \in Seq(S), s # <<>>
  PROVE  /\ Len(s) \in Nat \ {0} /\ Head(s) = s[1] /\ Head(s) \in S
         /\ Tail(s) \in Seq(S) /\ Len(Tail(s)) = Len(s) - 1
         /\ \A i \in 1..(Len(s) - 1) : Tail(s)[i] = s[i + 1]
         /\ Range(s) = Range(Tail(s)) \cup {Head(s)}
<1>1. Len(s) \in Nat \ {0}
  BY EmptySeq
<1>2. /\ Head(s) \in S /\ Tail(s) \in Seq(S) /\ Len(Tail(s)) = Len(s) - 1
      /\ \A i \in 1..Len(Tail(s)) : Tail(s)[i] = s[i + 1]
  BY HeadTailProperties
<1>3. Head(s) = s[1]
  BY <1>1
<1> DEFINE r == Tail(s)
<1>4. Range(r) = {r[i] : i \in 1..(Len(s) - 1)}
  BY <1>2, RangeEquality
<1>5. Range(s) = {s[i] : i \in 1..Len(s)}
  BY RangeEquality
<1>6. \A i \in 1..(Len(s) - 1) : r[i] = s[i + 1] /\ i + 1 \in 1..Len(s)
  BY <1>1, <1>2
<1>7. \A i \in 1..Len(s) : i = 1 \/ (i - 1 \in 1..(Len(s) - 1) /\ r[i - 1] = s[i])
  <2> TAKE i \in 1..Len(s)
  <2>1. CASE i # 1
    <3>1. i - 1 \in 1..(Len(s) - 1) /\ (i - 1) + 1 = i
      BY <2>1, <1>1
    <3> QED BY <3>1, <1>6
  <2> QED BY <2>1
<1> HIDE DEF r
<1>8. Range(s) = Range(r) \cup {s[1]}
  <2>1. 1 \in 1..Len(s)
    BY <1>1
  <2> QED BY <1>4, <1>5, <1>6, <1>7, <2>1
<1> QED BY <1>1, <1>2, <1>3, <1>8 DEF r

(* A list in which nothing is twice is as long as it has entries.           *)
LEMMA DistinctLength ==
  ASSUME NEW S, NEW s \in Seq(S),
         \A i, j \in 1..Len(s) : s[i] = s[j] => i = j
  PROVE  Len(s) = Cardinality(Range(s))
<1>1. Len(s) \in Nat /\ Range(s) = {s[i] : i \in 1..Len(s)} /\ s \in [1..Len(s) -> S]
  BY LenProperties, RangeEquality
<1>2. s \in [1..Len(s) -> Range(s)]
  <2>1. DOMAIN s = 1..Len(s) /\ \A i \in 1..Len(s) : s[i] \in Range(s)
    BY <1>1
  <2>2. s = [i \in 1..Len(s) |-> s[i]]
    BY <1>1
  <2> QED BY <2>1, <2>2
<1>3. \A x \in Range(s) : \E i \in 1..Len(s) : s[i] = x
  BY <1>1
<1>4. s \in Bijection(1..Len(s), Range(s))
  BY <1>2, <1>3, Fun_IsBij
<1>5. ExistsBijection(1..Len(s), Range(s))
  BY <1>4, Fun_ExistsBij
<1> QED BY <1>1, <1>5, FS_CountingElements

-----------------------------------------------------------------------------
(* RunNotifications                                                         *)

(* While the session works its run has a record, and only a prompt opens    *)
(* one; the pause before a retry shows its banner; after the end the record *)
(* has the outcome of the transcript.                                       *)
RecordFollows ==
  /\ sdk # "idle" => run.open
  /\ run.open => turn > 0
  /\ sdk = "backoff" => retryState
  /\ sdk = "ended" => run.final = lastStop

(* The stop marks the record of its turn, and no other turn's, unless a run *)
(* began with a marked record.                                              *)
MarksFollow ==
  /\ stopped \subseteq 1..turn
  /\ (run.open /\ turn \in stopped) => run.abort
  /\ (run.open /\ ~carried /\ turn \notin stopped)
       => ~run.abort /\ run.final # "aborted"

(* The turn that goes on has not been announced: its record would be gone.  *)
AnnouncedIsOver ==
  \A a \in announced : a.turn < turn \/ (a.turn = turn /\ sdk = "idle" /\ ~run.open)

(* The type invariant, its flags apart from the rest.                       *)
NoteFlags == workers \in BOOLEAN /\ retryState \in BOOLEAN /\ carried \in BOOLEAN

NoteRecord ==
  /\ run \in [final : Notes!StopReason, abort : BOOLEAN, open : BOOLEAN]
  /\ ~run.open => run = Notes!NoRun

NoteTyped ==
  /\ sdk \in Notes!SdkPhase /\ queued \in 0..MaxQueue
  /\ lastStop \in Notes!StopReason
  /\ turn \in 0..MaxTurns /\ stopped \subseteq 1..MaxTurns
  /\ announced \subseteq [turn : 1..MaxTurns, kind : {"run-completed", "run-failed"}]

NoteRest ==
  /\ NoteTyped /\ RecordFollows /\ MarksFollow /\ AnnouncedIsOver
  /\ Notes!StoppedIsSilent /\ Notes!OneOutcome /\ Notes!NothingMissed

NoteIInv == NoteFlags /\ NoteRecord /\ NoteRest

LEMMA NoteInitially == Notes!NoteInit => NoteIInv
<1> SUFFICES ASSUME Notes!NoteInit PROVE NoteIInv
  OBVIOUS
<1> USE RunsBounds DEF Notes!NoteInit, Notes!NoRun, Notes!SdkPhase, Notes!StopReason
<1>1. NoteFlags /\ NoteRecord
  BY DEF NoteFlags, NoteRecord
<1>2. NoteTyped
  BY DEF NoteTyped
<1>3. RecordFollows /\ MarksFollow /\ AnnouncedIsOver
  BY DEF RecordFollows, MarksFollow, AnnouncedIsOver
<1>4. Notes!StoppedIsSilent /\ Notes!OneOutcome /\ Notes!NothingMissed
  BY DEF Notes!StoppedIsSilent, Notes!OneOutcome, Notes!NothingMissed
<1> QED BY <1>1, <1>2, <1>3, <1>4 DEF NoteIInv, NoteRest

LEMMA NoteFlagsStep == NoteFlags /\ NoteRecord /\ [Notes!NoteNext]_noteVars => NoteFlags'
  BY DEF NoteFlags, NoteRecord, noteVars, Notes!NoteNext, Notes!Prompt, Notes!RetryLast,
      Notes!Queue, Notes!Deliver, Notes!Retry, Notes!RetryOver, Notes!WorkersReport,
      Notes!Settled, Notes!Stop, Notes!ForceReset, Notes!End, Notes!RetryStateAfter

LEMMA NoteRecordStep == NoteRecord /\ [Notes!NoteNext]_noteVars => NoteRecord'
<1> SUFFICES ASSUME NoteRecord, [Notes!NoteNext]_noteVars PROVE NoteRecord'
  OBVIOUS
<1> USE DEF NoteRecord, Notes!NoRun, Notes!StopReason, Notes!AgentStart,
      Notes!AgentEnd, Notes!AbortMark
<1>1. CASE UNCHANGED run
  BY <1>1
<1>2. CASE run' = Notes!AgentStart(run)
  BY <1>2
<1>3. CASE run' = Notes!NoRun
  BY <1>3
<1>4. ASSUME NEW stop \in Notes!StopReason, run' = Notes!AgentEnd(run, stop)
      PROVE  NoteRecord'
  BY <1>4
<1>5. ASSUME NEW stop \in Notes!StopReason,
             run' = Notes!AgentEnd(Notes!AbortMark(run), stop)
      PROVE  NoteRecord'
  BY <1>5
<1>6. CASE Notes!Stop
  <2>1. (IF sdk = "ended" THEN run.final ELSE "aborted") \in Notes!StopReason
    OBVIOUS
  <2> QED BY <1>6, <2>1, <1>5 DEF Notes!Stop
<1> QED
  BY <1>1, <1>2, <1>3, <1>4, <1>6
  DEF noteVars, Notes!NoteNext, Notes!Prompt, Notes!RetryLast,
      Notes!Queue, Notes!Deliver, Notes!Retry, Notes!RetryOver, Notes!WorkersReport,
      Notes!Settled, Notes!ForceReset, Notes!End

LEMMA NoteStep == NoteIInv /\ [Notes!NoteNext]_noteVars => NoteIInv'
<1> SUFFICES ASSUME NoteIInv, [Notes!NoteNext]_noteVars PROVE NoteIInv'
  OBVIOUS
<1>0. NoteFlags' /\ NoteRecord'
  BY NoteFlagsStep, NoteRecordStep DEF NoteIInv
<1> USE <1>0, RunsBounds
    DEF NoteIInv, NoteRest, NoteRecord, NoteTyped, RecordFollows, MarksFollow, AnnouncedIsOver,
        Notes!StoppedIsSilent, Notes!OneOutcome, Notes!NothingMissed,
        Notes!NoRun, Notes!SdkPhase, Notes!StopReason, Notes!AgentStart,
        Notes!AgentEnd, Notes!AbortMark
<1>1. ASSUME Notes!Prompt \/ Notes!RetryLast PROVE NoteRest'
  <2> USE <1>1 DEF Notes!Prompt, Notes!RetryLast
  <2>1. (NoteTyped /\ RecordFollows /\ MarksFollow)'
    OBVIOUS
  <2>2. (AnnouncedIsOver /\ Notes!StoppedIsSilent)'
    OBVIOUS
  <2>3. Notes!OneOutcome'
    OBVIOUS
  <2>4. Notes!NothingMissed'
    OBVIOUS
  <2> QED BY <2>1, <2>2, <2>3, <2>4
<1>2. ASSUME Notes!Queue PROVE NoteRest'
  BY <1>2 DEF Notes!Queue
<1>3. ASSUME Notes!Deliver PROVE NoteRest'
  BY <1>3 DEF Notes!Deliver
<1>4. ASSUME Notes!Retry PROVE NoteRest'
  BY <1>4 DEF Notes!Retry
<1>5. ASSUME Notes!RetryOver PROVE NoteRest'
  BY <1>5 DEF Notes!RetryOver
<1>6. ASSUME Notes!WorkersReport PROVE NoteRest'
  BY <1>6 DEF Notes!WorkersReport
<1>7. ASSUME Notes!Settled PROVE NoteRest'
  <2> USE <1>7 DEF Notes!Settled
  <2>1. (NoteTyped /\ RecordFollows /\ MarksFollow)'
    BY DEF Notes!Closes, Notes!Announcement
  <2>2. (AnnouncedIsOver /\ Notes!StoppedIsSilent)'
    BY DEF Notes!Closes, Notes!Announcement
  <2>3. Notes!OneOutcome'
    BY DEF Notes!Closes, Notes!Announcement
  <2>4. Notes!NothingMissed'
    <3> SUFFICES ASSUME ~run'.open, ~carried, turn \notin stopped
                 PROVE  \E a \in announced' : a.turn = turn
      OBVIOUS
    <3>1. Notes!Closes(run) /\ announced' = announced \cup Notes!Announcement(run)
      OBVIOUS
    <3>2. ~run.abort /\ run.final # "aborted"
      BY <3>1 DEF Notes!Closes
    <3> DEFINE message ==
          [turn |-> turn,
           kind |-> IF run.final = "error" THEN "run-failed" ELSE "run-completed"]
    <3>3. message \in announced'
      BY <3>1, <3>2, Zenon DEF Notes!Announcement
    <3> QED BY <3>3
  <2> QED BY <2>1, <2>2, <2>3, <2>4
<1>8. ASSUME Notes!Stop PROVE NoteRest'
  <2> USE <1>8 DEF Notes!Stop
  <2>1. (NoteTyped /\ RecordFollows /\ MarksFollow)'
    OBVIOUS
  <2>2. (AnnouncedIsOver /\ Notes!StoppedIsSilent)'
    OBVIOUS
  <2>3. Notes!OneOutcome'
    OBVIOUS
  <2>4. Notes!NothingMissed'
    OBVIOUS
  <2> QED BY <2>1, <2>2, <2>3, <2>4
<1>9. ASSUME Notes!ForceReset PROVE NoteRest'
  <2> USE <1>9 DEF Notes!ForceReset
  <2>1. (NoteTyped /\ RecordFollows /\ MarksFollow)'
    OBVIOUS
  <2>2. (AnnouncedIsOver /\ Notes!StoppedIsSilent)'
    OBVIOUS
  <2>3. Notes!OneOutcome'
    OBVIOUS
  <2>4. Notes!NothingMissed'
    OBVIOUS
  <2> QED BY <2>1, <2>2, <2>3, <2>4
<1>10. ASSUME NEW stop \in {"stop", "error"}, NEW willRetry \in BOOLEAN,
              Notes!End(stop, willRetry)
       PROVE  NoteRest'
  BY <1>10 DEF Notes!End, Notes!RetryStateAfter
<1>11. ASSUME UNCHANGED noteVars PROVE NoteRest'
  BY <1>11 DEF noteVars
<1> QED
  BY <1>0, <1>1, <1>2, <1>3, <1>4, <1>5, <1>6, <1>7, <1>8, <1>9, <1>10, <1>11
  DEF Notes!NoteNext

(* Every run is reported truly: a stopped run never, any other once and     *)
(* with the outcome of the whole run, and none is missed.                   *)
THEOREM RunsAreReported == Spec => []RunsReported
<1>1. Init => NoteIInv
  BY NoteInitially DEF Init
<1>2. NoteIInv /\ [Next]_vars => NoteIInv'
  <2>1. [Next]_vars => [Notes!NoteNext]_noteVars
    BY DEF Next, Rest, vars, noteVars
  <2> QED BY <2>1, NoteStep
<1>3. NoteIInv => RunsReported
  <2>1. NoteFlags /\ NoteRecord /\ NoteTyped => Notes!NoteTypeOK
    BY Zenon DEF NoteFlags, NoteRecord, NoteTyped, Notes!NoteTypeOK
  <2> QED BY <2>1 DEF NoteIInv, NoteRest, RunsReported
<1> QED BY <1>1, <1>2, <1>3, PTL DEF Spec

-----------------------------------------------------------------------------
(* RunGuards                                                                *)

(* The type invariant, its flags apart from the rest.                       *)
GuardFlags ==
  {interrupting, quiet, stallNoticed, pendingReload, reloadFailed, stoppedEnd}
    \subseteq BOOLEAN

GuardTyped ==
  /\ phase \in {"idle", "streaming", "wedged"} /\ session \in 1..MaxSessions
  /\ state \in [Call -> Guards!CallState]
  /\ overdue \subseteq Call /\ toolStartTimes \subseteq Call
  /\ toolWatchdogs \subseteq Call /\ bashKills \subseteq Call
  /\ version \in 0..MaxChanges /\ loaded \in 0..MaxChanges

(* A watchdog belongs to a call whose start time is kept, so that its       *)
(* timer interrupts the run; a kill switch belongs to a shell command.      *)
TimersOwned ==
  /\ toolWatchdogs \subseteq toolStartTimes
  /\ \A c \in bashKills : state[c] \in {"bash", "killed"}

GuardIInv ==
  /\ GuardTyped /\ TimersOwned
  /\ Guards!HungCallsEnd /\ Guards!NoStrayTimers /\ Guards!SettingsFollow

LEMMA GuardInitially == Guards!GuardInit => GuardFlags /\ GuardIInv
<1> SUFFICES ASSUME Guards!GuardInit PROVE GuardFlags /\ GuardIInv
  OBVIOUS
<1> USE RunsBounds DEF Guards!GuardInit
<1>1. GuardFlags
  BY DEF GuardFlags
<1>2. GuardTyped
  BY DEF GuardTyped, Guards!CallState
<1>3. TimersOwned /\ Guards!HungCallsEnd /\ Guards!NoStrayTimers /\ Guards!SettingsFollow
  BY DEF TimersOwned, Guards!HungCallsEnd, Guards!NoStrayTimers, Guards!SettingsFollow
<1> QED BY <1>1, <1>2, <1>3 DEF GuardIInv

LEMMA GuardFlagsStep == GuardFlags /\ [Guards!GuardNext]_guardVars => GuardFlags'
<1> SUFFICES ASSUME GuardFlags, [Guards!GuardNext]_guardVars PROVE GuardFlags'
  OBVIOUS
<1> USE DEF GuardFlags, Guards!Alive, Guards!SameSilence, Guards!reloadVars
<1>1. ASSUME NEW aborted \in BOOLEAN, Guards!AgentEnd(aborted),
             interrupting' \in BOOLEAN
      PROVE  GuardFlags'
  BY <1>1 DEF Guards!AgentEnd, Guards!ApplyReload
<1>2. ASSUME NEW c, Guards!ToolEnd(c) PROVE GuardFlags'
  BY <1>2 DEF Guards!ToolEnd
<1>3. CASE Guards!TurnEnds
  BY <1>3, <1>1 DEF Guards!TurnEnds
<1>4. CASE Guards!AbortWorks
  BY <1>4, <1>1, <1>2 DEF Guards!AbortWorks
<1>5. CASE Guards!ChangeSettings
  BY <1>5 DEF Guards!ChangeSettings, Guards!ApplyReload
<1>6. ASSUME NEW c \in Call,
             Guards!GrowOverdue(c) \/ Guards!WatchdogFires(c)
               \/ \E kind \in Guards!Kind : Guards!ToolStart(c, kind)
      PROVE  GuardFlags'
  BY <1>6 DEF Guards!GrowOverdue, Guards!WatchdogFires, Guards!ToolStart
<1>7. CASE Guards!Start \/ Guards!GrowQuiet \/ Guards!Stop \/ Guards!AbortBash
             \/ Guards!StallTick \/ Guards!ForceReset
  BY <1>7 DEF Guards!Start, Guards!GrowQuiet, Guards!Stop, Guards!AbortBash,
              Guards!StallTick, Guards!ForceReset
<1>8. CASE UNCHANGED guardVars
  BY <1>8 DEF guardVars
<1> QED
  BY <1>2, <1>3, <1>4, <1>5, <1>6, <1>7, <1>8 DEF Guards!GuardNext

LEMMA GuardStep == GuardIInv /\ [Guards!GuardNext]_guardVars => GuardIInv'
<1> SUFFICES ASSUME GuardIInv, [Guards!GuardNext]_guardVars PROVE GuardIInv'
  OBVIOUS
<1> USE RunsBounds
    DEF GuardIInv, GuardTyped, TimersOwned, Guards!HungCallsEnd, Guards!NoStrayTimers,
        Guards!SettingsFollow, Guards!CallState, Guards!Kind, Guards!Running,
        Guards!Streaming, Guards!reloadVars
<1>1. ASSUME Guards!Start PROVE GuardIInv'
  BY <1>1 DEF Guards!Start
<1>2. ASSUME NEW c \in Call, NEW kind \in Guards!Kind, Guards!ToolStart(c, kind)
      PROVE  GuardIInv'
  BY <1>2 DEF Guards!ToolStart, Guards!Armed
<1>3. ASSUME NEW c \in Call, Guards!ToolEnd(c) PROVE GuardIInv'
  BY <1>3 DEF Guards!ToolEnd, Guards!WatchdogsWithout
<1>4. ASSUME NEW c \in Call, Guards!GrowOverdue(c) PROVE GuardIInv'
  BY <1>4 DEF Guards!GrowOverdue
<1>5. ASSUME NEW c \in Call, Guards!WatchdogFires(c) PROVE GuardIInv'
  BY <1>5 DEF Guards!WatchdogFires
<1>6. ASSUME Guards!GrowQuiet \/ Guards!Stop \/ Guards!StallTick PROVE GuardIInv'
  BY <1>6 DEF Guards!GrowQuiet, Guards!Stop, Guards!StallTick
<1>7. ASSUME Guards!AbortBash PROVE GuardIInv'
  BY <1>7 DEF Guards!AbortBash
<1>8. ASSUME Guards!ChangeSettings PROVE GuardIInv'
  BY <1>8 DEF Guards!ChangeSettings, Guards!ApplyReload, Guards!Defers
<1>9. ASSUME NEW aborted \in BOOLEAN, Guards!AgentEnd(aborted) PROVE GuardIInv'
  BY <1>9 DEF Guards!AgentEnd, Guards!ApplyReload, Guards!AppliesNow
<1>10. ASSUME Guards!ForceReset PROVE GuardIInv'
  BY <1>10 DEF Guards!ForceReset, Guards!NoTimers
<1>11. ASSUME UNCHANGED guardVars PROVE GuardIInv'
  BY <1>11 DEF guardVars
<1> QED
  BY <1>1, <1>2, <1>3, <1>4, <1>5, <1>6, <1>7, <1>8, <1>9, <1>10, <1>11
  DEF Guards!GuardNext, Guards!TurnEnds, Guards!AbortWorks

-----------------------------------------------------------------------------
(* BgServers                                                                *)

(* Ports and the list name processes there have been, and the list none of  *)
(* the desktop.                                                             *)
ServersKnown ==
  /\ \A p \in Port : listening[p] <= procs /\ servers[p] <= procs
  /\ killed \subseteq 1..procs
  /\ \A p \in Port : servers[p] # 0 => owner[servers[p]] # "desktop"

(* A call that has not begun owns nothing, and has no part in the snapshots.*)
NotYetBegun ==
  \A b \in Bash : bash[b] = "none" =>
    /\ b \notin surely /\ b \notin snapping
    /\ \A i \in 1..MaxProcs : owner[i] # b

(* A call that no other overlaps is alone in flight; once its own snapshot  *)
(* is there, that is what its end will take over, and did.                  *)
OwnBaseline ==
  \A b \in surely :
    /\ b \in Bg!InFlight => Bg!InFlight = {b}
    /\ (bash[b] = "running" /\ b \notin snapping)
         => listenBefore = [taken |-> TRUE, ports |-> seen[b]]
    /\ bash[b] = "binding" => before[b].ports = seen[b]
    /\ b \in snapping => bash[b] = "running"

(* Its servers opened their ports after its own snapshot.                   *)
OpenedAfter ==
  \A b \in surely, p \in Port : (listening[p] # 0 /\ owner[listening[p]] = b)
    => b \notin snapping /\ p \notin seen[b]

BgIInv ==
  /\ Bg!BgTypeOK
  /\ ServersKnown /\ NotYetBegun /\ OwnBaseline /\ OpenedAfter /\ Bg!DesktopIsSafe

LEMMA BgInitially == Bg!BgInit => BgIInv
  BY RunsBounds, BashNames
  DEF Bg!BgInit, BgIInv, Bg!BgTypeOK, ServersKnown, NotYetBegun, OwnBaseline, OpenedAfter,
      Bg!DesktopIsSafe, Bg!Pid, Bg!NoSnapshot, Bg!Stage, Bg!InFlight

LEMMA BgTypes == Bg!BgTypeOK /\ [Bg!BgNext]_bgVars => Bg!BgTypeOK'
<1> SUFFICES ASSUME Bg!BgTypeOK, [Bg!BgNext]_bgVars PROVE Bg!BgTypeOK'
  OBVIOUS
<1> USE RunsBounds DEF Bg!BgTypeOK, Bg!Pid, Bg!NoSnapshot, Bg!Stage, Bg!Snapshot
<1>1. ASSUME NEW b \in Bash, Bg!BashStart(b) PROVE Bg!BgTypeOK'
  BY <1>1 DEF Bg!BashStart
<1>2. ASSUME NEW b \in Bash, Bg!SnapshotBefore(b) PROVE Bg!BgTypeOK'
  BY <1>2 DEF Bg!SnapshotBefore, Bg!Baseline
<1>3. ASSUME NEW b \in Bash, Bg!BashEnd(b) PROVE Bg!BgTypeOK'
  BY <1>3 DEF Bg!BashEnd
<1>4. ASSUME NEW b \in Bash, Bg!TrackAfterBash(b) PROVE Bg!BgTypeOK'
  BY <1>4 DEF Bg!TrackAfterBash
<1>5. ASSUME NEW p \in Port, Bg!Exit(p) PROVE Bg!BgTypeOK'
  BY <1>5 DEF Bg!Exit
<1>6. ASSUME NEW p \in Port, NEW who \in Bash \cup {"desktop", "unknown"}, Bg!Listen(p, who)
      PROVE  Bg!BgTypeOK'
  BY <1>6 DEF Bg!Listen
<1>7. ASSUME Bg!Refresh PROVE Bg!BgTypeOK'
  BY <1>7 DEF Bg!Refresh, Bg!Refreshed
<1>8. ASSUME NEW ports \in SUBSET Port, Bg!Kill(ports) PROVE Bg!BgTypeOK'
  <2> USE <1>8 DEF Bg!Kill
  <2>1. listening' \in [Port -> 0..MaxProcs] /\ servers' \in [Port -> 0..MaxProcs]
    OBVIOUS
  <2>2. \A p \in ports : servers[p] \in 1..MaxProcs
    OBVIOUS
  <2>3. killed' \subseteq 1..MaxProcs
    BY <2>2
  <2> QED BY <2>1, <2>3
<1>9. ASSUME UNCHANGED bgVars PROVE Bg!BgTypeOK'
  BY <1>9 DEF bgVars
<1>10. ASSUME Bg!KillOne \/ Bg!KillAll PROVE Bg!BgTypeOK'
  BY <1>8, <1>10 DEF Bg!KillOne, Bg!KillAll
<1> QED
  BY <1>1, <1>2, <1>3, <1>4, <1>5, <1>6, <1>7, <1>9, <1>10 DEF Bg!BgNext

LEMMA BgStep == BgIInv /\ [Bg!BgNext]_bgVars => BgIInv'
<1> SUFFICES ASSUME BgIInv, [Bg!BgNext]_bgVars PROVE BgIInv'
  OBVIOUS
<1>0. Bg!BgTypeOK'
  BY BgTypes DEF BgIInv
<1> USE RunsBounds, BashNames, <1>0
    DEF BgIInv, Bg!BgTypeOK, ServersKnown, NotYetBegun, OwnBaseline, OpenedAfter,
        Bg!DesktopIsSafe, Bg!Pid, Bg!NoSnapshot, Bg!Stage, Bg!Snapshot, Bg!InFlight
<1>1. ASSUME NEW b \in Bash, Bg!BashStart(b)
      PROVE  (ServersKnown /\ NotYetBegun /\ OwnBaseline /\ OpenedAfter /\ Bg!DesktopIsSafe)'
  <2> USE <1>1 DEF Bg!BashStart
  <2>1. (ServersKnown /\ Bg!DesktopIsSafe)'
    OBVIOUS
  <2>2. NotYetBegun'
    OBVIOUS
  <2>3. OwnBaseline'
    OBVIOUS
  <2>4. OpenedAfter'
    OBVIOUS
  <2> QED BY <2>1, <2>2, <2>3, <2>4
<1>2. ASSUME NEW b \in Bash, Bg!SnapshotBefore(b)
      PROVE  (ServersKnown /\ NotYetBegun /\ OwnBaseline /\ OpenedAfter /\ Bg!DesktopIsSafe)'
  <2> USE <1>2 DEF Bg!SnapshotBefore, Bg!Baseline
  <2>1. (ServersKnown /\ Bg!DesktopIsSafe)'
    OBVIOUS
  <2>2. NotYetBegun'
    OBVIOUS
  <2>3. OwnBaseline'
    <3>1. b \in Bg!InFlight /\ Bg!InFlight' \subseteq Bg!InFlight
      OBVIOUS
    <3>2. ASSUME NEW call \in surely, call # b
          PROVE  call \notin Bg!InFlight /\ call \notin Bg!InFlight'
      BY <3>1, <3>2
    <3>3. listenBefore' = [taken |-> TRUE, ports |-> seen'[b]]
      OBVIOUS
    <3>4. ASSUME NEW call \in surely', call # b
          PROVE  /\ call \notin Bg!InFlight'
                 /\ bash'[call] # "running" /\ call \notin snapping'
                 /\ bash'[call] = "binding" => before'[call].ports = seen'[call]
      BY <3>2, <3>4
    <3>5. b \in surely => /\ bash'[b] # "binding"
                          /\ Bg!InFlight' = {b}
      BY <3>1
    <3>6. b \notin snapping'
      OBVIOUS
    <3> SUFFICES ASSUME NEW call \in surely' PROVE
          /\ call \in Bg!InFlight' => Bg!InFlight' = {call}
          /\ (bash'[call] = "running" /\ call \notin snapping')
               => listenBefore' = [taken |-> TRUE, ports |-> seen'[call]]
          /\ bash'[call] = "binding" => before'[call].ports = seen'[call]
          /\ call \in snapping' => bash'[call] = "running"
      BY DEF OwnBaseline
    <3>7. CASE call = b
      BY <3>3, <3>5, <3>6, <3>7
    <3>8. CASE call # b
      BY <3>4, <3>8
    <3> QED BY <3>7, <3>8
  <2>4. OpenedAfter'
    OBVIOUS
  <2> QED BY <2>1, <2>2, <2>3, <2>4
<1>3. ASSUME NEW b \in Bash, Bg!BashEnd(b)
      PROVE  (ServersKnown /\ NotYetBegun /\ OwnBaseline /\ OpenedAfter /\ Bg!DesktopIsSafe)'
  <2> USE <1>3 DEF Bg!BashEnd
  <2>1. (ServersKnown /\ Bg!DesktopIsSafe)'
    OBVIOUS
  <2>2. NotYetBegun'
    OBVIOUS
  <2>3. OwnBaseline'
    OBVIOUS
  <2>4. OpenedAfter'
    OBVIOUS
  <2> QED BY <2>1, <2>2, <2>3, <2>4
<1>4. ASSUME NEW b \in Bash, Bg!TrackAfterBash(b)
      PROVE  (ServersKnown /\ NotYetBegun /\ OwnBaseline /\ OpenedAfter /\ Bg!DesktopIsSafe)'
  <2> USE <1>4 DEF Bg!TrackAfterBash, Bg!ShouldTrack, Bg!Fresh
  <2>1. (ServersKnown /\ Bg!DesktopIsSafe)'
    OBVIOUS
  <2>2. NotYetBegun'
    OBVIOUS
  <2>3. OwnBaseline'
    OBVIOUS
  <2>4. OpenedAfter'
    OBVIOUS
  <2> QED BY <2>1, <2>2, <2>3, <2>4
<1>5. ASSUME NEW p \in Port, Bg!Exit(p)
      PROVE  (ServersKnown /\ NotYetBegun /\ OwnBaseline /\ OpenedAfter /\ Bg!DesktopIsSafe)'
  <2> USE <1>5 DEF Bg!Exit
  <2>1. (ServersKnown /\ Bg!DesktopIsSafe)'
    OBVIOUS
  <2>2. NotYetBegun'
    OBVIOUS
  <2>3. OwnBaseline'
    OBVIOUS
  <2>4. OpenedAfter'
    OBVIOUS
  <2> QED BY <2>1, <2>2, <2>3, <2>4
<1>6. ASSUME NEW p \in Port, NEW who \in Bash \cup {"desktop", "unknown"}, Bg!Listen(p, who)
      PROVE  (ServersKnown /\ NotYetBegun /\ OwnBaseline /\ OpenedAfter /\ Bg!DesktopIsSafe)'
  <2> USE <1>6 DEF Bg!Listen
  <2>1. (ServersKnown /\ Bg!DesktopIsSafe)'
    OBVIOUS
  <2>2. NotYetBegun'
    OBVIOUS
  <2>3. OwnBaseline'
    OBVIOUS
  <2>4. OpenedAfter'
    OBVIOUS
  <2> QED BY <2>1, <2>2, <2>3, <2>4
<1>7. ASSUME Bg!Refresh
      PROVE  (ServersKnown /\ NotYetBegun /\ OwnBaseline /\ OpenedAfter /\ Bg!DesktopIsSafe)'
  <2> USE <1>7 DEF Bg!Refresh, Bg!Refreshed
  <2>1. (ServersKnown /\ Bg!DesktopIsSafe)'
    OBVIOUS
  <2>2. NotYetBegun'
    OBVIOUS
  <2>3. OwnBaseline'
    OBVIOUS
  <2>4. OpenedAfter'
    OBVIOUS
  <2> QED BY <2>1, <2>2, <2>3, <2>4
<1>8. ASSUME NEW ports \in SUBSET Port, Bg!Kill(ports)
      PROVE  (ServersKnown /\ NotYetBegun /\ OwnBaseline /\ OpenedAfter /\ Bg!DesktopIsSafe)'
  <2> USE <1>8 DEF Bg!Kill
  <2>1. (ServersKnown /\ Bg!DesktopIsSafe)'
    OBVIOUS
  <2>2. NotYetBegun'
    OBVIOUS
  <2>3. OwnBaseline'
    OBVIOUS
  <2>4. OpenedAfter'
    OBVIOUS
  <2> QED BY <2>1, <2>2, <2>3, <2>4
<1>9. ASSUME UNCHANGED bgVars
      PROVE  (ServersKnown /\ NotYetBegun /\ OwnBaseline /\ OpenedAfter /\ Bg!DesktopIsSafe)'
  BY <1>9 DEF bgVars
<1>10. ASSUME Bg!KillOne \/ Bg!KillAll PROVE \E ports \in SUBSET Port : Bg!Kill(ports)
  <2>1. ASSUME Bg!KillOne PROVE \E ports \in SUBSET Port : Bg!Kill(ports)
    <3>1. PICK p \in Port : Bg!Kill({p})
      BY <2>1 DEF Bg!KillOne
    <3>2. {p} \in SUBSET Port
      OBVIOUS
    <3> QED BY <3>1, <3>2
  <2> DEFINE all == {p \in Port : servers[p] # 0}
  <2>2. all \in SUBSET Port
    OBVIOUS
  <2>3. Bg!KillAll => Bg!Kill(all)
    BY DEF Bg!KillAll
  <2> HIDE DEF all
  <2> QED BY <1>10, <2>1, <2>2, <2>3
<1> QED
  BY <1>0, <1>1, <1>2, <1>3, <1>4, <1>5, <1>6, <1>7, <1>8, <1>9, <1>10 DEF Bg!BgNext

(* A call that can hang is guarded, no stray timer stops a healthy run, and *)
(* changed settings are applied, pending or reported; a server a command    *)
(* left running is found and no desktop program is killed.                  *)
THEOREM RunsAreGuarded == Spec => RunsGuarded
<1>1. Init => GuardFlags /\ GuardIInv /\ BgIInv
  BY GuardInitially, BgInitially DEF Init
<1>2. GuardFlags /\ GuardIInv /\ [Next]_vars => GuardFlags' /\ GuardIInv'
  <2>1. [Next]_vars => [Guards!GuardNext]_guardVars
    BY DEF Next, Rest, vars, guardVars
  <2> QED BY <2>1, GuardFlagsStep, GuardStep
<1>3. [Next]_vars => [Bg!BgNext]_bgVars
  BY DEF Next, Rest, vars, bgVars
<1>4. BgIInv /\ [Next]_vars => BgIInv'
  BY <1>3, BgStep
<1>5. GuardFlags /\ GuardIInv
        => /\ Guards!GuardTypeOK
           /\ Guards!HungCallsEnd /\ Guards!NoStrayTimers /\ Guards!SettingsFollow
  <2>1. GuardFlags /\ GuardTyped => Guards!GuardTypeOK
    BY Zenon DEF GuardFlags, GuardTyped, Guards!GuardTypeOK
  <2> QED BY <2>1 DEF GuardIInv
<1>6. BgIInv => Bg!BgTypeOK /\ Bg!DesktopIsSafe
  BY DEF BgIInv
<1>7. BgIInv /\ [Next]_vars
        => [\A b \in surely : Bg!TrackAfterBash(b) =>
              \A p \in Port : (listening[p] # 0 /\ owner[listening[p]] = b)
                => servers'[p] # 0]_Bg!bgVars
  BY BashNames
  DEF BgIInv, Bg!BgTypeOK, OwnBaseline, OpenedAfter, Bg!TrackAfterBash, Bg!Fresh,
      Bg!ShouldTrack
<1> QED
  BY <1>1, <1>2, <1>4, <1>5, <1>6, <1>7, PTL DEF Spec, RunsGuarded, Bg!ServersFound

-----------------------------------------------------------------------------
(* PromptQueue                                                              *)

(* Of two texts of one queue, by the kinds K and the crossed pairs C, the   *)
(* first goes before the second.                                            *)
Before(K, C, i, j) == K[i] = K[j] => (i < j \/ {i, j} \in C)

(* No text is twice in a list, and the list keeps the order of typing.      *)
InOrder(K, C, s) ==
  \A i, j \in 1..Len(s) : i < j => s[i] # s[j] /\ Before(K, C, s[i], s[j])

(* The texts of S are other texts than those of T, and go before them.      *)
Ahead(K, C, S, T) == \A x \in S, y \in T : x # y /\ Before(K, C, x, y)

OfKind(K, S, kind) == \A x \in S : K[x] = kind

(* The texts in the queues, those one removal holds, those they all hold.   *)
InQueue == Range(steering) \cup Range(followUp)
Holds(c) == Range(removal[c].steer) \cup Range(removal[c].followUp)
HeldTexts == UNION {Holds(c) : c \in Clicks}

QueueRecord ==
  removal \in [Clicks -> [busy : BOOLEAN, steer : Seq(1..Len(said)),
                          followUp : Seq(1..Len(said))]]

QueueTyped ==
  /\ said \in Seq(Words) /\ Len(said) <= MaxPrompts
  /\ kindOf \in Seq(Queue!QueueKind) /\ Len(kindOf) = Len(said)
  /\ steering \in Seq(1..Len(said)) /\ followUp \in Seq(1..Len(said))
  /\ delivered \in Seq(1..Len(said))
  /\ removed \subseteq 1..Len(said) /\ lost \subseteq 1..Len(said)

QueueLists ==
  /\ InOrder(kindOf, crossed, delivered)
  /\ InOrder(kindOf, crossed, steering) /\ OfKind(kindOf, Range(steering), "steer")
  /\ InOrder(kindOf, crossed, followUp) /\ OfKind(kindOf, Range(followUp), "followUp")

HeldLists ==
  \A c \in Clicks :
    /\ InOrder(kindOf, crossed, removal[c].steer)
    /\ OfKind(kindOf, Range(removal[c].steer), "steer")
    /\ InOrder(kindOf, crossed, removal[c].followUp)
    /\ OfKind(kindOf, Range(removal[c].followUp), "followUp")
    /\ ~removal[c].busy => removal[c].steer = <<>> /\ removal[c].followUp = <<>>

(* What was delivered went before what is queued, and that before what the  *)
(* removals hold; two removals hold texts that were crossed.                *)
QueueAhead ==
  /\ Ahead(kindOf, crossed, Range(delivered), InQueue \cup HeldTexts)
  /\ Ahead(kindOf, crossed, InQueue, HeldTexts)
  /\ \A c, d \in Clicks : c # d =>
       \A x \in Holds(c), y \in Holds(d) : x # y /\ {x, y} \in crossed

(* Every text is somewhere, and what was taken back or lost nowhere else.   *)
QueuePlaces ==
  /\ 1..Len(said) = Range(delivered) \cup InQueue \cup HeldTexts \cup removed \cup lost
  /\ removed \cap lost = {}
  /\ (removed \cup lost) \cap (Range(delivered) \cup InQueue \cup HeldTexts) = {}

QueueIInv ==
  QueueRecord /\ QueueTyped /\ QueueLists /\ HeldLists /\ QueueAhead /\ QueuePlaces

(* The operators of the queue are those of the facts about lists.           *)
LEMMA QueueOperators ==
  /\ \A s : Queue!Range(s) = Range(s)
  /\ \A s, i : Queue!RemoveAt(s, i) = RemoveAt(s, i)
  /\ Queue!Held = HeldTexts
  /\ \A S : Queue!Cardinality(S) = Cardinality(S)
<1>1. \A s : Queue!Range(s) = Range(s)
  BY DEF Queue!Range, Range
<1>2. \A s, i : Queue!RemoveAt(s, i) = RemoveAt(s, i)
  BY DEF Queue!RemoveAt, RemoveAt
<1>3. Queue!Held = HeldTexts
  BY <1>1, Zenon DEF Queue!Held, HeldTexts, Holds
<1>4. \A S : Queue!Cardinality(S) = Cardinality(S)
  BY Zenon DEF Queue!Cardinality, Cardinality
<1> QED BY <1>1, <1>2, <1>3, <1>4

(* A text goes behind the others.                                           *)
LEMMA AppendInOrder ==
  ASSUME NEW K, NEW C, NEW S, NEW s \in Seq(S), NEW x \in S, InOrder(K, C, s),
         \A y \in Range(s) : y # x /\ Before(K, C, y, x)
  PROVE  InOrder(K, C, Append(s, x))
<1> DEFINE r == Append(s, x)
<1>1. /\ Len(s) \in Nat /\ Len(r) = Len(s) + 1 /\ r[Len(s) + 1] = x
      /\ \A i \in 1..Len(s) : r[i] = s[i] /\ s[i] \in Range(s)
  BY AppendProperties, LenProperties, RangeEquality
<1> HIDE DEF r
<1>2. ASSUME NEW i \in 1..Len(r), NEW j \in 1..Len(r), i < j
      PROVE  r[i] # r[j] /\ Before(K, C, r[i], r[j])
  <2>1. i \in 1..Len(s) /\ (j \in 1..Len(s) \/ j = Len(s) + 1)
    BY <1>1, <1>2
  <2>2. CASE j \in 1..Len(s)
    BY <1>1, <1>2, <2>1, <2>2 DEF InOrder
  <2>3. CASE j = Len(s) + 1
    BY <1>1, <2>1, <2>3
  <2> QED BY <2>1, <2>2, <2>3
<1>3. InOrder(K, C, r)
  BY <1>2 DEF InOrder
<1> QED BY <1>3 DEF r

(* The first text goes before the others, which stay in order.              *)
LEMMA TailInOrder ==
  ASSUME NEW K, NEW C, NEW S, NEW s \in Seq(S), s # <<>>, InOrder(K, C, s)
  PROVE  /\ InOrder(K, C, Tail(s))
         /\ \A y \in Range(Tail(s)) : Head(s) # y /\ Before(K, C, Head(s), y)
<1> DEFINE r == Tail(s)
<1>1. /\ Len(s) \in Nat \ {0} /\ Head(s) = s[1]
      /\ r \in Seq(S) /\ Len(r) = Len(s) - 1
      /\ \A i \in 1..(Len(s) - 1) : r[i] = s[i + 1]
  BY HeadTailRange
<1>2. Range(r) = {r[i] : i \in 1..Len(r)}
  BY <1>1, RangeEquality
<1> HIDE DEF r
<1>3. \A i \in 1..Len(r) : i + 1 \in 1..Len(s) /\ 1 < i + 1 /\ r[i] = s[i + 1]
  BY <1>1
<1>4. 1 \in 1..Len(s)
  BY <1>1
<1>5. \A y \in Range(r) : s[1] # y /\ Before(K, C, s[1], y)
  BY <1>2, <1>3, <1>4 DEF InOrder
<1>6. ASSUME NEW i \in 1..Len(r), NEW j \in 1..Len(r), i < j
      PROVE  r[i] # r[j] /\ Before(K, C, r[i], r[j])
  <2>1. i + 1 < j + 1
    BY <1>6
  <2> QED BY <1>3, <2>1 DEF InOrder
<1>7. InOrder(K, C, r)
  BY <1>6 DEF InOrder
<1> QED BY <1>1, <1>5, <1>7 DEF r

(* One text is taken out, the others stay in order.                         *)
LEMMA RemoveInOrder ==
  ASSUME NEW K, NEW C, NEW S, NEW s \in Seq(S), NEW k \in 1..Len(s), InOrder(K, C, s)
  PROVE  /\ RemoveAt(s, k) \in Seq(S)
         /\ InOrder(K, C, RemoveAt(s, k))
         /\ s[k] \in Range(s) /\ s[k] \in S
         /\ Range(RemoveAt(s, k)) = Range(s) \ {s[k]}
<1> DEFINE r == RemoveAt(s, k)
<1>1. /\ r \in Seq(S) /\ Len(r) = Len(s) - 1 /\ Len(s) \in Nat
      /\ \A j \in 1..(Len(s) - 1) : r[j] = IF j < k THEN s[j] ELSE s[j + 1]
  BY RemoveAtProperties, LenProperties
<1>2. Range(r) = {s[j] : j \in (1..Len(s)) \ {k}}
  BY RemoveAtRange
<1>3. Range(s) = {s[j] : j \in 1..Len(s)}
  BY RangeEquality
<1> HIDE DEF r
<1>4. \A i, j \in 1..Len(s) : i # j => s[i] # s[j]
  <2> SUFFICES ASSUME NEW i \in 1..Len(s), NEW j \in 1..Len(s), i # j
               PROVE  s[i] # s[j]
    OBVIOUS
  <2>1. i < j \/ j < i
    BY <1>1
  <2> QED BY <2>1 DEF InOrder
<1>5. Range(r) = Range(s) \ {s[k]}
  BY <1>2, <1>3, <1>4
<1>6. ASSUME NEW i \in 1..Len(r), NEW j \in 1..Len(r), i < j
      PROVE  r[i] # r[j] /\ Before(K, C, r[i], r[j])
  <2> DEFINE g == IF i < k THEN i ELSE i + 1
             h == IF j < k THEN j ELSE j + 1
  <2>1. g \in 1..Len(s) /\ h \in 1..Len(s) /\ g < h
    BY <1>1, <1>6
  <2>2. r[i] = s[g] /\ r[j] = s[h]
    BY <1>1
  <2> HIDE DEF g, h
  <2> QED BY <2>1, <2>2 DEF InOrder
<1>7. InOrder(K, C, r)
  BY <1>6 DEF InOrder
<1>8. s[k] \in Range(s) /\ s[k] \in S
  BY <1>3, ElementOfSeq
<1> QED BY <1>1, <1>5, <1>7, <1>8 DEF r

(* More kinds and more crossed pairs keep the order there is.               *)
LEMMA OrderKept ==
  ASSUME NEW K, NEW C, NEW L, NEW D, NEW S, C \subseteq D, \A x \in S : L[x] = K[x]
  PROVE  /\ \A x, y \in S : Before(K, C, x, y) => Before(L, D, x, y)
         /\ \A s \in Seq(S) : InOrder(K, C, s) => InOrder(L, D, s)
         /\ \A kind : \A T \in SUBSET S : OfKind(K, T, kind) => OfKind(L, T, kind)
<1>1. \A x, y \in S : Before(K, C, x, y) => Before(L, D, x, y)
  BY DEF Before
<1>2. ASSUME NEW s \in Seq(S), InOrder(K, C, s) PROVE InOrder(L, D, s)
  <2>1. \A i \in 1..Len(s) : s[i] \in S
    BY ElementOfSeq
  <2> QED BY <1>1, <1>2, <2>1 DEF InOrder
<1>3. ASSUME NEW kind, NEW T \in SUBSET S, OfKind(K, T, kind) PROVE OfKind(L, T, kind)
  BY <1>3 DEF OfKind
<1> QED BY <1>1, <1>2, <1>3

(* A list of no texts is in order.                                          *)
LEMMA EmptyInOrder == \A K, C : InOrder(K, C, <<>>) /\ Range(<<>>) = {}
<1>1. <<>> \in Seq({}) /\ Len(<<>>) = 0
  BY EmptySeq
<1>a. \A S : \A s \in Seq(S) : Range(s) \in SUBSET S
  BY RangeOfSeq
<1>2. Range(<<>>) = {}
  <2>1. Range(<<>>) \in SUBSET {}
    BY <1>1, <1>a, Zenon
  <2> QED BY <2>1
<1> QED BY <1>1, <1>2 DEF InOrder

(* Nothing said yet: the invariant of the queue holds.                      *)
LEMMA QueueInitially == Queue!QueueInit => QueueIInv
<1> SUFFICES ASSUME Queue!QueueInit PROVE QueueIInv
  OBVIOUS
<1>1. /\ steering = <<>> /\ followUp = <<>> /\ delivered = <<>> /\ said = <<>>
      /\ kindOf = <<>> /\ removed = {} /\ lost = {}
      /\ \A c \in Clicks : removal[c].steer = <<>> /\ removal[c].followUp = <<>>
  BY DEF Queue!QueueInit, Queue!Idle
<1>2. Range(<<>>) = {} /\ InOrder(kindOf, crossed, <<>>)
  BY EmptyInOrder
<1>3. InQueue = {} /\ HeldTexts = {} /\ \A c \in Clicks : Holds(c) = {}
  BY <1>1, <1>2 DEF InQueue, HeldTexts, Holds
<1>4. QueueRecord
  BY EmptySeq DEF QueueRecord, Queue!QueueInit, Queue!Idle
<1>5. QueueTyped
  BY <1>1, EmptySeq, RunsBounds DEF QueueTyped
<1>6. QueueLists /\ HeldLists
  BY <1>1, <1>2 DEF QueueLists, HeldLists, OfKind
<1>7. QueueAhead
  BY <1>1, <1>2, <1>3 DEF QueueAhead, Ahead
<1>8. QueuePlaces
  BY <1>1, <1>2, <1>3, EmptySeq DEF QueuePlaces
<1> QED BY <1>4, <1>5, <1>6, <1>7, <1>8 DEF QueueIInv

(* What typing a text changes.                                              *)
LEMMA TypeProperties ==
  ASSUME QueueTyped, NEW word \in Words, NEW kind \in Queue!QueueKind,
         Queue!Type(word, kind), NEW n, n = Len(said) + 1
  PROVE  /\ n \in Nat \ {0} /\ Len(said) = n - 1 /\ Len(said') = n
         /\ 1..Len(said) \subseteq 1..n /\ n \notin 1..Len(said)
         /\ 1..Len(said') = (1..Len(said)) \cup {n}
         /\ said' \in Seq(Words) /\ Len(said') <= MaxPrompts
         /\ kindOf' \in Seq(Queue!QueueKind) /\ Len(kindOf') = n
         /\ \A i \in 1..Len(said) : kindOf'[i] = kindOf[i]
         /\ kindOf'[n] = kind
         /\ crossed \subseteq crossed'
         /\ \A x \in HeldTexts : {x, n} \in crossed'
         /\ UNCHANGED <<removal, delivered, removed, lost>>
         /\ \/ /\ kind = "steer"
               /\ steering' = Append(steering, n) /\ followUp' = followUp
            \/ /\ kind = "followUp"
               /\ followUp' = Append(followUp, n) /\ steering' = steering
<1>1. /\ said' = Append(said, word) /\ kindOf' = Append(kindOf, kind)
      /\ Len(said) < MaxPrompts
      /\ UNCHANGED <<removal, delivered, removed, lost>>
  BY DEF Queue!Type
<1>2. /\ Len(said) \in Nat /\ said' \in Seq(Words) /\ Len(said') = Len(said) + 1
  BY <1>1, AppendProperties, LenProperties DEF QueueTyped
<1>3. /\ kindOf' \in Seq(Queue!QueueKind) /\ Len(kindOf') = Len(kindOf) + 1
      /\ \A i \in 1..Len(kindOf) : kindOf'[i] = kindOf[i]
      /\ kindOf'[Len(kindOf) + 1] = kind
  BY <1>1, AppendProperties DEF QueueTyped
<1>4. Len(kindOf) = Len(said)
  BY DEF QueueTyped
<1>5. Len(said') = n
  BY <1>2
<1>6. /\ crossed' = crossed \cup {{i, n} : i \in HeldTexts}
      /\ IF kind = "steer"
         THEN steering' = Append(steering, n) /\ UNCHANGED followUp
         ELSE followUp' = Append(followUp, n) /\ UNCHANGED steering
  BY <1>5, QueueOperators DEF Queue!Type
<1>7. /\ n \in Nat \ {0} /\ Len(said) = n - 1 /\ n \notin 1..Len(said)
      /\ 1..Len(said) \subseteq 1..n /\ 1..n = (1..Len(said)) \cup {n}
      /\ Len(said') <= MaxPrompts
  BY <1>1, <1>2, RunsBounds
<1> QED BY <1>1, <1>2, <1>3, <1>4, <1>5, <1>6, <1>7 DEF Queue!QueueKind

(* The run takes the first text of a queue.                                 *)
LEMMA TakeProperties ==
  ASSUME QueueTyped, QueueLists, Queue!Take
  PROVE  \E x \in InQueue :
           /\ x \in 1..Len(said)
           /\ delivered' = Append(delivered, x)
           /\ InQueue' = InQueue \ {x}
           /\ \A y \in InQueue' : x # y /\ Before(kindOf, crossed, x, y)
           /\ steering' \in Seq(1..Len(said)) /\ followUp' \in Seq(1..Len(said))
           /\ InOrder(kindOf, crossed, steering') /\ InOrder(kindOf, crossed, followUp')
           /\ Range(steering') \subseteq Range(steering)
           /\ Range(followUp') \subseteq Range(followUp)
           /\ UNCHANGED <<said, kindOf, removal, removed, lost, crossed>>
<1>1. UNCHANGED <<said, kindOf, removal, removed, lost, crossed>>
  BY DEF Queue!Take
<1>k. \A x \in Range(steering), y \in Range(followUp) :
        x # y /\ Before(kindOf, crossed, x, y) /\ Before(kindOf, crossed, y, x)
  BY DEF QueueLists, OfKind, Before
<1>2. CASE /\ steering # <<>>
           /\ delivered' = Append(delivered, Head(steering))
           /\ steering' = Tail(steering) /\ UNCHANGED followUp
  <2> DEFINE x == Head(steering)
  <2>1. /\ x \in 1..Len(said) /\ steering' \in Seq(1..Len(said))
        /\ Range(steering) = Range(steering') \cup {x}
    BY <1>2, HeadTailRange DEF QueueTyped
  <2>2. /\ InOrder(kindOf, crossed, steering')
        /\ \A y \in Range(steering') : x # y /\ Before(kindOf, crossed, x, y)
    BY <1>2, TailInOrder DEF QueueTyped, QueueLists
  <2> HIDE DEF x
  <2>3. x \in InQueue /\ InQueue' = InQueue \ {x}
    BY <1>2, <1>k, <2>1, <2>2 DEF InQueue
  <2>4. \A y \in InQueue' : x # y /\ Before(kindOf, crossed, x, y)
    BY <1>2, <1>k, <2>1, <2>2 DEF InQueue
  <2>5. delivered' = Append(delivered, x)
    BY <1>2 DEF x
  <2>6. /\ followUp' \in Seq(1..Len(said)) /\ InOrder(kindOf, crossed, followUp')
        /\ Range(steering') \subseteq Range(steering)
        /\ Range(followUp') \subseteq Range(followUp)
    BY <1>2, <2>1 DEF QueueTyped, QueueLists
  <2> QED BY <1>1, <2>1, <2>2, <2>3, <2>4, <2>5, <2>6
<1>3. CASE /\ followUp # <<>>
           /\ delivered' = Append(delivered, Head(followUp))
           /\ followUp' = Tail(followUp) /\ UNCHANGED steering
  <2> DEFINE x == Head(followUp)
  <2>1. /\ x \in 1..Len(said) /\ followUp' \in Seq(1..Len(said))
        /\ Range(followUp) = Range(followUp') \cup {x}
    BY <1>3, HeadTailRange DEF QueueTyped
  <2>2. /\ InOrder(kindOf, crossed, followUp')
        /\ \A y \in Range(followUp') : x # y /\ Before(kindOf, crossed, x, y)
    BY <1>3, TailInOrder DEF QueueTyped, QueueLists
  <2> HIDE DEF x
  <2>3. x \in InQueue /\ InQueue' = InQueue \ {x}
    BY <1>3, <1>k, <2>1, <2>2 DEF InQueue
  <2>4. \A y \in InQueue' : x # y /\ Before(kindOf, crossed, x, y)
    BY <1>3, <1>k, <2>1, <2>2 DEF InQueue
  <2>5. delivered' = Append(delivered, x)
    BY <1>3 DEF x
  <2>6. /\ steering' \in Seq(1..Len(said)) /\ InOrder(kindOf, crossed, steering')
        /\ Range(steering') \subseteq Range(steering)
        /\ Range(followUp') \subseteq Range(followUp)
    BY <1>3, <2>1 DEF QueueTyped, QueueLists
  <2> QED BY <1>1, <2>1, <2>2, <2>3, <2>4, <2>5, <2>6
<1> QED BY <1>2, <1>3 DEF Queue!Take

(* The queue of kind without the text that equals the bubble's.             *)
LEMMA FirstRemoved ==
  ASSUME QueueTyped, QueueLists, NEW word, NEW kind \in Queue!QueueKind,
         \E i \in Queue!Range(Queue!Queued(kind)) : said[i] = word
  PROVE  \E k \in 1..Len(Queue!Queued(kind)) :
           Queue!RemoveFirstOccurrence(Queue!Queued(kind), word)
             = RemoveAt(Queue!Queued(kind), k)
<1> DEFINE q == Queue!Queued(kind)
           I == {i \in 1..Len(q) : said[q[i]] = word}
<1>1. q \in Seq(1..Len(said)) /\ Len(q) \in Nat
  BY LenProperties DEF Queue!Queued, QueueTyped
<1>2. \E i \in Range(q) : said[i] = word
  BY QueueOperators
<1>3. \E i \in 1..Len(q) : said[q[i]] = word
  BY <1>1, <1>2, RangeEquality
<1>4. I # {} /\ I \subseteq 1..Len(q)
  BY <1>3
<1>5. Min(I) \in I
  BY <1>1, <1>4, FirstIndex
<1>6. Min(I) \in 1..Len(q) /\ Min(I) # 0
  BY <1>4, <1>5
<1>7. Queue!RemoveFirstOccurrence(q, word)
        = IF (IF I # {} THEN Min(I) ELSE 0) = 0 THEN q
          ELSE RemoveAt(q, IF I # {} THEN Min(I) ELSE 0)
  BY Zenon DEF Queue!RemoveFirstOccurrence, Queue!SelectInSeq, Queue!Min, Min,
               Queue!RemoveAt, RemoveAt
<1> HIDE DEF I, q
<1>8. Queue!RemoveFirstOccurrence(q, word) = RemoveAt(q, Min(I))
  BY <1>4, <1>6, <1>7
<1>9. \E k \in 1..Len(q) : Queue!RemoveFirstOccurrence(q, word) = RemoveAt(q, k)
  BY <1>6, <1>8, Zenon
<1> QED BY <1>9 DEF q

(* A click empties both queues and holds all texts but one.                 *)
LEMMA RemoveProperties ==
  ASSUME QueueTyped, QueueLists, NEW c \in Clicks, NEW word \in Words,
         NEW kind \in Queue!QueueKind, Queue!RemoveQueued(c, kind, word)
  PROVE  \E x \in InQueue : \E a, b \in Seq(1..Len(said)) :
           /\ x \in 1..Len(said)
           /\ ~removal[c].busy
           /\ removal' = [removal EXCEPT ![c] = [busy |-> TRUE, steer |-> a,
                                                 followUp |-> b]]
           /\ removed' = removed \cup {x}
           /\ Range(a) \cup Range(b) = InQueue \ {x}
           /\ Range(a) \subseteq Range(steering) /\ InOrder(kindOf, crossed, a)
           /\ Range(b) \subseteq Range(followUp) /\ InOrder(kindOf, crossed, b)
           /\ steering' = <<>> /\ followUp' = <<>>
           /\ crossed \subseteq crossed'
           /\ \A y \in HeldTexts, z \in InQueue : {y, z} \in crossed'
           /\ UNCHANGED <<said, kindOf, delivered, lost>>
<1>1. /\ ~removal[c].busy /\ steering' = <<>> /\ followUp' = <<>>
      /\ UNCHANGED <<said, kindOf, delivered, lost>>
      /\ removal' = [removal EXCEPT ![c] =
           [busy |-> TRUE, steer |-> Queue!Kept(kind, word, "steer"),
            followUp |-> Queue!Kept(kind, word, "followUp")]]
      /\ removed' = removed \cup (Range(Queue!Queued(kind))
                                    \ Range(Queue!Kept(kind, word, kind)))
      /\ \E i \in Queue!Range(Queue!Queued(kind)) : said[i] = word
  BY QueueOperators, Zenon DEF Queue!RemoveQueued
<1>2. /\ crossed \subseteq crossed'
      /\ \A y \in Queue!Held, z \in Queue!Range(steering) \cup Queue!Range(followUp) :
           {y, z} \in crossed'
  BY DEF Queue!RemoveQueued
<1>3. crossed \subseteq crossed' /\ \A y \in HeldTexts, z \in InQueue : {y, z} \in crossed'
  BY <1>2, QueueOperators DEF InQueue
<1>4. PICK k \in 1..Len(Queue!Queued(kind)) :
        Queue!RemoveFirstOccurrence(Queue!Queued(kind), word)
          = RemoveAt(Queue!Queued(kind), k)
  BY <1>1, FirstRemoved
<1> DEFINE q == Queue!Queued(kind)
           r == RemoveAt(q, k)
           x == q[k]
<1>5. q \in Seq(1..Len(said)) /\ InOrder(kindOf, crossed, q)
  BY DEF Queue!Queued, QueueTyped, QueueLists
<1>6. /\ r \in Seq(1..Len(said)) /\ InOrder(kindOf, crossed, r)
      /\ x \in Range(q) /\ x \in 1..Len(said) /\ Range(r) = Range(q) \ {x}
  BY <1>4, <1>5, RemoveInOrder
<1>7. Queue!Kept(kind, word, kind) = r
  BY <1>4 DEF Queue!Kept
<1> HIDE DEF r, x, q
<1>8. removed' = removed \cup {x}
  BY <1>1, <1>6, <1>7 DEF q
<1>9. \A y \in Range(steering) : y \notin Range(followUp)
  BY DEF QueueLists, OfKind
<1>10. CASE kind = "steer"
  <2>1. q = steering /\ Queue!Kept(kind, word, "steer") = r
        /\ Queue!Kept(kind, word, "followUp") = followUp
    BY <1>7, <1>10 DEF q, Queue!Queued, Queue!Kept
  <2>2. Range(r) \cup Range(followUp) = InQueue \ {x} /\ x \in InQueue
    BY <1>6, <1>9, <2>1 DEF InQueue
  <2>3. /\ followUp \in Seq(1..Len(said)) /\ InOrder(kindOf, crossed, followUp)
        /\ Range(r) \subseteq Range(steering)
    BY <1>6, <2>1 DEF QueueTyped, QueueLists
  <2> QED BY <1>1, <1>3, <1>6, <1>8, <2>1, <2>2, <2>3
<1>11. CASE kind = "followUp"
  <2>1. q = followUp /\ Queue!Kept(kind, word, "followUp") = r
        /\ Queue!Kept(kind, word, "steer") = steering
    BY <1>7, <1>11 DEF q, Queue!Queued, Queue!Kept
  <2>2. Range(steering) \cup Range(r) = InQueue \ {x} /\ x \in InQueue
    BY <1>6, <1>9, <2>1 DEF InQueue
  <2>3. /\ steering \in Seq(1..Len(said)) /\ InOrder(kindOf, crossed, steering)
        /\ Range(r) \subseteq Range(followUp)
    BY <1>6, <2>1 DEF QueueTyped, QueueLists
  <2> QED BY <1>1, <1>3, <1>6, <1>8, <2>1, <2>2, <2>3
<1> QED BY <1>10, <1>11 DEF Queue!QueueKind

(* One await of the loops: the next text goes back into its queue or is     *)
(* lost; after the last one the removal is over.                            *)
LEMMA RequeueProperties ==
  ASSUME QueueRecord, QueueTyped, HeldLists, NEW c \in Clicks, Queue!Requeue(c)
  PROVE  /\ removal[c].busy
         /\ \A d \in Clicks : d # c => removal'[d] = removal[d]
         /\ UNCHANGED <<said, kindOf, delivered, removed, crossed>>
         /\ \/ \E x \in Holds(c) :
                 /\ x \in 1..Len(said)
                 /\ Holds(c)' = Holds(c) \ {x}
                 /\ \A y \in Holds(c)' : x # y /\ Before(kindOf, crossed, x, y)
                 /\ InOrder(kindOf, crossed, removal'[c].steer)
                 /\ Range(removal'[c].steer) \subseteq Range(removal[c].steer)
                 /\ InOrder(kindOf, crossed, removal'[c].followUp)
                 /\ Range(removal'[c].followUp) \subseteq Range(removal[c].followUp)
                 /\ removal'[c].busy
                 /\ \/ /\ kindOf[x] = "steer" /\ steering' = Append(steering, x)
                       /\ UNCHANGED <<followUp, lost>>
                    \/ /\ kindOf[x] = "followUp" /\ followUp' = Append(followUp, x)
                       /\ UNCHANGED <<steering, lost>>
                    \/ lost' = lost \cup {x} /\ UNCHANGED <<steering, followUp>>
            \/ /\ Holds(c)' = Holds(c)
               /\ removal'[c].steer = <<>> /\ removal'[c].followUp = <<>>
               /\ ~removal'[c].busy
               /\ UNCHANGED <<steering, followUp, lost>>
<1>1. /\ removal[c].busy
      /\ UNCHANGED <<said, kindOf, delivered, removed, crossed>>
  BY DEF Queue!Requeue
<1>2. removal[c].steer \in Seq(1..Len(said)) /\ removal[c].followUp \in Seq(1..Len(said))
  BY DEF QueueRecord
<1>k. \A x \in Range(removal[c].steer), y \in Range(removal[c].followUp) :
        x # y /\ Before(kindOf, crossed, x, y)
  BY DEF HeldLists, OfKind, Before
<1>3. CASE /\ removal[c].steer # <<>>
           /\ removal' = [removal EXCEPT ![c].steer = Tail(removal[c].steer)]
           /\ \/ steering' = Append(steering, Head(removal[c].steer)) /\ UNCHANGED lost
              \/ lost' = lost \cup {Head(removal[c].steer)} /\ UNCHANGED steering
           /\ UNCHANGED followUp
  <2> DEFINE x == Head(removal[c].steer)
             r == Tail(removal[c].steer)
  <2>1. x \in 1..Len(said) /\ Range(removal[c].steer) = Range(r) \cup {x}
    BY <1>2, <1>3, HeadTailRange
  <2>2. /\ InOrder(kindOf, crossed, r)
        /\ \A y \in Range(r) : x # y /\ Before(kindOf, crossed, x, y)
    BY <1>2, <1>3, TailInOrder DEF HeldLists
  <2>3. /\ removal'[c].steer = r /\ removal'[c].followUp = removal[c].followUp
        /\ removal'[c].busy = removal[c].busy
        /\ \A d \in Clicks : d # c => removal'[d] = removal[d]
    BY <1>3 DEF QueueRecord
  <2>4. \/ steering' = Append(steering, x) /\ UNCHANGED lost
        \/ lost' = lost \cup {x} /\ UNCHANGED steering
    BY <1>3
  <2> HIDE DEF x, r
  <2>5. Holds(c)' = Range(r) \cup Range(removal[c].followUp)
    BY <2>3 DEF Holds
  <2>6. x \in Holds(c) /\ Holds(c)' = Holds(c) \ {x}
    BY <1>k, <2>1, <2>2, <2>5 DEF Holds
  <2>7. \A y \in Holds(c)' : x # y /\ Before(kindOf, crossed, x, y)
    BY <1>k, <2>1, <2>2, <2>5
  <2>8. kindOf[x] = "steer"
    BY <2>1 DEF HeldLists, OfKind
  <2>9. InOrder(kindOf, crossed, removal[c].followUp)
    BY DEF HeldLists
  <2> QED BY <1>1, <1>3, <2>1, <2>2, <2>3, <2>4, <2>6, <2>7, <2>8, <2>9
<1>4. CASE /\ removal[c].steer = <<>> /\ removal[c].followUp # <<>>
           /\ removal' = [removal EXCEPT ![c].followUp = Tail(removal[c].followUp)]
           /\ \/ /\ followUp' = Append(followUp, Head(removal[c].followUp))
                 /\ UNCHANGED lost
              \/ lost' = lost \cup {Head(removal[c].followUp)} /\ UNCHANGED followUp
           /\ UNCHANGED steering
  <2> DEFINE x == Head(removal[c].followUp)
             r == Tail(removal[c].followUp)
  <2>1. x \in 1..Len(said) /\ Range(removal[c].followUp) = Range(r) \cup {x}
    BY <1>2, <1>4, HeadTailRange
  <2>2. /\ InOrder(kindOf, crossed, r)
        /\ \A y \in Range(r) : x # y /\ Before(kindOf, crossed, x, y)
    BY <1>2, <1>4, TailInOrder DEF HeldLists
  <2>3. /\ removal'[c].followUp = r /\ removal'[c].steer = removal[c].steer
        /\ removal'[c].busy = removal[c].busy
        /\ \A d \in Clicks : d # c => removal'[d] = removal[d]
    BY <1>4 DEF QueueRecord
  <2>4. \/ followUp' = Append(followUp, x) /\ UNCHANGED lost
        \/ lost' = lost \cup {x} /\ UNCHANGED followUp
    BY <1>4
  <2> HIDE DEF x, r
  <2>a. Range(removal[c].steer) = {}
    BY <1>4, EmptyInOrder
  <2>5. Holds(c)' = Range(r)
    BY <2>3, <2>a DEF Holds
  <2>6. x \in Holds(c) /\ Holds(c)' = Holds(c) \ {x}
    BY <2>a, <2>1, <2>2, <2>5 DEF Holds
  <2>7. \A y \in Holds(c)' : x # y /\ Before(kindOf, crossed, x, y)
    BY <2>1, <2>2, <2>5
  <2>8. kindOf[x] = "followUp"
    BY <2>1 DEF HeldLists, OfKind
  <2>9. InOrder(kindOf, crossed, removal[c].steer)
    BY DEF HeldLists
  <2> QED BY <1>1, <1>4, <2>1, <2>2, <2>3, <2>4, <2>6, <2>7, <2>8, <2>9
<1>5. CASE /\ removal[c].steer = <<>> /\ removal[c].followUp = <<>>
           /\ removal' = [removal EXCEPT ![c] = Queue!Idle]
           /\ UNCHANGED <<steering, followUp, lost>>
  <2>1. /\ removal'[c].steer = <<>> /\ removal'[c].followUp = <<>>
        /\ ~removal'[c].busy
        /\ \A d \in Clicks : d # c => removal'[d] = removal[d]
    BY <1>5 DEF QueueRecord, Queue!Idle
  <2>2. Holds(c)' = Holds(c)
    BY <1>5, <2>1 DEF Holds
  <2> QED BY <1>1, <1>5, <2>1, <2>2
<1> QED BY <1>3, <1>4, <1>5 DEF Queue!Requeue

(* The removals stay records of lists of texts.                             *)
LEMMA QueueRecordStep ==
  QueueRecord /\ QueueTyped /\ QueueLists /\ [Queue!QueueNext]_queueVars => QueueRecord'
<1> SUFFICES ASSUME QueueRecord, QueueTyped, QueueLists, [Queue!QueueNext]_queueVars
             PROVE  QueueRecord'
  OBVIOUS
<1>1. CASE UNCHANGED queueVars
  BY <1>1 DEF queueVars, QueueRecord
<1>2. CASE Queue!Take
  BY <1>2 DEF Queue!Take, QueueRecord
<1>3. ASSUME NEW word \in Words, NEW kind \in Queue!QueueKind, Queue!Type(word, kind)
      PROVE  QueueRecord'
  <2>1. PICK n : n = Len(said) + 1
    OBVIOUS
  <2>2. 1..Len(said) \subseteq 1..n /\ Len(said') = n /\ removal' = removal
    BY <1>3, <2>1, TypeProperties
  <2>3. \A s \in Seq(1..Len(said)) : s \in Seq(1..n)
    BY <2>2, SeqMonotonic
  <2>4. \A c \in Clicks :
          removal[c] \in [busy : BOOLEAN, steer : Seq(1..n), followUp : Seq(1..n)]
    BY <2>3 DEF QueueRecord
  <2>5. removal \in [Clicks -> [busy : BOOLEAN, steer : Seq(1..n), followUp : Seq(1..n)]]
    BY <2>4 DEF QueueRecord
  <2> QED BY <2>2, <2>5 DEF QueueRecord
<1>4. ASSUME NEW c \in Clicks, NEW word \in Words, NEW kind \in Queue!QueueKind,
             Queue!RemoveQueued(c, kind, word)
      PROVE  QueueRecord'
  <2>1. PICK a \in Seq(1..Len(said)), b \in Seq(1..Len(said)) :
          /\ removal' = [removal EXCEPT ![c] = [busy |-> TRUE, steer |-> a,
                                                followUp |-> b]]
          /\ said' = said
    BY <1>4, RemoveProperties
  <2> QED BY <2>1 DEF QueueRecord
<1>5. ASSUME NEW c \in Clicks, Queue!Requeue(c) PROVE QueueRecord'
  <2>1. /\ removal[c] \in [busy : BOOLEAN, steer : Seq(1..Len(said)),
                           followUp : Seq(1..Len(said))]
        /\ said' = said
    BY <1>5 DEF QueueRecord, Queue!Requeue
  <2>2. /\ removal[c].steer # <<>> => Tail(removal[c].steer) \in Seq(1..Len(said))
        /\ removal[c].followUp # <<>> => Tail(removal[c].followUp) \in Seq(1..Len(said))
        /\ <<>> \in Seq(1..Len(said))
    BY <2>1, HeadTailRange, EmptySeq
  <2>3. CASE /\ removal[c].steer # <<>>
             /\ removal' = [removal EXCEPT ![c].steer = Tail(removal[c].steer)]
    BY <2>1, <2>2, <2>3 DEF QueueRecord
  <2>4. CASE /\ removal[c].followUp # <<>>
             /\ removal' = [removal EXCEPT ![c].followUp = Tail(removal[c].followUp)]
    BY <2>1, <2>2, <2>4 DEF QueueRecord
  <2>5. CASE removal' = [removal EXCEPT ![c] = Queue!Idle]
    BY <2>1, <2>2, <2>5 DEF QueueRecord, Queue!Idle
  <2> QED BY <1>5, <2>3, <2>4, <2>5 DEF Queue!Requeue
<1> QED BY <1>1, <1>2, <1>3, <1>4, <1>5 DEF Queue!QueueNext

(* Every text of a list or of a removal is one that was said.               *)
LEMMA TextsTyped ==
  ASSUME QueueRecord, QueueTyped
  PROVE  /\ Range(delivered) \subseteq 1..Len(said)
         /\ Range(steering) \subseteq 1..Len(said)
         /\ Range(followUp) \subseteq 1..Len(said)
         /\ InQueue \subseteq 1..Len(said)
         /\ \A c \in Clicks : Holds(c) \subseteq 1..Len(said)
         /\ HeldTexts \subseteq 1..Len(said)
<1>1. /\ Range(delivered) \subseteq 1..Len(said)
      /\ Range(steering) \subseteq 1..Len(said)
      /\ Range(followUp) \subseteq 1..Len(said)
  BY RangeOfSeq DEF QueueTyped
<1>2. \A c \in Clicks : Holds(c) \subseteq 1..Len(said)
  <2> TAKE c \in Clicks
  <2>1. removal[c].steer \in Seq(1..Len(said)) /\ removal[c].followUp \in Seq(1..Len(said))
    BY DEF QueueRecord
  <2>2. /\ Range(removal[c].steer) \subseteq 1..Len(said)
        /\ Range(removal[c].followUp) \subseteq 1..Len(said)
    BY <2>1, RangeOfSeq
  <2> QED BY <2>2 DEF Holds
<1>3. HeldTexts \subseteq 1..Len(said)
  BY <1>2 DEF HeldTexts
<1> QED BY <1>1, <1>2, <1>3 DEF InQueue

(* Typing keeps the invariant: the new text is behind all of its queue, and *)
(* crosses what the removals hold.                                          *)
LEMMA TypeKeeps ==
  ASSUME QueueIInv, NEW word \in Words, NEW kind \in Queue!QueueKind,
         Queue!Type(word, kind)
  PROVE  QueueTyped' /\ QueueLists' /\ HeldLists' /\ QueueAhead' /\ QueuePlaces'
<1>1. PICK n : n = Len(said) + 1
  OBVIOUS
<1>2. QueueRecord /\ QueueTyped /\ QueueLists /\ HeldLists /\ QueueAhead /\ QueuePlaces
  BY DEF QueueIInv
<1> DEFINE N == 1..Len(said)
<1>3. /\ n \in Nat \ {0} /\ Len(said) = n - 1 /\ Len(said') = n
      /\ N \subseteq 1..n /\ n \notin N /\ 1..Len(said') = N \cup {n}
      /\ said' \in Seq(Words) /\ Len(said') <= MaxPrompts
      /\ kindOf' \in Seq(Queue!QueueKind) /\ Len(kindOf') = n
      /\ \A i \in N : kindOf'[i] = kindOf[i]
      /\ kindOf'[n] = kind
      /\ crossed \subseteq crossed'
      /\ \A x \in HeldTexts : {x, n} \in crossed'
      /\ UNCHANGED <<removal, delivered, removed, lost>>
      /\ \/ /\ kind = "steer"
            /\ steering' = Append(steering, n) /\ followUp' = followUp
         \/ /\ kind = "followUp"
            /\ followUp' = Append(followUp, n) /\ steering' = steering
  BY <1>1, <1>2, TypeProperties
<1>4. \A x \in N : x < n
  BY <1>3
<1>5. /\ Range(delivered) \subseteq N /\ Range(steering) \subseteq N
      /\ Range(followUp) \subseteq N /\ InQueue \subseteq N /\ HeldTexts \subseteq N
      /\ \A c \in Clicks : Holds(c) \subseteq N
  BY <1>2, TextsTyped
<1>6. /\ \A x, y \in N : Before(kindOf, crossed, x, y) => Before(kindOf', crossed', x, y)
      /\ \A s \in Seq(N) : InOrder(kindOf, crossed, s) => InOrder(kindOf', crossed', s)
      /\ \A k : \A T \in SUBSET N : OfKind(kindOf, T, k) => OfKind(kindOf', T, k)
  BY <1>3, OrderKept
<1>7. /\ delivered \in Seq(N) /\ steering \in Seq(N) /\ followUp \in Seq(N)
      /\ \A c \in Clicks : removal[c].steer \in Seq(N) /\ removal[c].followUp \in Seq(N)
      /\ \A c \in Clicks : /\ Range(removal[c].steer) \subseteq N
                           /\ Range(removal[c].followUp) \subseteq N
  BY <1>2, <1>5 DEF QueueTyped, QueueRecord, Holds
<1>8. \A x \in N : x # n /\ Before(kindOf', crossed', x, n)
  BY <1>3, <1>4 DEF Before
<1>9. \A s \in Seq(N) : s \in Seq(1..n)
  BY <1>3, SeqMonotonic
<1>10. /\ InOrder(kindOf', crossed', delivered)
       /\ InOrder(kindOf', crossed', steering) /\ OfKind(kindOf', Range(steering), "steer")
       /\ InOrder(kindOf', crossed', followUp)
       /\ OfKind(kindOf', Range(followUp), "followUp")
  BY <1>2, <1>5, <1>6, <1>7 DEF QueueLists
<1>11. /\ steering' \in Seq(1..n) /\ followUp' \in Seq(1..n) /\ InQueue' = InQueue \cup {n}
       /\ InOrder(kindOf', crossed', steering')
       /\ OfKind(kindOf', Range(steering'), "steer")
       /\ InOrder(kindOf', crossed', followUp')
       /\ OfKind(kindOf', Range(followUp'), "followUp")
  <2>1. n \in 1..n /\ steering \in Seq(1..n) /\ followUp \in Seq(1..n)
    BY <1>3, <1>7, <1>9
  <2>2. CASE kind = "steer" /\ steering' = Append(steering, n) /\ followUp' = followUp
    <3>1. /\ Append(steering, n) \in Seq(1..n)
          /\ Range(Append(steering, n)) = Range(steering) \cup {n}
      BY <2>1, AppendProperties, AppendRange
    <3>2. InOrder(kindOf', crossed', Append(steering, n))
      <4>1. \A y \in Range(steering) : y # n /\ Before(kindOf', crossed', y, n)
        BY <1>5, <1>8
      <4> QED BY <1>10, <2>1, <4>1, AppendInOrder
    <3>3. OfKind(kindOf', Range(steering) \cup {n}, "steer")
      BY <1>3, <1>10, <2>2 DEF OfKind
    <3> QED BY <1>10, <2>1, <2>2, <3>1, <3>2, <3>3 DEF InQueue
  <2>3. CASE kind = "followUp" /\ followUp' = Append(followUp, n) /\ steering' = steering
    <3>1. /\ Append(followUp, n) \in Seq(1..n)
          /\ Range(Append(followUp, n)) = Range(followUp) \cup {n}
      BY <2>1, AppendProperties, AppendRange
    <3>2. InOrder(kindOf', crossed', Append(followUp, n))
      <4>1. \A y \in Range(followUp) : y # n /\ Before(kindOf', crossed', y, n)
        BY <1>5, <1>8
      <4> QED BY <1>10, <2>1, <4>1, AppendInOrder
    <3>3. OfKind(kindOf', Range(followUp) \cup {n}, "followUp")
      BY <1>3, <1>10, <2>3 DEF OfKind
    <3> QED BY <1>10, <2>1, <2>3, <3>1, <3>2, <3>3 DEF InQueue
  <2> QED BY <1>3, <2>2, <2>3
<1>12. QueueTyped'
  <2>1. delivered' \in Seq(1..n) /\ removed' \subseteq 1..n /\ lost' \subseteq 1..n
    BY <1>2, <1>3, <1>7, <1>9 DEF QueueTyped
  <2> QED BY <1>3, <1>11, <2>1 DEF QueueTyped
<1>13. QueueLists'
  BY <1>3, <1>10, <1>11 DEF QueueLists
<1>14. HeldLists'
  <2> SUFFICES ASSUME NEW c \in Clicks
               PROVE  /\ InOrder(kindOf', crossed', removal[c].steer)
                      /\ OfKind(kindOf', Range(removal[c].steer), "steer")
                      /\ InOrder(kindOf', crossed', removal[c].followUp)
                      /\ OfKind(kindOf', Range(removal[c].followUp), "followUp")
                      /\ ~removal[c].busy => /\ removal[c].steer = <<>>
                                             /\ removal[c].followUp = <<>>
    BY <1>3 DEF HeldLists
  <2> QED BY <1>2, <1>6, <1>7 DEF HeldLists
<1>15. HeldTexts' = HeldTexts /\ \A c \in Clicks : Holds(c)' = Holds(c)
  BY <1>3 DEF HeldTexts, Holds
<1>16. QueueAhead'
  <2>1. \A x \in Range(delivered), y \in InQueue' \cup HeldTexts :
          x # y /\ Before(kindOf', crossed', x, y)
    BY <1>2, <1>5, <1>6, <1>8, <1>11 DEF QueueAhead, Ahead
  <2>2. \A x \in InQueue', y \in HeldTexts : x # y /\ Before(kindOf', crossed', x, y)
    <3>1. \A y \in HeldTexts : {n, y} = {y, n} /\ n # y
      BY <1>3, <1>5
    <3>2. \A y \in HeldTexts : n # y /\ Before(kindOf', crossed', n, y)
      BY <1>3, <3>1 DEF Before
    <3> QED BY <1>2, <1>5, <1>6, <1>11, <3>2 DEF QueueAhead, Ahead
  <2>3. \A c, d \in Clicks : c # d =>
          \A x \in Holds(c), y \in Holds(d) : x # y /\ {x, y} \in crossed'
    BY <1>2, <1>3 DEF QueueAhead
  <2> QED BY <1>3, <1>15, <2>1, <2>2, <2>3 DEF QueueAhead, Ahead
<1>17. QueuePlaces'
  <2>1. N = Range(delivered) \cup InQueue \cup HeldTexts \cup removed \cup lost
    BY <1>2 DEF QueuePlaces
  <2>2. N \cup {n} = Range(delivered) \cup InQueue' \cup HeldTexts \cup removed \cup lost
    BY <1>11, <2>1
  <2>3. n \notin removed \cup lost
    BY <1>2, <1>3 DEF QueueTyped
  <2> QED BY <1>2, <1>3, <1>11, <1>15, <2>2, <2>3 DEF QueuePlaces
<1> QED BY <1>12, <1>13, <1>14, <1>16, <1>17

(* Taking keeps the invariant: what is taken went before all that waits.    *)
LEMMA TakeKeeps ==
  ASSUME QueueIInv, Queue!Take
  PROVE  QueueTyped' /\ QueueLists' /\ HeldLists' /\ QueueAhead' /\ QueuePlaces'
<1>2. QueueRecord /\ QueueTyped /\ QueueLists /\ HeldLists /\ QueueAhead /\ QueuePlaces
  BY DEF QueueIInv
<1>3. PICK x \in InQueue :
           /\ x \in 1..Len(said)
           /\ delivered' = Append(delivered, x)
           /\ InQueue' = InQueue \ {x}
           /\ \A y \in InQueue' : x # y /\ Before(kindOf, crossed, x, y)
           /\ steering' \in Seq(1..Len(said)) /\ followUp' \in Seq(1..Len(said))
           /\ InOrder(kindOf, crossed, steering') /\ InOrder(kindOf, crossed, followUp')
           /\ Range(steering') \subseteq Range(steering)
           /\ Range(followUp') \subseteq Range(followUp)
           /\ UNCHANGED <<said, kindOf, removal, removed, lost, crossed>>
  BY <1>2, TakeProperties
<1>4. /\ delivered' \in Seq(1..Len(said)) /\ Range(delivered') = Range(delivered) \cup {x}
      /\ InOrder(kindOf, crossed, delivered')
  <2>1. \A y \in Range(delivered) : y # x /\ Before(kindOf, crossed, y, x)
    BY <1>2 DEF QueueAhead, Ahead
  <2>2. delivered \in Seq(1..Len(said)) /\ InOrder(kindOf, crossed, delivered)
    BY <1>2 DEF QueueTyped, QueueLists
  <2>3. /\ Append(delivered, x) \in Seq(1..Len(said))
        /\ Range(Append(delivered, x)) = Range(delivered) \cup {x}
    BY <1>3, <2>2, AppendProperties, AppendRange
  <2>4. InOrder(kindOf, crossed, Append(delivered, x))
    BY <1>3, <2>1, <2>2, AppendInOrder
  <2> QED BY <1>3, <2>3, <2>4
<1>5. HeldTexts' = HeldTexts /\ \A c \in Clicks : Holds(c)' = Holds(c)
  BY <1>3 DEF HeldTexts, Holds
<1>6. QueueTyped'
  BY <1>2, <1>3, <1>4 DEF QueueTyped
<1>7. QueueLists'
  <2>1. /\ OfKind(kindOf, Range(steering'), "steer")
        /\ OfKind(kindOf, Range(followUp'), "followUp")
    BY <1>2, <1>3 DEF QueueLists, OfKind
  <2> QED BY <1>3, <1>4, <2>1 DEF QueueLists
<1>8. HeldLists'
  BY <1>2, <1>3 DEF HeldLists
<1>9. QueueAhead'
  <2>1. \A w \in Range(delivered'), y \in InQueue' \cup HeldTexts :
          w # y /\ Before(kindOf, crossed, w, y)
    BY <1>2, <1>3, <1>4 DEF QueueAhead, Ahead
  <2>2. \A w \in InQueue', y \in HeldTexts : w # y /\ Before(kindOf, crossed, w, y)
    BY <1>2, <1>3 DEF QueueAhead, Ahead
  <2>3. \A c, d \in Clicks : c # d =>
          \A w \in Holds(c), y \in Holds(d) : w # y /\ {w, y} \in crossed
    BY <1>2 DEF QueueAhead
  <2> QED BY <1>3, <1>5, <2>1, <2>2, <2>3 DEF QueueAhead, Ahead
<1>10. QueuePlaces'
  <2>1. x \notin HeldTexts /\ x \notin removed \cup lost
    BY <1>2 DEF QueueAhead, Ahead, QueuePlaces
  <2> QED BY <1>2, <1>3, <1>4, <1>5, <2>1 DEF QueuePlaces
<1> QED BY <1>6, <1>7, <1>8, <1>9, <1>10

(* A click keeps the invariant: what it drains it holds, but for one text.  *)
LEMMA RemoveKeeps ==
  ASSUME QueueIInv, NEW c \in Clicks, NEW word \in Words, NEW kind \in Queue!QueueKind,
         Queue!RemoveQueued(c, kind, word)
  PROVE  QueueTyped' /\ QueueLists' /\ HeldLists' /\ QueueAhead' /\ QueuePlaces'
<1>2. QueueRecord /\ QueueTyped /\ QueueLists /\ HeldLists /\ QueueAhead /\ QueuePlaces
  BY DEF QueueIInv
<1>3. PICK x \in InQueue, a \in Seq(1..Len(said)), b \in Seq(1..Len(said)) :
           /\ x \in 1..Len(said)
           /\ ~removal[c].busy
           /\ removal' = [removal EXCEPT ![c] = [busy |-> TRUE, steer |-> a,
                                                 followUp |-> b]]
           /\ removed' = removed \cup {x}
           /\ Range(a) \cup Range(b) = InQueue \ {x}
           /\ Range(a) \subseteq Range(steering) /\ InOrder(kindOf, crossed, a)
           /\ Range(b) \subseteq Range(followUp) /\ InOrder(kindOf, crossed, b)
           /\ steering' = <<>> /\ followUp' = <<>>
           /\ crossed \subseteq crossed'
           /\ \A y \in HeldTexts, z \in InQueue : {y, z} \in crossed'
           /\ UNCHANGED <<said, kindOf, delivered, lost>>
  BY <1>2, RemoveProperties
<1> DEFINE N == 1..Len(said)
<1>4. /\ \A d \in Clicks : d # c => removal'[d] = removal[d]
      /\ removal'[c].busy /\ removal'[c].steer = a /\ removal'[c].followUp = b
  BY <1>2, <1>3 DEF QueueRecord
<1>5. /\ Range(delivered) \subseteq N /\ InQueue \subseteq N /\ HeldTexts \subseteq N
      /\ \A d \in Clicks : Holds(d) \subseteq N
  BY <1>2, TextsTyped
<1>6. /\ \A y, z \in N : Before(kindOf, crossed, y, z) => Before(kindOf', crossed', y, z)
      /\ \A s \in Seq(N) : InOrder(kindOf, crossed, s) => InOrder(kindOf', crossed', s)
      /\ \A k : \A T \in SUBSET N : OfKind(kindOf, T, k) => OfKind(kindOf', T, k)
  BY <1>3, OrderKept
<1>7. Range(<<>>) = {} /\ InOrder(kindOf', crossed', <<>>)
  BY EmptyInOrder
<1>8. InQueue' = {} /\ Holds(c)' = InQueue \ {x} /\ Holds(c) = {}
      /\ \A d \in Clicks : d # c => Holds(d)' = Holds(d)
  BY <1>2, <1>3, <1>4, <1>7 DEF InQueue, Holds, HeldLists
<1>9. HeldTexts' = HeldTexts \cup (InQueue \ {x})
  <2>1. \A y : (\E d \in Clicks : y \in Holds(d)')
                 <=> (\E d \in Clicks : y \in Holds(d)) \/ y \in InQueue \ {x}
    BY <1>8
  <2> QED BY <2>1 DEF HeldTexts
<1>10. QueueTyped'
  BY <1>2, <1>3, EmptySeq DEF QueueTyped
<1>11. QueueLists'
  <2>1. InOrder(kindOf', crossed', delivered)
    BY <1>2, <1>6 DEF QueueLists, QueueTyped
  <2> QED BY <1>3, <1>7, <2>1 DEF QueueLists, OfKind
<1>12. HeldLists'
  <2> SUFFICES ASSUME NEW d \in Clicks
               PROVE  /\ InOrder(kindOf', crossed', removal'[d].steer)
                      /\ OfKind(kindOf', Range(removal'[d].steer), "steer")
                      /\ InOrder(kindOf', crossed', removal'[d].followUp)
                      /\ OfKind(kindOf', Range(removal'[d].followUp), "followUp")
                      /\ ~removal'[d].busy => /\ removal'[d].steer = <<>>
                                              /\ removal'[d].followUp = <<>>
    BY DEF HeldLists
  <2>1. CASE d = c
    <3>1. OfKind(kindOf', Range(a), "steer") /\ OfKind(kindOf', Range(b), "followUp")
      BY <1>2, <1>3 DEF QueueLists, OfKind
    <3> QED BY <1>3, <1>4, <1>6, <2>1, <3>1
  <2>2. CASE d # c
    <3>1. removal[d].steer \in Seq(N) /\ removal[d].followUp \in Seq(N)
      BY <1>2 DEF QueueRecord
    <3>2. Range(removal[d].steer) \subseteq N /\ Range(removal[d].followUp) \subseteq N
      BY <1>5 DEF Holds
    <3> QED BY <1>2, <1>4, <1>6, <2>2, <3>1, <3>2 DEF HeldLists
  <2> QED BY <2>1, <2>2
<1>13. QueueAhead'
  <2>1. \A w \in Range(delivered), y \in HeldTexts' :
          w # y /\ Before(kindOf', crossed', w, y)
    BY <1>2, <1>5, <1>6, <1>9 DEF QueueAhead, Ahead
  <2>2. \A y \in HeldTexts, z \in InQueue :
          y # z /\ {y, z} \in crossed' /\ {z, y} \in crossed'
    <3>1. \A y, z : {y, z} = {z, y}
      OBVIOUS
    <3>2. \A y \in HeldTexts, z \in InQueue : y # z
      BY <1>2 DEF QueueAhead, Ahead
    <3> QED BY <1>3, <3>1, <3>2
  <2>3. ASSUME NEW d \in Clicks, NEW e \in Clicks, d # e,
               NEW w \in Holds(d)', NEW y \in Holds(e)'
        PROVE  w # y /\ {w, y} \in crossed'
    <3>1. CASE d # c /\ e # c
      BY <1>2, <1>3, <1>8, <2>3, <3>1 DEF QueueAhead
    <3>2. CASE d = c
      <4>1. w \in InQueue /\ y \in HeldTexts
        BY <1>8, <2>3, <3>2 DEF HeldTexts
      <4> QED BY <2>2, <4>1
    <3>3. CASE e = c
      <4>1. y \in InQueue /\ w \in HeldTexts
        BY <1>8, <2>3, <3>3 DEF HeldTexts
      <4> QED BY <2>2, <4>1
    <3> QED BY <3>1, <3>2, <3>3
  <2> QED BY <1>3, <1>8, <2>1, <2>3 DEF QueueAhead, Ahead
<1>14. QueuePlaces'
  <2>1. x \notin Range(delivered) /\ x \notin HeldTexts /\ x \notin removed \cup lost
    BY <1>2 DEF QueueAhead, Ahead, QueuePlaces
  <2> QED BY <1>2, <1>3, <1>8, <1>9, <2>1 DEF QueuePlaces
<1> QED BY <1>10, <1>11, <1>12, <1>13, <1>14

(* One await of a removal keeps the invariant: what goes back was ahead of  *)
(* the rest, and crossed with what the other removals hold.                 *)
LEMMA RequeueKeeps ==
  ASSUME QueueIInv, NEW c \in Clicks, Queue!Requeue(c)
  PROVE  QueueTyped' /\ QueueLists' /\ HeldLists' /\ QueueAhead' /\ QueuePlaces'
<1>2. QueueRecord /\ QueueTyped /\ QueueLists /\ HeldLists /\ QueueAhead /\ QueuePlaces
  BY DEF QueueIInv
<1>3. /\ \A d \in Clicks : d # c => removal'[d] = removal[d]
      /\ UNCHANGED <<said, kindOf, delivered, removed, crossed>>
  BY <1>2, RequeueProperties
<1>4. \A d \in Clicks : d # c => Holds(d)' = Holds(d)
  BY <1>3 DEF Holds
<1>5. CASE /\ Holds(c)' = Holds(c)
           /\ removal'[c].steer = <<>> /\ removal'[c].followUp = <<>>
           /\ UNCHANGED <<steering, followUp, lost>>
  <2>1. \A d \in Clicks : Holds(d)' = Holds(d)
    BY <1>4, <1>5
  <2>2. HeldTexts' = HeldTexts /\ InQueue' = InQueue
    BY <1>5, <2>1 DEF HeldTexts, InQueue
  <2>3. QueueTyped' /\ QueueLists'
    BY <1>2, <1>3, <1>5 DEF QueueTyped, QueueLists
  <2>4. HeldLists'
    <3>1. InOrder(kindOf, crossed, <<>>) /\ Range(<<>>) = {}
      BY EmptyInOrder
    <3> QED BY <1>2, <1>3, <1>5, <3>1 DEF HeldLists, OfKind
  <2>5. QueueAhead'
    BY <1>2, <1>3, <2>1, <2>2 DEF QueueAhead
  <2>6. QueuePlaces'
    BY <1>2, <1>3, <1>5, <2>2 DEF QueuePlaces
  <2> QED BY <2>3, <2>4, <2>5, <2>6
<1>6. ASSUME NEW x \in Holds(c),
             /\ x \in 1..Len(said)
             /\ Holds(c)' = Holds(c) \ {x}
             /\ \A y \in Holds(c)' : x # y /\ Before(kindOf, crossed, x, y)
             /\ InOrder(kindOf, crossed, removal'[c].steer)
             /\ Range(removal'[c].steer) \subseteq Range(removal[c].steer)
             /\ InOrder(kindOf, crossed, removal'[c].followUp)
             /\ Range(removal'[c].followUp) \subseteq Range(removal[c].followUp)
             /\ removal'[c].busy
             /\ \/ /\ kindOf[x] = "steer" /\ steering' = Append(steering, x)
                   /\ UNCHANGED <<followUp, lost>>
                \/ /\ kindOf[x] = "followUp" /\ followUp' = Append(followUp, x)
                   /\ UNCHANGED <<steering, lost>>
                \/ lost' = lost \cup {x} /\ UNCHANGED <<steering, followUp>>
      PROVE  QueueTyped' /\ QueueLists' /\ HeldLists' /\ QueueAhead' /\ QueuePlaces'
  <2>1. x \in HeldTexts /\ \A d \in Clicks : d # c => x \notin Holds(d)
    BY <1>2 DEF HeldTexts, QueueAhead
  <2>2. HeldTexts' = HeldTexts \ {x}
    <3>1. \A y : (\E d \in Clicks : y \in Holds(d)')
                   <=> (\E d \in Clicks : y \in Holds(d)) /\ y # x
      BY <1>4, <1>6, <2>1
    <3> QED BY <3>1 DEF HeldTexts
  <2>3. \A y \in InQueue \cup Range(delivered) : y # x /\ Before(kindOf, crossed, y, x)
    BY <1>2, <2>1 DEF QueueAhead, Ahead
  <2>4. /\ steering \in Seq(1..Len(said)) /\ followUp \in Seq(1..Len(said))
        /\ InOrder(kindOf, crossed, steering) /\ OfKind(kindOf, Range(steering), "steer")
        /\ InOrder(kindOf, crossed, followUp)
        /\ OfKind(kindOf, Range(followUp), "followUp")
    BY <1>2 DEF QueueTyped, QueueLists
  <2>5. /\ steering' \in Seq(1..Len(said)) /\ followUp' \in Seq(1..Len(said))
        /\ InOrder(kindOf, crossed, steering') /\ OfKind(kindOf, Range(steering'), "steer")
        /\ InOrder(kindOf, crossed, followUp')
        /\ OfKind(kindOf, Range(followUp'), "followUp")
        /\ \/ InQueue' = InQueue \cup {x} /\ lost' = lost
           \/ InQueue' = InQueue /\ lost' = lost \cup {x}
    <3>1. CASE /\ kindOf[x] = "steer" /\ steering' = Append(steering, x)
               /\ UNCHANGED <<followUp, lost>>
      <4>1. /\ Append(steering, x) \in Seq(1..Len(said))
            /\ Range(Append(steering, x)) = Range(steering) \cup {x}
        BY <1>6, <2>4, AppendProperties, AppendRange
      <4>2. InOrder(kindOf, crossed, Append(steering, x))
        <5>1. \A y \in Range(steering) : y # x /\ Before(kindOf, crossed, y, x)
          BY <2>3 DEF InQueue
        <5> QED BY <1>6, <2>4, <5>1, AppendInOrder
      <4>3. OfKind(kindOf, Range(steering) \cup {x}, "steer")
        BY <2>4, <3>1 DEF OfKind
      <4> QED BY <2>4, <3>1, <4>1, <4>2, <4>3 DEF InQueue
    <3>2. CASE /\ kindOf[x] = "followUp" /\ followUp' = Append(followUp, x)
               /\ UNCHANGED <<steering, lost>>
      <4>1. /\ Append(followUp, x) \in Seq(1..Len(said))
            /\ Range(Append(followUp, x)) = Range(followUp) \cup {x}
        BY <1>6, <2>4, AppendProperties, AppendRange
      <4>2. InOrder(kindOf, crossed, Append(followUp, x))
        <5>1. \A y \in Range(followUp) : y # x /\ Before(kindOf, crossed, y, x)
          BY <2>3 DEF InQueue
        <5> QED BY <1>6, <2>4, <5>1, AppendInOrder
      <4>3. OfKind(kindOf, Range(followUp) \cup {x}, "followUp")
        BY <2>4, <3>2 DEF OfKind
      <4> QED BY <2>4, <3>2, <4>1, <4>2, <4>3 DEF InQueue
    <3>3. CASE lost' = lost \cup {x} /\ UNCHANGED <<steering, followUp>>
      BY <2>4, <3>3 DEF InQueue
    <3> QED BY <1>6, <3>1, <3>2, <3>3
  <2>6. QueueTyped'
    BY <1>2, <1>3, <1>6, <2>5 DEF QueueTyped
  <2>7. QueueLists'
    BY <1>2, <1>3, <2>5 DEF QueueLists
  <2>8. HeldLists'
    <3> SUFFICES ASSUME NEW d \in Clicks
                 PROVE  /\ InOrder(kindOf, crossed, removal'[d].steer)
                        /\ OfKind(kindOf, Range(removal'[d].steer), "steer")
                        /\ InOrder(kindOf, crossed, removal'[d].followUp)
                        /\ OfKind(kindOf, Range(removal'[d].followUp), "followUp")
                        /\ ~removal'[d].busy => /\ removal'[d].steer = <<>>
                                                /\ removal'[d].followUp = <<>>
      BY <1>3 DEF HeldLists
    <3>1. CASE d = c
      BY <1>2, <1>6, <3>1 DEF HeldLists, OfKind
    <3>2. CASE d # c
      BY <1>2, <1>3, <3>2 DEF HeldLists
    <3> QED BY <3>1, <3>2
  <2>9. QueueAhead'
    <3>1. \A y \in HeldTexts' : x # y /\ Before(kindOf, crossed, x, y)
      <4> SUFFICES ASSUME NEW d \in Clicks, NEW y \in Holds(d)'
                   PROVE  x # y /\ Before(kindOf, crossed, x, y)
        BY DEF HeldTexts
      <4>1. CASE d = c
        BY <1>6, <4>1
      <4>2. CASE d # c
        BY <1>2, <1>4, <1>6, <4>2 DEF QueueAhead, Before
      <4> QED BY <4>1, <4>2
    <3>2. \A w \in Range(delivered), y \in InQueue' \cup HeldTexts' :
            w # y /\ Before(kindOf, crossed, w, y)
      BY <1>2, <2>1, <2>2, <2>5 DEF QueueAhead, Ahead
    <3>3. \A w \in InQueue', y \in HeldTexts' : w # y /\ Before(kindOf, crossed, w, y)
      BY <1>2, <2>2, <2>5, <3>1 DEF QueueAhead, Ahead
    <3>4. \A d \in Clicks : Holds(d)' \subseteq Holds(d)
      BY <1>4, <1>6
    <3>5. \A d, e \in Clicks : d # e =>
            \A w \in Holds(d)', y \in Holds(e)' : w # y /\ {w, y} \in crossed
      BY <1>2, <3>4 DEF QueueAhead
    <3> QED BY <1>3, <3>2, <3>3, <3>5 DEF QueueAhead, Ahead
  <2>10. QueuePlaces'
    <3>1. x \notin InQueue \cup Range(delivered) /\ x \notin removed \cup lost
      BY <1>2, <2>1, <2>3 DEF QueuePlaces
    <3> QED BY <1>2, <1>3, <2>1, <2>2, <2>5, <3>1 DEF QueuePlaces
  <2> QED BY <2>6, <2>7, <2>8, <2>9, <2>10
<1> QED BY <1>2, <1>5, <1>6, RequeueProperties

(* A text typed, taken by the run, removed or queued again keeps it.        *)
LEMMA QueueStep == QueueIInv /\ [Queue!QueueNext]_queueVars => QueueIInv'
<1> SUFFICES ASSUME QueueIInv, [Queue!QueueNext]_queueVars PROVE QueueIInv'
  OBVIOUS
<1>1. QueueRecord'
  BY QueueRecordStep DEF QueueIInv
<1>2. CASE UNCHANGED queueVars
  <2>1. UNCHANGED <<InQueue, HeldTexts>> /\ \A c \in Clicks : Holds(c)' = Holds(c)
    BY <1>2 DEF queueVars, InQueue, HeldTexts, Holds
  <2> QED BY <1>1, <1>2, <2>1
          DEF queueVars, QueueIInv, QueueTyped, QueueLists, HeldLists, QueueAhead,
              QueuePlaces
<1>3. CASE Queue!Take
  BY <1>1, <1>3, TakeKeeps DEF QueueIInv
<1>4. ASSUME NEW word \in Words, NEW kind \in Queue!QueueKind, Queue!Type(word, kind)
      PROVE  QueueIInv'
  BY <1>1, <1>4, TypeKeeps DEF QueueIInv
<1>5. ASSUME NEW c \in Clicks, Queue!Requeue(c) PROVE QueueIInv'
  BY <1>1, <1>5, RequeueKeeps DEF QueueIInv
<1>6. ASSUME NEW c \in Clicks, NEW word \in Words, NEW kind \in Queue!QueueKind,
             Queue!RemoveQueued(c, kind, word)
      PROVE  QueueIInv'
  BY <1>1, <1>6, RemoveKeeps DEF QueueIInv
<1> QED BY <1>2, <1>3, <1>4, <1>5, <1>6 DEF Queue!QueueNext

(* The invariant says where each text is, and in which order they went.     *)
LEMMA QueueHolds == QueueIInv => Queue!QueueConserved /\ Queue!QueueOrder
<1> SUFFICES ASSUME QueueIInv PROVE Queue!QueueConserved /\ Queue!QueueOrder
  OBVIOUS
<1>1. QueueTyped /\ QueueLists /\ QueueAhead /\ QueuePlaces
  BY DEF QueueIInv
<1> DEFINE P == Queue!Places
<1>2. /\ Len(P) = 6 /\ DOMAIN P = 1..6
      /\ P[1] = Range(steering) /\ P[2] = Range(followUp) /\ P[3] = HeldTexts
      /\ P[4] = Range(delivered) /\ P[5] = removed /\ P[6] = lost
  BY QueueOperators DEF Queue!Places
<1> HIDE DEF P
<1>3. Queue!Range(P) = {P[i] : i \in 1..6}
  BY <1>2 DEF Queue!Range
<1>4. UNION Queue!Range(P) = 1..Len(said)
  <2>1. \A x : (\E i \in 1..6 : x \in P[i]) <=>
                 x \in P[1] \cup P[2] \cup P[3] \cup P[4] \cup P[5] \cup P[6]
    OBVIOUS
  <2>2. UNION Queue!Range(P) = P[1] \cup P[2] \cup P[3] \cup P[4] \cup P[5] \cup P[6]
    BY <1>3, <2>1
  <2> QED BY <1>1, <1>2, <2>2 DEF QueuePlaces, InQueue
<1>5. /\ P[1] \cap P[2] = {}
      /\ (P[1] \cup P[2]) \cap P[3] = {}
      /\ (P[1] \cup P[2] \cup P[3]) \cap P[4] = {}
      /\ (P[1] \cup P[2] \cup P[3] \cup P[4]) \cap (P[5] \cup P[6]) = {}
      /\ P[5] \cap P[6] = {}
  BY <1>1, <1>2 DEF QueueLists, OfKind, QueueAhead, Ahead, QueuePlaces, InQueue
<1>6. \A i, j \in 1..Len(P) : i # j => P[i] \cap P[j] = {}
  <2> SUFFICES ASSUME NEW i \in 1..6, NEW j \in 1..6, i < j PROVE P[i] \cap P[j] = {}
    BY <1>2
  <2>1. CASE j = 2
    BY <1>5, <2>1
  <2>2. CASE j = 3
    BY <1>5, <2>2
  <2>3. CASE j = 4
    BY <1>5, <2>3
  <2>4. CASE j = 5
    BY <1>5, <2>4
  <2>5. CASE j = 6
    BY <1>5, <2>5
  <2> QED BY <2>1, <2>2, <2>3, <2>4, <2>5
<1>7. Len(delivered) = Queue!Cardinality(Queue!Range(delivered))
  <2>1. delivered \in Seq(1..Len(said)) /\ Len(delivered) \in Nat
    BY <1>1, LenProperties DEF QueueTyped
  <2>2. ASSUME NEW i \in 1..Len(delivered), NEW j \in 1..Len(delivered), i # j
        PROVE  delivered[i] # delivered[j]
    <3>1. i < j \/ j < i
      BY <2>1, <2>2
    <3> QED BY <1>1, <3>1 DEF QueueLists, InOrder
  <2>3. Len(delivered) = Cardinality(Range(delivered))
    BY <2>1, <2>2, DistinctLength
  <2> QED BY <2>3, QueueOperators
<1>8. Queue!QueueConserved
  <2>1. /\ UNION Queue!Range(Queue!Places) = 1..Len(said)
        /\ \A i, j \in 1..Len(Queue!Places) :
             i # j => Queue!Places[i] \cap Queue!Places[j] = {}
    BY <1>4, <1>6, Zenon DEF P
  <2> QED BY <1>7, <2>1, Zenon DEF Queue!QueueConserved
<1>9. Queue!QueueOrder
  BY <1>1 DEF QueueLists, InOrder, Before, Queue!QueueOrder
<1> QED BY <1>8, <1>9

(* Only a click makes a removal, and it takes back one text.                *)
LEMMA OneText ==
  QueueIInv /\ [Queue!QueueNext]_queueVars =>
    \A c \in Clicks : (~removal[c].busy /\ removal'[c].busy)
      => Queue!Cardinality(removed' \ removed) = 1
<1> SUFFICES ASSUME QueueIInv, [Queue!QueueNext]_queueVars,
                    NEW c \in Clicks, ~removal[c].busy, removal'[c].busy
             PROVE  Queue!Cardinality(removed' \ removed) = 1
  OBVIOUS
<1>1. /\ QueueRecord /\ QueueTyped /\ QueueLists /\ HeldLists /\ QueuePlaces
  BY DEF QueueIInv
<1>2. ASSUME NEW d \in Clicks, Queue!Requeue(d) PROVE FALSE
  <2>1. removal[d].busy /\ \A e \in Clicks : e # d => removal'[e] = removal[e]
    BY <1>1, <1>2, RequeueProperties
  <2> QED BY <2>1
<1>3. ASSUME NEW d \in Clicks, NEW word \in Words, NEW kind \in Queue!QueueKind,
             Queue!RemoveQueued(d, kind, word)
      PROVE  Queue!Cardinality(removed' \ removed) = 1
  <2>1. PICK x \in InQueue : removed' = removed \cup {x}
    BY <1>1, <1>3, RemoveProperties
  <2>2. x \notin removed
    BY <1>1 DEF QueuePlaces
  <2>3. removed' \ removed = {x}
    BY <2>1, <2>2
  <2> QED BY <2>3, FS_Singleton, QueueOperators
<1>4. removal' # removal
  OBVIOUS
<1> QED BY <1>2, <1>3, <1>4
        DEF Queue!QueueNext, queueVars, Queue!Take, Queue!Type

-----------------------------------------------------------------------------
(* Questions                                                                *)

(* A pending question with the number of q.                                 *)
Awaited(q) == \E i \in 1..Len(pending) : pending[i].no = q.no

(* Within one process the ids are the numbers, so that an answer means one  *)
(* question: what is pending, on its way or on a screen has been asked.     *)
SameIds ==
  /\ questionSeq = asked
  /\ \A i \in 1..Len(pending) : pending[i].id = pending[i].no /\ pending[i].no <= asked
  /\ \A t \in Tab :
       /\ panel[t].id = panel[t].no /\ panel[t].no <= asked
       /\ \A i \in 1..Len(down[t]) :
            /\ down[t][i].question.id = down[t][i].question.no
            /\ down[t][i].question.no <= asked
       /\ \A i \in 1..Len(up[t]) : up[t][i].id = up[t][i].no /\ up[t][i].no <= asked
       /\ answered[t] = given[t] /\ \A n \in given[t] : n <= asked

(* A tab that owes the model no answer, with nothing left to publish.       *)
Current(t) ==
  /\ t \in online /\ ~unsent
  /\ \A i \in 1..Len(pending) : pending[i].no \notin given[t]

(* What such a tab shows once it has received everything: the last message  *)
(* on its way names a question the model waits on, if there is one in the   *)
(* active conversation, and else none or such a question.                   *)
Waiting == \E i \in 1..Len(pending) : pending[i].chat = activeChat

Tells(t) ==
  /\ down[t] = <<>> =>
       /\ Waiting => Awaited(panel[t])
       /\ (source[t] = "snapshot" /\ panel[t].id # 0) => Awaited(panel[t])
  /\ down[t] # <<>> =>
       LET m == down[t][Len(down[t])] IN
       \/ Awaited(m.question)
       \/ m.type = "snapshot" /\ m.question = Ask!NoQuestion /\ ~Waiting

LastTells == \A t \in Tab : Current(t) => Tells(t)

(* The type invariant, its flag apart from the rest.                        *)
AskFlags == unsent \in BOOLEAN

AskTyped ==
  /\ questionSeq \in 0..MaxQuestions /\ asked \in 0..MaxQuestions
  /\ questionSeq <= asked
  /\ pending \in Seq([id : Ask!Number, no : Ask!Number, chat : Chat])
  /\ activeChat \in Chat /\ online \subseteq Tab
  /\ down \in [Tab -> Seq(Ask!Message)] /\ up \in [Tab -> Seq(Ask!Question)]
  /\ panel \in [Tab -> Ask!Question \cup {Ask!NoQuestion}]
  /\ source \in [Tab -> {"live", "snapshot"}]
  /\ answered \in [Tab -> SUBSET Ask!Number] /\ given \in [Tab -> SUBSET Ask!Number]
  /\ outcome \in [Ask!Number -> 0..MaxQuestions]
  /\ breaks \in 0..MaxBreaks /\ restarts \in 0..MaxRestarts

AskIInv ==
  AskTyped /\ (restarts = 0 => SameIds /\ LastTells /\ Ask!AnswersMatch)

(* No question asked yet: the invariant of the questions holds.             *)
LEMMA AskInitially == Ask!AskInit => AskFlags /\ AskIInv
<1> SUFFICES ASSUME Ask!AskInit PROVE AskFlags /\ AskIInv
  OBVIOUS
<1> USE RunsBounds DEF Ask!AskInit, Ask!Number, Ask!NoQuestion
<1>1. AskFlags
  BY DEF AskFlags
<1>2. AskTyped
  BY DEF AskTyped
<1>3. SameIds
  BY DEF SameIds
<1>4. LastTells
  BY DEF LastTells, Tells, Waiting
<1>5. Ask!AnswersMatch
  BY DEF Ask!AnswersMatch
<1> QED BY <1>1, <1>2, <1>3, <1>4, <1>5 DEF AskIInv

(* What a snapshot names: a question of the active conversation that is     *)
(* pending, or none when there is none.                                     *)
LEMMA SnapshotNames ==
  ASSUME AskTyped
  PROVE  \/ /\ Ask!PendingQuestionForSnapshot = Ask!NoQuestion
            /\ ~ \E i \in 1..Len(pending) : pending[i].chat = activeChat
         \/ \E i \in 1..Len(pending) :
              /\ pending[i].chat = activeChat
              /\ Ask!PendingQuestionForSnapshot
                   = [id |-> pending[i].id, no |-> pending[i].no]
<1> DEFINE I == {i \in 1..Len(pending) : pending[i].chat = activeChat}
           k == IF I # {} THEN Min(I) ELSE 0
<1>1. Ask!PendingQuestionForSnapshot
        = IF k = 0 THEN Ask!NoQuestion ELSE [id |-> pending[k].id, no |-> pending[k].no]
  BY Zenon DEF Ask!PendingQuestionForSnapshot, Ask!SelectInSeq, Ask!Min, Min
<1>2. Len(pending) \in Nat
  BY LenProperties DEF AskTyped
<1>3. I \subseteq 1..Len(pending)
  OBVIOUS
<1>4. I # {} => Min(I) \in I
  BY <1>2, <1>3, FirstIndex
<1>5. CASE I = {}
  BY <1>1, <1>5
<1>6. CASE I # {}
  <2>1. Min(I) \in I /\ k = Min(I)
    BY <1>4, <1>6
  <2>2. k \in 1..Len(pending) /\ pending[k].chat = activeChat /\ k # 0
    BY <2>1
  <2> HIDE DEF k
  <2> QED BY <1>1, <2>2
<1> QED BY <1>5, <1>6

(* The pending questions are records, and so is what a snapshot names.      *)
LEMMA SnapshotType ==
  ASSUME AskTyped
  PROVE  /\ Ask!PendingQuestionForSnapshot \in Ask!Question \cup {Ask!NoQuestion}
         /\ \A i \in 1..Len(pending) :
              /\ pending[i] \in [id : Ask!Number, no : Ask!Number, chat : Chat]
              /\ pending[i].id \in Ask!Number /\ pending[i].no \in Ask!Number
<1>1. \A i \in 1..Len(pending) :
         pending[i] \in [id : Ask!Number, no : Ask!Number, chat : Chat]
  BY ElementOfSeq DEF AskTyped
<1> QED BY <1>1, SnapshotNames DEF Ask!Question

(* A message is added behind the others, for the tabs it is sent to.        *)
Added(tabs, m) ==
  /\ \A t \in Tab : t \notin tabs => down'[t] = down[t]
  /\ \A t \in Tab : t \in tabs =>
       /\ down'[t] # <<>> /\ Len(down'[t]) = Len(down[t]) + 1
       /\ Len(down[t]) \in Nat
       /\ \A i \in 1..Len(down[t]) : down'[t][i] = down[t][i]
       /\ down'[t][Len(down[t]) + 1] = m

(* A message sent to some tabs goes behind the others on their wires.       *)
LEMMA SendProperties ==
  ASSUME AskTyped, NEW tabs, NEW q \in Ask!Question \cup {Ask!NoQuestion},
         NEW type \in {"question_pending", "snapshot"}, Ask!Send(tabs, type, q)
  PROVE  /\ down' \in [Tab -> Seq(Ask!Message)]
         /\ Added(tabs, [type |-> type, question |-> q])
<1> DEFINE m == [type |-> type, question |-> q]
<1>1. m \in Ask!Message
  BY DEF Ask!Message
<1> HIDE DEF m
<1>2. \A t \in Tab : down[t] \in Seq(Ask!Message)
  BY DEF AskTyped
<1>3. down' = [t \in Tab |-> IF t \in tabs THEN Append(down[t], m) ELSE down[t]]
  BY DEF Ask!Send, m
<1>4. \A t \in Tab :
         /\ Append(down[t], m) \in Seq(Ask!Message)
         /\ Append(down[t], m) # <<>>
         /\ Len(Append(down[t], m)) = Len(down[t]) + 1
         /\ Len(down[t]) \in Nat
         /\ \A i \in 1..Len(down[t]) : Append(down[t], m)[i] = down[t][i]
         /\ Append(down[t], m)[Len(down[t]) + 1] = m
  BY <1>1, <1>2, AppendProperties, LenProperties
<1>5. down' \in [Tab -> Seq(Ask!Message)]
  BY <1>2, <1>3, <1>4
<1>6. \A t \in Tab : down'[t] = IF t \in tabs THEN Append(down[t], m) ELSE down[t]
  BY <1>3
<1> QED BY <1>4, <1>5, <1>6 DEF m, Added

(* A new question has the next number.                                      *)
LEMMA AskProperties ==
  ASSUME AskTyped, NEW chat \in Chat, Ask!Ask(chat)
  PROVE  /\ questionSeq' \in Ask!Number /\ asked' \in Ask!Number
         /\ questionSeq' = questionSeq + 1 /\ asked' = asked + 1
         /\ pending' \in Seq([id : Ask!Number, no : Ask!Number, chat : Chat])
         /\ Len(pending) \in Nat /\ Len(pending') = Len(pending) + 1
         /\ \A i \in 1..Len(pending) : pending'[i] = pending[i]
         /\ pending'[Len(pending) + 1]
              = [id |-> questionSeq', no |-> asked', chat |-> chat]
         /\ [id |-> questionSeq', no |-> asked'] \in Ask!Question
<1>1. /\ questionSeq' = questionSeq + 1 /\ asked' = asked + 1
      /\ questionSeq' \in Ask!Number /\ asked' \in Ask!Number
  BY RunsBounds DEF Ask!Ask, AskTyped, Ask!Number
<1> DEFINE p == [id |-> questionSeq', no |-> asked', chat |-> chat]
<1>2. p \in [id : Ask!Number, no : Ask!Number, chat : Chat]
  BY <1>1
<1>3. pending' = Append(pending, p)
  BY DEF Ask!Ask
<1> HIDE DEF p
<1>4. /\ pending' \in Seq([id : Ask!Number, no : Ask!Number, chat : Chat])
      /\ Len(pending) \in Nat /\ Len(pending') = Len(pending) + 1
      /\ \A i \in 1..Len(pending) : pending'[i] = pending[i]
      /\ pending'[Len(pending) + 1] = p
  BY <1>2, <1>3, AppendProperties, LenProperties DEF AskTyped
<1> QED BY <1>1, <1>4 DEF Ask!Question, p

(* What the first answer on its way does: it ends a pending question with   *)
(* its id, or nothing.                                                      *)
LEMMA ResolveProperties ==
  ASSUME AskTyped, NEW t \in Tab, Ask!ResolveQuestion(t)
  PROVE  /\ up[t] # <<>> /\ Head(up[t]) \in Ask!Question /\ Head(up[t]) = up[t][1]
         /\ 1 \in 1..Len(up[t])
         /\ up' \in [Tab -> Seq(Ask!Question)]
         /\ \A u \in Tab : \A i \in 1..Len(up'[u]) :
              \E j \in 1..Len(up[u]) : up'[u][i] = up[u][j]
         /\ \/ UNCHANGED <<outcome, pending, unsent>>
            \/ \E k \in 1..Len(pending) :
                 /\ pending[k].id = Head(up[t]).id
                 /\ outcome' = [outcome EXCEPT ![pending[k].no] = Head(up[t]).no]
                 /\ pending' \in Seq([id : Ask!Number, no : Ask!Number, chat : Chat])
                 /\ \A i \in 1..Len(pending') :
                      \E j \in 1..Len(pending) : pending'[i] = pending[j]
                 /\ unsent' = TRUE
<1>1. up[t] \in Seq(Ask!Question) /\ up[t] # <<>>
  BY DEF AskTyped, Ask!ResolveQuestion
<1>2. /\ Len(up[t]) \in Nat \ {0} /\ Head(up[t]) = up[t][1]
      /\ Head(up[t]) \in Ask!Question
      /\ Tail(up[t]) \in Seq(Ask!Question) /\ Len(Tail(up[t])) = Len(up[t]) - 1
      /\ \A i \in 1..(Len(up[t]) - 1) : Tail(up[t])[i] = up[t][i + 1]
  BY <1>1, HeadTailRange
<1>3. up' = [up EXCEPT ![t] = Tail(@)]
  BY DEF Ask!ResolveQuestion
<1>4. up' \in [Tab -> Seq(Ask!Question)]
  BY <1>2, <1>3 DEF AskTyped
<1>5. ASSUME NEW u \in Tab, NEW i \in 1..Len(up'[u])
      PROVE  \E j \in 1..Len(up[u]) : up'[u][i] = up[u][j]
  <2>1. CASE u = t
    <3>1. up'[u] = Tail(up[t])
      BY <1>3, <2>1 DEF AskTyped
    <3>2. i \in 1..(Len(up[t]) - 1) /\ i + 1 \in 1..Len(up[t])
      BY <3>1, <1>2
    <3> QED BY <3>1, <3>2, <1>2, <2>1
  <2>2. CASE u # t
    BY <1>3, <2>2 DEF AskTyped
  <2> QED BY <2>1, <2>2
<1>6. CASE ~ Ask!Matches(Head(up[t]).id)
  <2>1. UNCHANGED <<outcome, pending, unsent>>
    BY <1>6 DEF Ask!ResolveQuestion
  <2> QED BY <1>1, <1>2, <1>4, <1>5, <2>1
<1>7. CASE Ask!Matches(Head(up[t]).id)
  <2> DEFINE id == Head(up[t]).id
             J == {j \in 1..Len(pending) : pending[j].id = id}
             k == Max({1} \cup J)
  <2>1. /\ outcome' = [outcome EXCEPT ![pending[k].no] = Head(up[t]).no]
        /\ pending' = RemoveAt(pending, k)
        /\ unsent' = TRUE
    BY <1>7, Zenon DEF Ask!ResolveQuestion, Ask!Max, Max, Ask!RemoveAt, RemoveAt
  <2>2. /\ pending \in Seq([id : Ask!Number, no : Ask!Number, chat : Chat])
        /\ Len(pending) \in Nat
    BY LenProperties DEF AskTyped
  <2>3. PICK j \in 1..Len(pending) : pending[j].id = id
    BY <1>7 DEF Ask!Matches
  <2>4. k \in {1} \cup J /\ k >= j
    <3>1. {1} \cup J \subseteq 0..Len(pending) /\ j \in {1} \cup J
      BY <2>2, <2>3
    <3> QED BY <2>2, <3>1, GreatestOf
  <2>5. k \in 1..Len(pending) /\ pending[k].id = id
    <3>1. CASE k \in J
      BY <3>1
    <3>2. CASE k = 1
      <4>1. j = 1
        BY <2>3, <2>4, <3>2
      <4> QED BY <4>1, <2>3, <3>2
    <3> QED BY <3>1, <3>2, <2>4
  <2> HIDE DEF k
  <2>6. /\ pending' \in Seq([id : Ask!Number, no : Ask!Number, chat : Chat])
        /\ Len(pending') = Len(pending) - 1
        /\ \A i \in 1..(Len(pending) - 1) :
             pending'[i] = IF i < k THEN pending[i] ELSE pending[i + 1]
    BY <2>1, <2>2, <2>5, RemoveAtProperties
  <2>7. \A i \in 1..Len(pending') : \E h \in 1..Len(pending) : pending'[i] = pending[h]
    <3> TAKE i \in 1..Len(pending')
    <3>1. i \in 1..Len(pending) /\ i + 1 \in 1..Len(pending)
      BY <2>2, <2>6
    <3>2. pending'[i] = pending[i] \/ pending'[i] = pending[i + 1]
      BY <2>6
    <3> QED BY <3>1, <3>2
  <2> HIDE DEF id
  <2>8. \E h \in 1..Len(pending) :
         /\ pending[h].id = id
         /\ outcome' = [outcome EXCEPT ![pending[h].no] = Head(up[t]).no]
         /\ pending' \in Seq([id : Ask!Number, no : Ask!Number, chat : Chat])
         /\ \A i \in 1..Len(pending') :
              \E g \in 1..Len(pending) : pending'[i] = pending[g]
         /\ unsent' = TRUE
    BY <2>1, <2>5, <2>6, <2>7, Zenon
  <2>9. 1 \in 1..Len(up[t])
    BY <1>2
  <2> QED BY <1>1, <1>2, <1>4, <1>5, <2>8, <2>9, Zenon DEF id
<1> QED BY <1>6, <1>7

(* The flags stay flags.                                                    *)
LEMMA AskFlagsStep == AskFlags /\ [Ask!AskNext]_askVars => AskFlags'
<1> SUFFICES ASSUME AskFlags, [Ask!AskNext]_askVars PROVE AskFlags'
  OBVIOUS
<1> USE DEF AskFlags
<1>1. CASE UNCHANGED askVars
  BY <1>1 DEF askVars
<1>2. CASE Ask!Publish
  BY <1>2 DEF Ask!Publish
<1>3. CASE Ask!Restart
  BY <1>3 DEF Ask!Restart
<1>4. CASE \E chat \in Chat : Ask!Ask(chat) \/ Ask!SwitchChat(chat)
  BY <1>4 DEF Ask!Ask, Ask!SwitchChat
<1>5. ASSUME NEW t \in Tab, Ask!ResolveQuestion(t) PROVE AskFlags'
  BY <1>5, Zenon DEF Ask!ResolveQuestion
<1>6. ASSUME NEW t \in Tab,
             \/ Ask!Receive(t) \/ Ask!Answer(t) \/ Ask!Break(t) \/ Ask!Reconnect(t)
             \/ Ask!ReloadPage(t)
      PROVE  AskFlags'
  BY <1>6
  DEF Ask!Receive, Ask!Answer, Ask!Break, Ask!Reconnect, Ask!ReloadPage
<1> QED BY <1>1, <1>2, <1>3, <1>4, <1>5, <1>6 DEF Ask!AskNext

(* What a tab makes of the first message on its way.                        *)
LEMMA ReceiveProperties ==
  ASSUME AskTyped, NEW t \in Tab, Ask!Receive(t)
  PROVE  /\ down[t] # <<>> /\ down[t][1] \in Ask!Message /\ Len(down[t]) \in Nat \ {0}
         /\ down' \in [Tab -> Seq(Ask!Message)]
         /\ \A u \in Tab : u # t => down'[u] = down[u]
         /\ Len(down'[t]) = Len(down[t]) - 1
         /\ \A i \in 1..(Len(down[t]) - 1) : down'[t][i] = down[t][i + 1]
         /\ panel' \in [Tab -> Ask!Question \cup {Ask!NoQuestion}]
         /\ source' \in [Tab -> {"live", "snapshot"}]
         /\ \A u \in Tab : u # t => panel'[u] = panel[u] /\ source'[u] = source[u]
         /\ \/ /\ down[t][1].type = "question_pending"
               /\ panel'[t] = down[t][1].question /\ source'[t] = "live"
            \/ /\ down[t][1].type = "snapshot"
               /\ \/ /\ down[t][1].question.id # 0
                     /\ down[t][1].question.id \notin answered[t]
                     /\ \/ /\ panel[t].id = down[t][1].question.id
                           /\ panel'[t] = panel[t] /\ source'[t] = source[t]
                        \/ /\ panel'[t] = down[t][1].question
                           /\ source'[t] = "snapshot"
                  \/ /\ down[t][1].question.id = 0
                     /\ panel[t].id # 0 /\ source[t] = "snapshot"
                     /\ panel'[t] = Ask!NoQuestion /\ source'[t] = "live"
                  \/ /\ \/ /\ down[t][1].question.id = 0
                           /\ panel[t].id = 0 \/ source[t] # "snapshot"
                        \/ /\ down[t][1].question.id # 0
                           /\ down[t][1].question.id \in answered[t]
                     /\ panel'[t] = panel[t] /\ source'[t] = source[t]
<1> DEFINE m == Head(down[t])
           d == IF m.type = "question_pending" THEN <<m.question, "live">>
                ELSE Ask!ResolvePendingQuestion(t, m.question)
<1>1. down[t] \in Seq(Ask!Message) /\ down[t] # <<>>
  BY DEF AskTyped, Ask!Receive
<1>2. /\ Len(down[t]) \in Nat \ {0} /\ m = down[t][1] /\ m \in Ask!Message
      /\ Tail(down[t]) \in Seq(Ask!Message) /\ Len(Tail(down[t])) = Len(down[t]) - 1
      /\ \A i \in 1..(Len(down[t]) - 1) : Tail(down[t])[i] = down[t][i + 1]
  BY <1>1, HeadTailRange
<1>3. /\ down' = [down EXCEPT ![t] = Tail(@)]
      /\ panel' = [panel EXCEPT ![t] = d[1]] /\ source' = [source EXCEPT ![t] = d[2]]
  BY DEF Ask!Receive
<1>4. /\ m.question \in Ask!Question \cup {Ask!NoQuestion}
      /\ m.type \in {"question_pending", "snapshot"}
      /\ panel[t] \in Ask!Question \cup {Ask!NoQuestion}
      /\ source[t] \in {"live", "snapshot"}
  BY <1>2 DEF AskTyped, Ask!Message
<1> HIDE DEF m
<1>5. \/ m.type = "question_pending" /\ d = <<m.question, "live">>
      \/ /\ m.type = "snapshot"
         /\ \/ /\ m.question.id # 0 /\ m.question.id \notin answered[t]
               /\ \/ panel[t].id = m.question.id /\ d = <<panel[t], source[t]>>
                  \/ d = <<m.question, "snapshot">>
            \/ /\ m.question.id = 0 /\ panel[t].id # 0 /\ source[t] = "snapshot"
               /\ d = <<Ask!NoQuestion, "live">>
            \/ /\ \/ m.question.id = 0 /\ (panel[t].id = 0 \/ source[t] # "snapshot")
                  \/ m.question.id # 0 /\ m.question.id \in answered[t]
               /\ d = <<panel[t], source[t]>>
  BY <1>4 DEF Ask!ResolvePendingQuestion
<1> HIDE DEF d
<1>6. d[1] \in Ask!Question \cup {Ask!NoQuestion} /\ d[2] \in {"live", "snapshot"}
  BY <1>4, <1>5
<1>7. /\ down' \in [Tab -> Seq(Ask!Message)] /\ down'[t] = Tail(down[t])
      /\ \A u \in Tab : u # t => down'[u] = down[u]
  BY <1>2, <1>3 DEF AskTyped
<1>8. /\ panel' \in [Tab -> Ask!Question \cup {Ask!NoQuestion}]
      /\ source' \in [Tab -> {"live", "snapshot"}]
      /\ panel'[t] = d[1] /\ source'[t] = d[2]
      /\ \A u \in Tab : u # t => panel'[u] = panel[u] /\ source'[u] = source[u]
  BY <1>3, <1>6 DEF AskTyped
<1>9. /\ down[t][1] \in Ask!Message
      /\ Len(down'[t]) = Len(down[t]) - 1
      /\ \A i \in 1..(Len(down[t]) - 1) : down'[t][i] = down[t][i + 1]
  BY <1>2, <1>7
<1>10. \/ /\ m.type = "question_pending"
          /\ panel'[t] = m.question /\ source'[t] = "live"
       \/ /\ m.type = "snapshot"
          /\ \/ /\ m.question.id # 0 /\ m.question.id \notin answered[t]
                /\ \/ /\ panel[t].id = m.question.id
                      /\ panel'[t] = panel[t] /\ source'[t] = source[t]
                   \/ panel'[t] = m.question /\ source'[t] = "snapshot"
             \/ /\ m.question.id = 0 /\ panel[t].id # 0 /\ source[t] = "snapshot"
                /\ panel'[t] = Ask!NoQuestion /\ source'[t] = "live"
             \/ /\ \/ m.question.id = 0 /\ (panel[t].id = 0 \/ source[t] # "snapshot")
                   \/ m.question.id # 0 /\ m.question.id \in answered[t]
                /\ panel'[t] = panel[t] /\ source'[t] = source[t]
  BY <1>5, <1>8
<1> QED BY <1>1, <1>2, <1>7, <1>8, <1>9, <1>10

(* What an answer of the user changes.                                      *)
LEMMA AnswerProperties ==
  ASSUME AskTyped, NEW t \in Tab, Ask!Answer(t)
  PROVE  /\ panel[t] \in Ask!Question
         /\ up' \in [Tab -> Seq(Ask!Question)]
         /\ \A u \in Tab : u # t => up'[u] = up[u]
         /\ \A i \in 1..Len(up'[t]) :
              up'[t][i] = panel[t] \/ \E j \in 1..Len(up[t]) : up'[t][i] = up[t][j]
         /\ answered' \in [Tab -> SUBSET Ask!Number]
         /\ given' \in [Tab -> SUBSET Ask!Number]
         /\ answered'[t] = answered[t] \cup {panel[t].id}
         /\ given'[t] = given[t] \cup {panel[t].no}
         /\ panel' \in [Tab -> Ask!Question \cup {Ask!NoQuestion}]
         /\ source' \in [Tab -> {"live", "snapshot"}]
         /\ panel'[t] = Ask!NoQuestion /\ source'[t] = "live"
         /\ \A u \in Tab : u # t =>
              /\ answered'[u] = answered[u] /\ given'[u] = given[u]
              /\ panel'[u] = panel[u] /\ source'[u] = source[u]
<1>1. /\ panel[t] \in Ask!Question
      /\ panel[t].id \in Ask!Number /\ panel[t].no \in Ask!Number
  BY DEF AskTyped, Ask!Answer, Ask!NoQuestion, Ask!Question
<1>2. up[t] \in Seq(Ask!Question)
  BY DEF AskTyped
<1> DEFINE a == Append(up[t], panel[t])
<1>3. /\ a \in Seq(Ask!Question) /\ Len(a) = Len(up[t]) + 1 /\ Len(up[t]) \in Nat
      /\ \A i \in 1..Len(up[t]) : a[i] = up[t][i]
      /\ a[Len(up[t]) + 1] = panel[t]
  BY <1>1, <1>2, AppendProperties, LenProperties
<1>4. up' = [up EXCEPT ![t] = a]
  BY DEF Ask!Answer
<1> HIDE DEF a
<1>5. /\ up' \in [Tab -> Seq(Ask!Question)] /\ up'[t] = a
      /\ \A u \in Tab : u # t => up'[u] = up[u]
  BY <1>3, <1>4 DEF AskTyped
<1>6. \A i \in 1..Len(a) :
        a[i] = panel[t] \/ \E j \in 1..Len(up[t]) : a[i] = up[t][j]
  <2> TAKE i \in 1..Len(a)
  <2>1. i = Len(up[t]) + 1 \/ i \in 1..Len(up[t])
    BY <1>3
  <2> QED BY <2>1, <1>3
<1>7. /\ answered' \in [Tab -> SUBSET Ask!Number]
      /\ given' \in [Tab -> SUBSET Ask!Number]
      /\ answered'[t] = answered[t] \cup {panel[t].id}
      /\ given'[t] = given[t] \cup {panel[t].no}
      /\ \A u \in Tab : u # t => answered'[u] = answered[u] /\ given'[u] = given[u]
  BY <1>1 DEF AskTyped, Ask!Answer
<1>8. /\ panel' \in [Tab -> Ask!Question \cup {Ask!NoQuestion}]
      /\ source' \in [Tab -> {"live", "snapshot"}]
      /\ panel'[t] = Ask!NoQuestion /\ source'[t] = "live"
      /\ \A u \in Tab : u # t => panel'[u] = panel[u] /\ source'[u] = source[u]
  BY DEF AskTyped, Ask!Answer
<1> QED BY <1>1, <1>5, <1>6, <1>7, <1>8

(* Every step keeps the types.                                              *)
LEMMA AskTypes == AskTyped /\ [Ask!AskNext]_askVars => AskTyped'
<1> SUFFICES ASSUME AskTyped, [Ask!AskNext]_askVars PROVE AskTyped'
  OBVIOUS
<1>0. <<>> \in Seq(Ask!Message) /\ <<>> \in Seq(Ask!Question)
      /\ <<>> \in Seq([id : Ask!Number, no : Ask!Number, chat : Chat])
  BY EmptySeq
<1>1. CASE UNCHANGED askVars
  BY <1>1 DEF askVars, AskTyped
<1>2. CASE Ask!Publish
  <2>1. down' \in [Tab -> Seq(Ask!Message)]
    BY <1>2, SnapshotType, SendProperties DEF Ask!Publish
  <2> QED BY <1>2, <2>1 DEF Ask!Publish, AskTyped
<1>3. CASE Ask!Restart
  BY <1>0, <1>3, RunsBounds DEF Ask!Restart, AskTyped
<1>4. ASSUME NEW chat \in Chat, Ask!Ask(chat) PROVE AskTyped'
  <2>1. /\ [id |-> questionSeq', no |-> asked'] \in Ask!Question
        /\ questionSeq' \in Ask!Number /\ asked' \in Ask!Number
        /\ questionSeq' = questionSeq + 1 /\ asked' = asked + 1
        /\ pending' \in Seq([id : Ask!Number, no : Ask!Number, chat : Chat])
    BY <1>4, AskProperties
  <2>2. down' \in [Tab -> Seq(Ask!Message)]
    BY <1>4, <2>1, SendProperties DEF Ask!Ask
  <2>3. /\ questionSeq' \in 0..MaxQuestions /\ asked' \in 0..MaxQuestions
        /\ questionSeq' <= asked'
    BY <2>1 DEF Ask!Number, AskTyped
  <2> QED BY <1>4, <2>1, <2>2, <2>3 DEF Ask!Ask, AskTyped
<1>5. ASSUME NEW chat \in Chat, Ask!SwitchChat(chat) PROVE AskTyped'
  BY <1>5 DEF Ask!SwitchChat, AskTyped
<1>6. ASSUME NEW t \in Tab, Ask!ResolveQuestion(t) PROVE AskTyped'
  <2>1. pending' \in Seq([id : Ask!Number, no : Ask!Number, chat : Chat])
        /\ outcome' \in [Ask!Number -> 0..MaxQuestions]
    <3>1. CASE UNCHANGED <<outcome, pending, unsent>>
      BY <3>1 DEF AskTyped
    <3>2. CASE \E k \in 1..Len(pending) :
                 /\ outcome' = [outcome EXCEPT ![pending[k].no] = Head(up[t]).no]
                 /\ pending' \in Seq([id : Ask!Number, no : Ask!Number, chat : Chat])
      <4>1. PICK k \in 1..Len(pending) :
              /\ outcome' = [outcome EXCEPT ![pending[k].no] = Head(up[t]).no]
              /\ pending' \in Seq([id : Ask!Number, no : Ask!Number, chat : Chat])
        BY <3>2
      <4>2. pending[k].no \in Ask!Number
        BY SnapshotType
      <4>3. Head(up[t]).no \in 0..MaxQuestions
        <5>1. Head(up[t]) \in Ask!Question
          BY <1>6, ResolveProperties
        <5> QED BY <5>1 DEF Ask!Question, Ask!Number
      <4> QED BY <4>1, <4>2, <4>3 DEF AskTyped
    <3> QED BY <3>1, <3>2, <1>6, ResolveProperties
  <2>2. up' \in [Tab -> Seq(Ask!Question)]
    BY <1>6, ResolveProperties
  <2> QED BY <1>6, <2>1, <2>2 DEF Ask!ResolveQuestion, AskTyped
<1>7. ASSUME NEW t \in Tab, Ask!Receive(t) PROVE AskTyped'
  <2>1. /\ down' \in [Tab -> Seq(Ask!Message)]
        /\ panel' \in [Tab -> Ask!Question \cup {Ask!NoQuestion}]
        /\ source' \in [Tab -> {"live", "snapshot"}]
    BY <1>7, ReceiveProperties
  <2> QED BY <1>7, <2>1 DEF Ask!Receive, AskTyped
<1>8. ASSUME NEW t \in Tab, Ask!Answer(t) PROVE AskTyped'
  <2>1. /\ up' \in [Tab -> Seq(Ask!Question)]
        /\ answered' \in [Tab -> SUBSET Ask!Number]
        /\ given' \in [Tab -> SUBSET Ask!Number]
        /\ panel' \in [Tab -> Ask!Question \cup {Ask!NoQuestion}]
        /\ source' \in [Tab -> {"live", "snapshot"}]
    BY <1>8, AnswerProperties
  <2> QED BY <1>8, <2>1 DEF Ask!Answer, AskTyped
<1>9. ASSUME NEW t \in Tab, Ask!Break(t) PROVE AskTyped'
  BY <1>0, <1>9, RunsBounds DEF Ask!Break, AskTyped
<1>10. ASSUME NEW t \in Tab, Ask!Reconnect(t) PROVE AskTyped'
  <2>1. down' \in [Tab -> Seq(Ask!Message)]
    BY <1>10, SnapshotType, SendProperties DEF Ask!Reconnect
  <2> QED BY <1>10, <2>1 DEF Ask!Reconnect, AskTyped
<1>11. ASSUME NEW t \in Tab, Ask!ReloadPage(t) PROVE AskTyped'
  BY <1>11 DEF Ask!ReloadPage, AskTyped
<1> QED BY <1>1, <1>2, <1>3, <1>4, <1>5, <1>6, <1>7, <1>8, <1>9, <1>10, <1>11
        DEF Ask!AskNext

(* The three facts of one process, for a step that restarts nothing.        *)
LEMMA SameIdsStep ==
  AskTyped /\ SameIds /\ [Ask!AskNext]_askVars /\ restarts' = restarts => SameIds'
<1> SUFFICES ASSUME AskTyped, SameIds, [Ask!AskNext]_askVars, restarts' = restarts
             PROVE  SameIds'
  OBVIOUS
<1>0. \A t \in Tab :
        /\ Len(down[t]) \in Nat
        /\ \A i \in 1..Len(down[t]) : down[t][i] \in Ask!Message
  BY ElementOfSeq, LenProperties DEF AskTyped
<1>1. CASE UNCHANGED askVars
  BY <1>1 DEF askVars, SameIds
<1>p. ASSUME NEW tabs, Ask!Send(tabs, "snapshot", Ask!PendingQuestionForSnapshot)
      PROVE  \A t \in Tab : \A i \in 1..Len(down'[t]) :
               /\ down'[t][i].question.id = down'[t][i].question.no
               /\ down'[t][i].question.no <= asked
  <2> DEFINE q == Ask!PendingQuestionForSnapshot
  <2>1. q.id = q.no /\ q.no <= asked
    BY SnapshotNames, SnapshotType DEF SameIds, AskTyped, Ask!NoQuestion
  <2>2. q \in Ask!Question \cup {Ask!NoQuestion}
    BY SnapshotType
  <2>3. Added(tabs, [type |-> "snapshot", question |-> q])
    BY <1>p, <2>2, SendProperties
  <2> HIDE DEF q
  <2> TAKE t \in Tab
  <2> TAKE i \in 1..Len(down'[t])
  <2>4. CASE t \notin tabs
    BY <2>3, <2>4 DEF SameIds, Added
  <2>5. CASE t \in tabs /\ i \in 1..Len(down[t])
    BY <2>3, <2>5 DEF SameIds, Added
  <2>6. CASE t \in tabs /\ i = Len(down[t]) + 1
    BY <2>1, <2>3, <2>6 DEF Added
  <2> QED BY <2>3, <2>4, <2>5, <2>6, <1>0 DEF Added
<1>2. CASE Ask!Publish
  <2>1. \A t \in Tab : \A i \in 1..Len(down'[t]) :
          /\ down'[t][i].question.id = down'[t][i].question.no
          /\ down'[t][i].question.no <= asked
    BY <1>2, <1>p DEF Ask!Publish
  <2> QED BY <1>2, <2>1 DEF Ask!Publish, SameIds
<1>3. CASE Ask!Restart
  BY <1>3 DEF Ask!Restart, AskTyped
<1>4. ASSUME NEW chat \in Chat, Ask!Ask(chat) PROVE SameIds'
  <2> DEFINE q == [id |-> questionSeq', no |-> asked']
  <2>1. /\ asked \in Nat /\ asked' = asked + 1 /\ questionSeq' = asked'
        /\ Len(pending) \in Nat /\ Len(pending') = Len(pending) + 1
        /\ \A i \in 1..Len(pending) : pending'[i] = pending[i]
        /\ pending'[Len(pending) + 1]
             = [id |-> questionSeq', no |-> asked', chat |-> chat]
        /\ q \in Ask!Question
    BY <1>4, AskProperties DEF AskTyped, SameIds
  <2>2. q.id = q.no /\ q.no = asked'
    BY <2>1
  <2>a. \A i \in 1..Len(pending') :
          /\ pending'[i].id = pending'[i].no /\ pending'[i].no <= asked'
    <3> TAKE i \in 1..Len(pending')
    <3>1. CASE i \in 1..Len(pending)
      <4>1. /\ pending[i].id = pending[i].no /\ pending[i].no <= asked
            /\ pending[i].no \in Nat
        BY <3>1, SnapshotType DEF SameIds, Ask!Number
      <4> QED BY <2>1, <3>1, <4>1
    <3>2. CASE i = Len(pending) + 1
      BY <2>1, <3>2
    <3> QED BY <2>1, <3>1, <3>2
  <2>s. Ask!Send(online, "question_pending", q)
    BY <1>4 DEF Ask!Ask
  <2>3. Added(online, [type |-> "question_pending", question |-> q])
    BY <2>s, <2>1, SendProperties
  <2> HIDE DEF q
  <2>4. \A t \in Tab : \A i \in 1..Len(down[t]) :
          /\ down[t][i].question.id = down[t][i].question.no
          /\ down[t][i].question.no <= asked'
    <3>1. \A t \in Tab : \A i \in 1..Len(down[t]) : down[t][i].question.no \in Nat
      BY <1>0 DEF Ask!Message, Ask!Question, Ask!NoQuestion, Ask!Number
    <3> QED BY <2>1, <3>1 DEF SameIds
  <2>5. \A t \in Tab : \A i \in 1..Len(down'[t]) :
          /\ down'[t][i].question.id = down'[t][i].question.no
          /\ down'[t][i].question.no <= asked'
    <3> TAKE t \in Tab
    <3> TAKE i \in 1..Len(down'[t])
    <3>1. CASE t \notin online
      BY <2>3, <2>4, <3>1 DEF Added
    <3>2. CASE t \in online /\ i \in 1..Len(down[t])
      BY <2>3, <2>4, <3>2 DEF Added
    <3>3. CASE t \in online /\ i = Len(down[t]) + 1
      BY <2>1, <2>2, <2>3, <3>3 DEF Added
    <3> QED BY <2>3, <3>1, <3>2, <3>3, <1>0 DEF Added
  <2>6. \A t \in Tab :
          /\ panel[t].no <= asked' /\ \A i \in 1..Len(up[t]) : up[t][i].no <= asked'
          /\ \A n \in given[t] : n <= asked'
    <3>a. \A t \in Tab : panel[t].no \in Nat /\ given[t] \subseteq Nat
      BY DEF AskTyped, Ask!Question, Ask!NoQuestion, Ask!Number
    <3>1. \A t \in Tab : \A i \in 1..Len(up[t]) : up[t][i] \in Ask!Question
      BY ElementOfSeq DEF AskTyped
    <3>2. \A t \in Tab : \A i \in 1..Len(up[t]) : up[t][i].no \in Nat
      BY <3>1 DEF Ask!Question, Ask!Number
    <3> QED BY <2>1, <3>a, <3>1, <3>2 DEF SameIds
  <2> QED BY <1>4, <2>1, <2>a, <2>5, <2>6 DEF Ask!Ask, SameIds
<1>5. ASSUME NEW chat \in Chat, Ask!SwitchChat(chat) PROVE SameIds'
  BY <1>5 DEF Ask!SwitchChat, SameIds
<1>6. ASSUME NEW t \in Tab, Ask!ResolveQuestion(t) PROVE SameIds'
  <2>1. \A i \in 1..Len(pending') :
          /\ pending'[i].id = pending'[i].no /\ pending'[i].no <= asked
    <3>1. \A i \in 1..Len(pending') : \E j \in 1..Len(pending) : pending'[i] = pending[j]
      BY <1>6, ResolveProperties
    <3> QED BY <3>1 DEF SameIds
  <2>2. \A u \in Tab : \A i \in 1..Len(up'[u]) :
          up'[u][i].id = up'[u][i].no /\ up'[u][i].no <= asked
    <3>1. \A u \in Tab : \A i \in 1..Len(up'[u]) :
            \E j \in 1..Len(up[u]) : up'[u][i] = up[u][j]
      BY <1>6, ResolveProperties
    <3> QED BY <3>1 DEF SameIds
  <2> QED BY <1>6, <2>1, <2>2 DEF Ask!ResolveQuestion, SameIds
<1>7. ASSUME NEW t \in Tab, Ask!Receive(t) PROVE SameIds'
  <2>1. \A u \in Tab : \A i \in 1..Len(down'[u]) :
          /\ down'[u][i].question.id = down'[u][i].question.no
          /\ down'[u][i].question.no <= asked
    <3> TAKE u \in Tab
    <3> TAKE i \in 1..Len(down'[u])
    <3>1. CASE u # t
      BY <1>7, <3>1, ReceiveProperties DEF SameIds
    <3>2. CASE u = t
      <4>1. i \in 1..(Len(down[t]) - 1) /\ i + 1 \in 1..Len(down[t])
        BY <1>7, <3>2, <1>0, ReceiveProperties
      <4>2. down'[t][i] = down[t][i + 1]
        BY <1>7, <4>1, ReceiveProperties
      <4> QED BY <3>2, <4>1, <4>2 DEF SameIds
    <3> QED BY <3>1, <3>2
  <2>2. panel'[t].id = panel'[t].no /\ panel'[t].no <= asked
    <3>1. 1 \in 1..Len(down[t])
      BY <1>7, ReceiveProperties
    <3>2. /\ panel[t].id = panel[t].no /\ panel[t].no <= asked
          /\ down[t][1].question.id = down[t][1].question.no
          /\ down[t][1].question.no <= asked
      BY <3>1 DEF SameIds
    <3>3. \/ panel'[t] = panel[t] \/ panel'[t] = down[t][1].question
          \/ panel'[t] = Ask!NoQuestion
      BY <1>7, ReceiveProperties
    <3> QED BY <3>2, <3>3 DEF AskTyped, Ask!NoQuestion
  <2>3. \A u \in Tab : u # t => panel'[u] = panel[u]
    BY <1>7, ReceiveProperties
  <2>4. \A u \in Tab : panel'[u].id = panel'[u].no /\ panel'[u].no <= asked
    BY <2>2, <2>3 DEF SameIds
  <2> QED BY <1>7, <2>1, <2>4 DEF Ask!Receive, SameIds
<1>8. ASSUME NEW t \in Tab, Ask!Answer(t) PROVE SameIds'
  <2>1. \A u \in Tab : \A i \in 1..Len(up'[u]) :
          up'[u][i].id = up'[u][i].no /\ up'[u][i].no <= asked
    <3>1. \A i \in 1..Len(up'[t]) :
            up'[t][i] = panel[t] \/ \E j \in 1..Len(up[t]) : up'[t][i] = up[t][j]
      BY <1>8, AnswerProperties
    <3>2. \A u \in Tab : u # t => up'[u] = up[u]
      BY <1>8, AnswerProperties
    <3> QED BY <3>1, <3>2 DEF SameIds
  <2>2. /\ answered'[t] = given'[t]
        /\ \A n \in given'[t] : n <= asked
    <3>1. /\ answered'[t] = answered[t] \cup {panel[t].id}
          /\ given'[t] = given[t] \cup {panel[t].no}
      BY <1>8, AnswerProperties
    <3> QED BY <3>1 DEF SameIds
  <2>3. panel'[t] = Ask!NoQuestion
    BY <1>8, AnswerProperties
  <2>4. \A u \in Tab : u # t =>
          answered'[u] = answered[u] /\ given'[u] = given[u] /\ panel'[u] = panel[u]
    BY <1>8, AnswerProperties
  <2>5. \A u \in Tab :
          /\ panel'[u].id = panel'[u].no /\ panel'[u].no <= asked
          /\ answered'[u] = given'[u] /\ \A n \in given'[u] : n <= asked
    <3>1. Ask!NoQuestion.id = Ask!NoQuestion.no /\ Ask!NoQuestion.no <= asked
      BY DEF AskTyped, Ask!NoQuestion
    <3> QED BY <2>2, <2>3, <2>4, <3>1 DEF SameIds
  <2>6. UNCHANGED <<questionSeq, asked, pending, down>>
    BY <1>8 DEF Ask!Answer
  <2> QED BY <2>1, <2>5, <2>6 DEF SameIds
<1>9. ASSUME NEW t \in Tab, Ask!Break(t) PROVE SameIds'
  <2>1. \A u \in Tab : \/ down'[u] = <<>> /\ up'[u] = <<>>
                       \/ down'[u] = down[u] /\ up'[u] = up[u]
    BY <1>9 DEF Ask!Break, AskTyped
  <2> QED BY <1>9, <2>1 DEF Ask!Break, SameIds
<1>10. ASSUME NEW t \in Tab, Ask!Reconnect(t) PROVE SameIds'
  <2>1. \A u \in Tab : \A i \in 1..Len(down'[u]) :
          /\ down'[u][i].question.id = down'[u][i].question.no
          /\ down'[u][i].question.no <= asked
    BY <1>10, <1>p DEF Ask!Reconnect
  <2> QED BY <1>10, <2>1 DEF Ask!Reconnect, SameIds
<1>11. ASSUME NEW t \in Tab, Ask!ReloadPage(t) PROVE SameIds'
  <2>1. \A u \in Tab :
          \/ /\ panel'[u] = panel[u] /\ answered'[u] = answered[u]
             /\ given'[u] = given[u]
          \/ panel'[u] = Ask!NoQuestion /\ answered'[u] = {} /\ given'[u] = {}
    BY <1>11 DEF Ask!ReloadPage, AskTyped
  <2>2. \A u \in Tab :
          /\ panel'[u].id = panel'[u].no /\ panel'[u].no <= asked
          /\ answered'[u] = given'[u] /\ \A n \in given'[u] : n <= asked
    <3>1. Ask!NoQuestion.id = Ask!NoQuestion.no /\ Ask!NoQuestion.no <= asked
      BY DEF AskTyped, Ask!NoQuestion
    <3> QED BY <2>1, <3>1 DEF SameIds
  <2>3. UNCHANGED <<questionSeq, asked, pending, down, up>>
    BY <1>11 DEF Ask!ReloadPage
  <2> QED BY <2>2, <2>3 DEF SameIds
<1> QED BY <1>1, <1>2, <1>3, <1>4, <1>5, <1>6, <1>7, <1>8, <1>9, <1>10, <1>11
        DEF Ask!AskNext

(* A tool call that returns gets the answer to its own question.            *)
LEMMA AnswersStep ==
  AskTyped /\ SameIds /\ Ask!AnswersMatch /\ [Ask!AskNext]_askVars => Ask!AnswersMatch'
<1> SUFFICES ASSUME AskTyped, SameIds, Ask!AnswersMatch, [Ask!AskNext]_askVars
             PROVE  Ask!AnswersMatch'
  OBVIOUS
<1>1. ASSUME NEW t \in Tab, Ask!ResolveQuestion(t) PROVE Ask!AnswersMatch'
  <2>1. CASE UNCHANGED <<outcome, pending, unsent>>
    BY <2>1 DEF Ask!AnswersMatch
  <2>2. CASE \E k \in 1..Len(pending) :
               /\ pending[k].id = Head(up[t]).id
               /\ outcome' = [outcome EXCEPT ![pending[k].no] = Head(up[t]).no]
    <3>1. PICK k \in 1..Len(pending) :
               /\ pending[k].id = Head(up[t]).id
               /\ outcome' = [outcome EXCEPT ![pending[k].no] = Head(up[t]).no]
      BY <2>2
    <3>2. Head(up[t]).id = Head(up[t]).no
      <4>1. Head(up[t]) = up[t][1] /\ 1 \in 1..Len(up[t])
        BY <1>1, ResolveProperties
      <4> QED BY <4>1 DEF SameIds
    <3>3. pending[k].id = pending[k].no
      BY DEF SameIds
    <3> QED BY <3>1, <3>2, <3>3 DEF Ask!AnswersMatch, AskTyped
  <2> QED BY <1>1, <2>1, <2>2, ResolveProperties
<1>2. CASE UNCHANGED outcome
  BY <1>2 DEF Ask!AnswersMatch
<1> QED BY <1>1, <1>2
        DEF Ask!AskNext, askVars, Ask!Publish, Ask!Restart, Ask!Ask, Ask!SwitchChat,
            Ask!Receive, Ask!Answer, Ask!Break, Ask!Reconnect, Ask!ReloadPage

(* The last message on the way to a current tab still tells what it has to  *)
(* show.                                                                    *)
LEMMA LastTellsStep ==
  AskTyped /\ SameIds /\ LastTells /\ [Ask!AskNext]_askVars /\ restarts' = restarts
    => LastTells'
<1> SUFFICES ASSUME AskTyped, SameIds, LastTells, [Ask!AskNext]_askVars,
                    restarts' = restarts,
                    NEW t \in Tab, Current(t)'
             PROVE  Tells(t)'
  BY DEF LastTells
<1>0. /\ \A i \in 1..Len(pending) : pending[i].no # 0
      /\ down[t] \in Seq(Ask!Message) /\ Len(down[t]) \in Nat
  <2>1. \A i \in 1..Len(pending) : pending[i].no \in Ask!Number
    BY SnapshotType
  <2>2. down[t] \in Seq(Ask!Message) /\ Len(down[t]) \in Nat
    BY LenProperties DEF AskTyped
  <2> QED BY <2>1, <2>2 DEF Ask!Number
<1>s. ASSUME UNCHANGED <<pending, activeChat>>, down'[t] = down[t],
             panel'[t] = panel[t], source'[t] = source[t], Current(t)
      PROVE  Tells(t)'
  BY <1>s DEF LastTells, Tells, Awaited, Waiting
<1>p. ASSUME NEW tabs, t \in tabs, UNCHANGED <<pending, activeChat>>,
             Ask!Send(tabs, "snapshot", Ask!PendingQuestionForSnapshot)
      PROVE  Tells(t)'
  <2> DEFINE q == Ask!PendingQuestionForSnapshot
  <2>1. q \in Ask!Question \cup {Ask!NoQuestion}
    BY SnapshotType
  <2>2. Added(tabs, [type |-> "snapshot", question |-> q])
    BY <1>p, <2>1, SendProperties
  <2>3. (q = Ask!NoQuestion /\ ~Waiting) \/ Awaited(q)
    BY SnapshotNames DEF Waiting, Awaited
  <2> HIDE DEF q
  <2>4. /\ down'[t] # <<>>
        /\ down'[t][Len(down'[t])] = [type |-> "snapshot", question |-> q]
    BY <1>p, <2>2 DEF Added
  <2>5. \/ q = Ask!NoQuestion /\ ~Waiting'
        \/ \E i \in 1..Len(pending') : pending'[i].no = q.no
    BY <1>p, <2>3 DEF Waiting, Awaited
  <2> QED BY <2>4, <2>5 DEF Tells, Awaited
<1>1. CASE UNCHANGED askVars
  <2>1. Current(t)
    BY <1>1 DEF askVars, Current
  <2> QED BY <1>1, <1>s, <2>1 DEF askVars
<1>2. CASE Ask!Publish
  BY <1>2, <1>p DEF Ask!Publish, Current
<1>3. CASE Ask!Restart
  BY <1>3 DEF Ask!Restart, AskTyped
<1>4. ASSUME NEW chat \in Chat, Ask!Ask(chat) PROVE Tells(t)'
  <2> DEFINE q == [id |-> questionSeq', no |-> asked']
  <2>1. /\ Len(pending) \in Nat /\ Len(pending') = Len(pending) + 1
        /\ pending'[Len(pending) + 1]
             = [id |-> questionSeq', no |-> asked', chat |-> chat]
        /\ q \in Ask!Question
    BY <1>4, AskProperties
  <2>2. Ask!Send(online, "question_pending", q) /\ t \in online
    BY <1>4 DEF Ask!Ask, Current
  <2>3. Added(online, [type |-> "question_pending", question |-> q])
    BY <2>1, <2>2, SendProperties
  <2>4. pending'[Len(pending) + 1].no = q.no
    BY <2>1
  <2> HIDE DEF q
  <2>5. /\ down'[t] # <<>> /\ down'[t][Len(down'[t])].question = q
    BY <2>2, <2>3 DEF Added
  <2>6. \E i \in 1..Len(pending') : pending'[i].no = q.no
    BY <2>1, <2>4
  <2> QED BY <2>5, <2>6 DEF Tells, Awaited
<1>5. ASSUME NEW chat \in Chat, Ask!SwitchChat(chat) PROVE Tells(t)'
  BY <1>5 DEF Ask!SwitchChat, Current
<1>6. ASSUME NEW u \in Tab, Ask!ResolveQuestion(u) PROVE Tells(t)'
  <2>1. UNCHANGED <<pending, unsent>>
    BY <1>6, ResolveProperties DEF Current
  <2>2. UNCHANGED <<activeChat, online, down, panel, source, given>>
    BY <1>6 DEF Ask!ResolveQuestion
  <2>3. Current(t)
    BY <2>1, <2>2 DEF Current
  <2> QED BY <1>s, <2>1, <2>2, <2>3
<1>7. ASSUME NEW u \in Tab, Ask!Receive(u) PROVE Tells(t)'
  <2>1. UNCHANGED <<pending, activeChat, unsent, online, given, answered>>
    BY <1>7 DEF Ask!Receive
  <2>2. Current(t)
    BY <2>1 DEF Current
  <2>3. CASE u # t
    <3>1. down'[t] = down[t] /\ panel'[t] = panel[t] /\ source'[t] = source[t]
      BY <1>7, <2>3, ReceiveProperties
    <3> QED BY <1>s, <2>1, <2>2, <3>1
  <2>4. CASE u = t /\ Len(down[t]) > 1
    <3>1. /\ down[t] # <<>> /\ down'[t] \in Seq(Ask!Message)
          /\ Len(down'[t]) = Len(down[t]) - 1
          /\ \A i \in 1..(Len(down[t]) - 1) : down'[t][i] = down[t][i + 1]
      BY <1>7, <2>4, ReceiveProperties
    <3>2. Len(down[t]) - 1 \in 1..(Len(down[t]) - 1)
          /\ (Len(down[t]) - 1) + 1 = Len(down[t])
      BY <1>0, <2>4
    <3>3. down'[t][Len(down'[t])] = down[t][Len(down[t])]
      BY <3>1, <3>2
    <3>4. down'[t] # <<>>
      BY <3>1, <3>2, EmptySeq
    <3> QED BY <2>1, <2>2, <3>1, <3>3, <3>4 DEF LastTells, Tells, Awaited, Waiting
  <2>5. CASE u = t /\ Len(down[t]) = 1
    <3> DEFINE m == down[t][1]
    <3>1. /\ down[t] # <<>> /\ down'[t] \in Seq(Ask!Message) /\ Len(down'[t]) = 0
      BY <1>7, <2>5, ReceiveProperties
    <3>2. down'[t] = <<>>
      BY <3>1, EmptySeq
    <3>3. \/ Awaited(m.question)
          \/ m.type = "snapshot" /\ m.question = Ask!NoQuestion /\ ~Waiting
      BY <2>2, <2>5, <3>1 DEF LastTells, Tells
    <3>4. \A x : Awaited(x)' <=> Awaited(x)
      BY <2>1 DEF Awaited
    <3>5. Waiting' <=> Waiting
      BY <2>1 DEF Waiting
    <3>6. m.question.id = m.question.no /\ panel[t].id = panel[t].no
          /\ answered[t] = given[t]
      BY <2>5 DEF SameIds
    <3>7. \/ m.type = "question_pending" /\ panel'[t] = m.question /\ source'[t] = "live"
          \/ /\ m.type = "snapshot"
             /\ \/ /\ m.question.id # 0 /\ m.question.id \notin answered[t]
                   /\ \/ panel[t].id = m.question.id /\ panel'[t] = panel[t]
                      \/ panel'[t] = m.question
                \/ /\ m.question.id = 0
                   /\ panel'[t] = Ask!NoQuestion /\ source'[t] = "live"
                \/ /\ \/ m.question.id = 0 /\ (panel[t].id = 0 \/ source[t] # "snapshot")
                      \/ m.question.id # 0 /\ m.question.id \in answered[t]
                   /\ panel'[t] = panel[t] /\ source'[t] = source[t]
      <4>1. Ask!Receive(t)
        BY <1>7, <2>5
      <4> HIDE DEF m
      <4> QED BY <4>1, ReceiveProperties DEF m
    <3> HIDE DEF m
    <3>8. CASE Awaited(m.question)
      <4>1. m.question.no # 0 /\ m.question.no \notin given[t]
        BY <1>0, <2>2, <3>8 DEF Awaited, Current
      <4>2. panel'[t].no = m.question.no
        BY <3>6, <3>7, <4>1
      <4>3. Awaited(panel'[t])
        BY <3>8, <4>2 DEF Awaited
      <4>4. Awaited(panel[t])'
        BY <2>1, <4>3 DEF Awaited
      <4> QED BY <3>2, <4>4 DEF Tells
    <3>9. CASE m.type = "snapshot" /\ m.question = Ask!NoQuestion /\ ~Waiting
      <4>1. source'[t] # "snapshot" \/ panel'[t].id = 0
        BY <3>7, <3>9 DEF Ask!NoQuestion
      <4> QED BY <3>2, <3>5, <3>9, <4>1 DEF Tells
    <3> QED BY <3>3, <3>8, <3>9
  <2>6. u # t \/ Len(down[t]) > 1 \/ Len(down[t]) = 1
    <3>a. \A n \in Nat \ {0} : n > 1 \/ n = 1
      OBVIOUS
    <3>1. Len(down[u]) \in Nat \ {0}
      BY <1>7, ReceiveProperties
    <3>2. Len(down[u]) > 1 \/ Len(down[u]) = 1
      BY <3>a, <3>1, Zenon
    <3>3. CASE u = t
      BY <3>2, <3>3
    <3> QED BY <3>3
  <2> QED BY <2>3, <2>4, <2>5, <2>6
<1>8. ASSUME NEW u \in Tab, Ask!Answer(u) PROVE Tells(t)'
  <2>1. UNCHANGED <<pending, activeChat, unsent, online, down>>
    BY <1>8 DEF Ask!Answer
  <2>2. /\ u # t => /\ given'[t] = given[t]
                    /\ panel'[t] = panel[t] /\ source'[t] = source[t]
        /\ given'[u] = given[u] \cup {panel[u].no}
        /\ source'[u] = "live"
    BY <1>8, AnswerProperties
  <2>3. Current(t)
    BY <2>1, <2>2 DEF Current
  <2>4. CASE u # t
    BY <1>s, <2>1, <2>2, <2>3, <2>4
  <2>5. CASE u = t
    <3>1. ~ Awaited(panel[t])
      BY <2>1, <2>2, <2>5 DEF Awaited, Current
    <3>2. CASE down[t] = <<>>
      <4>1. ~Waiting
        BY <2>3, <3>1, <3>2 DEF LastTells, Tells
      <4> QED BY <2>1, <2>2, <2>5, <3>2, <4>1 DEF Tells, Waiting
    <3>3. CASE down[t] # <<>>
      BY <2>1, <2>3, <3>3 DEF LastTells, Tells, Awaited, Waiting
    <3> QED BY <3>2, <3>3
  <2> QED BY <2>4, <2>5
<1>9. ASSUME NEW u \in Tab, Ask!Break(u) PROVE Tells(t)'
  <2>1. u # t /\ UNCHANGED <<pending, activeChat, unsent, panel, source, given>>
        /\ t \in online /\ down'[t] = down[t]
    BY <1>9 DEF Ask!Break, Current, AskTyped
  <2>2. Current(t)
    BY <2>1 DEF Current
  <2> QED BY <1>s, <2>1, <2>2
<1>10. ASSUME NEW u \in Tab, Ask!Reconnect(u) PROVE Tells(t)'
  <2>1. /\ UNCHANGED <<pending, activeChat, unsent, panel, source, given>>
        /\ online' = online \cup {u}
        /\ Ask!Send({u}, "snapshot", Ask!PendingQuestionForSnapshot)
    BY <1>10 DEF Ask!Reconnect
  <2>2. CASE u = t
    BY <1>p, <2>1, <2>2
  <2>3. CASE u # t
    <3>1. Current(t)
      BY <2>1, <2>3 DEF Current
    <3>2. down'[t] = down[t]
      BY <2>1, <2>3 DEF Ask!Send
    <3> QED BY <1>s, <2>1, <3>1, <3>2
  <2> QED BY <2>2, <2>3
<1>11. ASSUME NEW u \in Tab, Ask!ReloadPage(u) PROVE Tells(t)'
  <2>1. /\ u # t
        /\ UNCHANGED <<pending, activeChat, unsent, online, down>>
        /\ panel'[t] = panel[t] /\ source'[t] = source[t] /\ given'[t] = given[t]
    BY <1>11 DEF Ask!ReloadPage, Current, AskTyped
  <2>2. Current(t)
    BY <2>1 DEF Current
  <2> QED BY <1>s, <2>1, <2>2
<1> QED BY <1>1, <1>2, <1>3, <1>4, <1>5, <1>6, <1>7, <1>8, <1>9, <1>10, <1>11
        DEF Ask!AskNext

(* The facts of one process hold as long as there has been no restart.      *)
LEMMA AskStep == AskIInv /\ [Ask!AskNext]_askVars => AskIInv'
<1> SUFFICES ASSUME AskIInv, [Ask!AskNext]_askVars PROVE AskIInv'
  OBVIOUS
<1>1. AskTyped /\ AskTyped'
  BY AskTypes DEF AskIInv
<1>2. restarts' = restarts \/ restarts' # 0
  <2>1. restarts' = restarts \/ restarts' = restarts + 1
    BY DEF Ask!AskNext, askVars, Ask!Publish, Ask!Restart, Ask!Ask, Ask!SwitchChat,
           Ask!ResolveQuestion, Ask!Receive, Ask!Answer, Ask!Break, Ask!Reconnect,
           Ask!ReloadPage
  <2> QED BY <1>1, <2>1 DEF AskTyped
<1>3. CASE restarts' # 0
  BY <1>1, <1>3 DEF AskIInv
<1>4. CASE restarts' = 0 /\ restarts = 0
  <2>1. SameIds /\ LastTells /\ Ask!AnswersMatch
    BY <1>4 DEF AskIInv
  <2>2. SameIds' /\ LastTells' /\ Ask!AnswersMatch'
    BY <1>1, <1>4, <2>1, SameIdsStep, LastTellsStep, AnswersStep
  <2> QED BY <1>1, <2>2 DEF AskIInv
<1> QED BY <1>2, <1>3, <1>4

(* What the invariant says of a calm tab.                                   *)
LEMMA AskHolds ==
  AskIInv => Ask!NoHiddenQuestion /\ Ask!RestoredPanelsClose /\ Ask!OwnAnswers
<1> SUFFICES ASSUME AskIInv
             PROVE  Ask!NoHiddenQuestion /\ Ask!RestoredPanelsClose /\ Ask!OwnAnswers
  OBVIOUS
<1>1. Ask!OwnAnswers
  BY DEF AskIInv, Ask!OwnAnswers
<1>2. ASSUME restarts = 0, NEW t \in Tab, Ask!Calm(t),
             \A i \in 1..Len(pending) : pending[i].no \notin given[t]
      PROVE  /\ Waiting => panel[t].id # 0
             /\ (source[t] = "snapshot" /\ panel[t].id # 0) => Awaited(panel[t])
  <2>1. AskTyped /\ SameIds /\ LastTells
    BY <1>2 DEF AskIInv
  <2>2. Current(t) /\ down[t] = <<>>
    BY <1>2 DEF Ask!Calm, Current
  <2>3. /\ Waiting => Awaited(panel[t])
        /\ (source[t] = "snapshot" /\ panel[t].id # 0) => Awaited(panel[t])
    BY <2>1, <2>2 DEF LastTells, Tells
  <2>4. \A i \in 1..Len(pending) : pending[i].no # 0
    BY <2>1, SnapshotType DEF Ask!Number
  <2>5. panel[t].id = panel[t].no
    BY <2>1 DEF SameIds
  <2> QED BY <2>3, <2>4, <2>5 DEF Awaited
<1>3. Ask!NoHiddenQuestion
  BY <1>2 DEF Ask!NoHiddenQuestion, Waiting
<1>4. Ask!RestoredPanelsClose
  BY <1>2 DEF Ask!RestoredPanelsClose, Awaited
<1> QED BY <1>1, <1>3, <1>4

(* A queued text is in one place and in order, a click takes back one text, *)
(* a question the model waits on is on every calm screen, its restored      *)
(* panel closes with it, and a tool call gets its own answer.               *)
THEOREM MessagesAreKept == Spec => MessagesKept
<1>1. Init => QueueIInv /\ AskFlags /\ AskIInv
  BY QueueInitially, AskInitially DEF Init
<1>2. [Next]_vars => [Queue!QueueNext]_queueVars /\ [Ask!AskNext]_askVars
  BY DEF Next, Rest, vars, queueVars, askVars
<1>3. QueueIInv /\ [Next]_vars => QueueIInv'
  BY <1>2, QueueStep
<1>4. AskFlags /\ AskIInv /\ [Next]_vars => AskFlags' /\ AskIInv'
  BY <1>2, AskFlagsStep, AskStep
<1>5. QueueIInv => Queue!QueueTypeOK /\ Queue!QueueConserved /\ Queue!QueueOrder
  <2>1. QueueIInv => Queue!QueueTypeOK
    BY DEF QueueIInv, QueueRecord, QueueTyped, Queue!QueueTypeOK
  <2> QED BY <2>1, QueueHolds
<1>6. AskFlags /\ AskIInv
        => /\ Ask!AskTypeOK /\ Ask!NoHiddenQuestion /\ Ask!RestoredPanelsClose
           /\ Ask!OwnAnswers
  <2>1. AskFlags /\ AskTyped => Ask!AskTypeOK
    BY Zenon DEF AskFlags, AskTyped, Ask!AskTypeOK
  <2> QED BY <2>1, AskHolds DEF AskIInv
<1>7. QueueIInv /\ [Next]_vars
        => [\A c \in Clicks : (~removal[c].busy /\ removal'[c].busy) =>
              Queue!Cardinality(removed' \ removed) = 1]_Queue!queueVars
  BY <1>2, OneText
<1> QED
  BY <1>1, <1>3, <1>4, <1>5, <1>6, <1>7, PTL
  DEF Spec, MessagesKept, Queue!OneClickOneText
=============================================================================
