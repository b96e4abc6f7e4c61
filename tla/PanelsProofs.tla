---------------------------- MODULE PanelsProofs ----------------------------
(***************************************************************************)
(* The properties of MCPanels that are proved, for every value of its      *)
(* constants.  Each part has an inductive invariant of its own, about the  *)
(* part alone: a step of MCPanels is a step of the part or leaves its      *)
(* variables as they are.                                                  *)
(***************************************************************************)
EXTENDS MCPanels, SequencesExt, SequenceTheorems, FiniteSetTheorems,
        FunctionTheorems, WellFoundedInduction, TLAPS

-----------------------------------------------------------------------------
(* Lists                                                                    *)

(* A list without its i-th entry.                                           *)
LEMMA RemoveAtProperties ==
  ASSUME NEW S, NEW s \in Seq(S), NEW i \in 1..Len(s)
  PROVE  /\ RemoveAt(s, i) \in Seq(S)
         /\ Len(RemoveAt(s, i)) = Len(s) - 1
         /\ \A j \in 1..(Len(s) - 1) :
              RemoveAt(s, i)[j] = IF j < i THEN s[j] ELSE s[j + 1]
<1> DEFINE a == SubSeq(s, 1, i - 1)
           b == SubSeq(s, i + 1, Len(s))
<1>0. Len(s) \in Nat /\ \A k \in 1..Len(s) : s[k] \in S
  BY LenProperties, ElementOfSeq
<1>1. /\ a \in Seq(S) /\ Len(a) = i - 1
      /\ \A j \in 1..(i - 1) : a[j] = s[j]
  <2>1. \A k \in 1..(i - 1) : s[k] \in S
    BY <1>0
  <2>2. /\ a \in Seq(S)
        /\ Len(a) = IF 1 <= i - 1 THEN i - 1 - 1 + 1 ELSE 0
        /\ \A j \in 1..(i - 1 - 1 + 1) : a[j] = s[1 + j - 1]
    BY <2>1, <1>0, SubSeqProperties
  <2> QED BY <2>2, <1>0
<1>2. /\ b \in Seq(S) /\ Len(b) = Len(s) - i
      /\ \A j \in 1..(Len(s) - i) : b[j] = s[i + j]
  <2>1. \A k \in (i + 1)..Len(s) : s[k] \in S
    BY <1>0
  <2>2. /\ b \in Seq(S)
        /\ Len(b) = IF i + 1 <= Len(s) THEN Len(s) - (i + 1) + 1 ELSE 0
        /\ \A j \in 1..(Len(s) - (i + 1) + 1) : b[j] = s[(i + 1) + j - 1]
    BY <2>1, <1>0, SubSeqProperties
  <2> QED BY <2>2, <1>0
<1> HIDE DEF a, b
<1>3. /\ a \o b \in Seq(S)
      /\ Len(a \o b) = Len(a) + Len(b)
      /\ \A j \in 1..(Len(a) + Len(b)) :
           (a \o b)[j] = IF j <= Len(a) THEN a[j] ELSE b[j - Len(a)]
  BY <1>1, <1>2, ConcatProperties
<1>4. RemoveAt(s, i) = a \o b
  BY DEF RemoveAt, a, b
<1>5. \A j \in 1..(Len(s) - 1) : (a \o b)[j] = IF j < i THEN s[j] ELSE s[j + 1]
  <2> TAKE j \in 1..(Len(s) - 1)
  <2>1. CASE j < i
    <3>1. j \in 1..(i - 1) /\ j \in 1..(Len(a) + Len(b)) /\ j <= Len(a)
      BY <2>1, <1>0, <1>1, <1>2
    <3> QED BY <3>1, <2>1, <1>1, <1>3
  <2>2. CASE ~ (j < i)
    <3>1. (a \o b)[j] = b[j - (i - 1)]
      BY <2>2, <1>0, <1>1, <1>2, <1>3
    <3>2. j - (i - 1) \in 1..(Len(s) - i)
      BY <2>2, <1>0
    <3>3. b[j - (i - 1)] = s[i + (j - (i - 1))]
      BY <3>2, <1>2
    <3>4. i + (j - (i - 1)) = j + 1
      BY <1>0
    <3>5. ~ (j < i)
      BY <2>2, <1>0
    <3>6. (a \o b)[j] = s[j + 1]
      BY <3>1, <3>3, <3>4
    <3> QED BY <3>5, <3>6
  <2> QED BY <2>1, <2>2
<1> QED BY <1>0, <1>1, <1>2, <1>3, <1>4, <1>5

(* The head and the rest of a list are its entries.                         *)
LEMMA HeadTailRange ==
  ASSUME NEW S, NEW s \in Seq(S), s # <<>>
  PROVE  /\ Len(s) \in Nat \ {0} /\ Head(s) = s[1] /\ Head(s) \in S
         /\ Tail(s) \in Seq(S) /\ Len(Tail(s)) = Len(s) - 1
         /\ \A i \in 1..(Len(s) - 1) : Tail(s)[i] = s[i + 1]
         /\ Range(s) = Range(Tail(s)) \cup {Head(s)}
<1>1. Len(s) \in Nat \ {0}
  BY EmptySeq
<1>2. /\ Head(s) \in S /\ Tail(s) \in Seq(S) /\ Len(Tail(s)) = Len(s) - 1
      /\ \A i \in 1..Len(Tail(s)) : Tail(s)[i] = s[i + 1]
  BY HeadTailProperties
<1>3. Head(s) = s[1]
  BY <1>1
<1> DEFINE r == Tail(s)
<1>4. Range(r) = {r[i] : i \in 1..(Len(s) - 1)}
  BY <1>2, RangeEquality
<1>5. Range(s) = {s[i] : i \in 1..Len(s)}
  BY RangeEquality
<1>6. \A i \in 1..(Len(s) - 1) : r[i] = s[i + 1] /\ i + 1 \in 1..Len(s)
  BY <1>1, <1>2
<1>7. \A i \in 1..Len(s) : i = 1 \/ (i - 1 \in 1..(Len(s) - 1) /\ r[i - 1] = s[i])
  <2> TAKE i \in 1..Len(s)
  <2>1. CASE i # 1
    <3>1. i - 1 \in 1..(Len(s) - 1) /\ (i - 1) + 1 = i
      BY <2>1, <1>1
    <3> QED BY <3>1, <1>6
  <2> QED BY <2>1
<1> HIDE DEF r
<1>8. Range(s) = Range(r) \cup {s[1]}
  <2>1. 1 \in 1..Len(s)
    BY <1>1
  <2> QED BY <1>4, <1>5, <1>6, <1>7, <2>1
<1> QED BY <1>1, <1>2, <1>3, <1>8 DEF r

-----------------------------------------------------------------------------
(* Admission                                                                *)

(* Types of what is on its way.                                             *)
AdmRequest ==
  [kind : Adm!Kinds, query : Token \cup {Adm!NoToken}, cookie : Adm!Values \cup {Adm!NoToken}]
AdmResponse ==
  [kind : Adm!Kinds, ok : BOOLEAN, sets : Adm!Values \cup {"clear", "keep"},
   query : Token \cup {Adm!NoToken}]

AdmFlags == connected \in BOOLEAN /\ refused \in BOOLEAN

AdmTyped ==
  /\ admissionToken \in Token /\ cookie \in Adm!Values \cup {Adm!NoToken}
  /\ stored \in Token \cup {Adm!NoToken} /\ presented \subseteq Token
  /\ entered \in {"no", "asking", "yes"}
  /\ admissionRequests \subseteq AdmRequest /\ responses \subseteq AdmResponse

(* Whatever names a token on its way was typed by the user.                 *)
Shown(v) == v \in presented \cup {Adm!NoToken}
Earned ==
  /\ Shown(cookie) /\ Shown(stored)
  /\ \A r \in admissionRequests : Shown(r.query) /\ Shown(r.cookie)
  /\ \A a \in responses : Shown(a.query) /\ a.sets \in presented \cup {"clear", "keep"}

(* The browser that asks with the right token has nothing else on its way;  *)
(* once it is in, all it has on its way has the token too.                  *)
Good(a) ==
  /\ a.kind # "enter" /\ (a.kind = "health" \/ a.ok)
  /\ a.sets \in {admissionToken, "keep"}
Admitted(a, c) ==
  /\ a.kind = "enter" /\ a.ok /\ a.query = admissionToken
  /\ a.sets = admissionToken \/ (a.sets = "keep" /\ c = admissionToken)
Entering ==
  /\ entered = "asking" =>
       /\ ~refused
       /\ \/ /\ responses = {}
             /\ \E r \in AdmRequest :
                  /\ admissionRequests = {r} /\ r.kind = "enter"
                  /\ r.query = admissionToken /\ r.cookie = cookie
          \/ /\ admissionRequests = {}
             /\ \E a \in AdmResponse : responses = {a} /\ Admitted(a, cookie)
  /\ entered = "yes" =>
       /\ ~refused /\ cookie = admissionToken /\ stored = admissionToken
       /\ \A r \in admissionRequests :
            r.kind # "enter" /\ (r.query = admissionToken \/ r.cookie = admissionToken)
       /\ \A a \in responses : Good(a)

AdmIInv ==
  /\ AdmFlags /\ AdmTyped /\ Earned /\ Entering /\ admissions \in 0..MaxAdmissions

(* No token is the text of another answer, or of nothing.                   *)
LEMMA TokensApart ==
  /\ Adm!NoToken \notin Token /\ "clear" \notin Token /\ "keep" \notin Token
  /\ "clear" \notin Adm!Values /\ "keep" \notin Adm!Values /\ Token \subseteq Adm!Values
  /\ Adm!NoToken # "clear" /\ Adm!NoToken # "keep"
BY PanelsBounds DEF Adm!NoToken, Adm!Values

(* No token of the server is changed by its encoding.                       *)
LEMMA PlainTokens == \A t : Adm!Encoded(t) = t
BY DEF Adm!Encoded

(* Nothing is on its way, nobody has entered.                               *)
LEMMA AdmInitially == Adm!AdmissionInit => AdmIInv
<1> SUFFICES ASSUME Adm!AdmissionInit PROVE AdmIInv
  OBVIOUS
<1>1. AdmFlags /\ entered = "no"
  BY DEF Adm!AdmissionInit, AdmFlags
<1>2. AdmTyped /\ Earned
  BY DEF Adm!AdmissionInit, AdmTyped, Earned, Shown
<1>3. admissions \in 0..MaxAdmissions
  <2>1. admissions = 0
    BY DEF Adm!AdmissionInit
  <2> QED BY <2>1, PanelsBounds
<1> QED BY <1>1, <1>2, <1>3 DEF AdmIInv, Entering

(* A step of the user or of the server is counted.                          *)
LEMMA AdmCounts ==
  ASSUME admissions \in 0..MaxAdmissions, Adm!AdmissionStep
  PROVE  admissions' \in 0..MaxAdmissions
<1>1. admissions < MaxAdmissions /\ admissions' = admissions + 1
  BY DEF Adm!AdmissionStep
<1> QED BY <1>1, PanelsBounds

(* The page is opened with a token.                                         *)
LEMMA KeepEnter ==
  ASSUME AdmIInv, NEW t \in Token, Adm!Enter(t)
  PROVE  AdmIInv'
<1>1. /\ Adm!AdmissionStep /\ presented' = presented \cup {t}
      /\ admissionRequests' = admissionRequests \cup
           {[kind |-> "enter", query |-> t, cookie |-> cookie]}
      /\ entered' = IF t = admissionToken /\ admissionRequests = {} /\ responses = {}
                    THEN "asking" ELSE "no"
      /\ refused' = FALSE
      /\ UNCHANGED <<admissionToken, cookie, stored, responses, connected>>
  BY DEF Adm!Enter, Adm!Request
<1>2. AdmFlags /\ AdmTyped /\ Earned /\ admissions \in 0..MaxAdmissions
  BY DEF AdmIInv
<1> PICK r : r = [kind |-> "enter", query |-> t, cookie |-> cookie]
  OBVIOUS
<1>3. r \in AdmRequest /\ r.kind = "enter" /\ r.query = t /\ r.cookie = cookie
  BY <1>2 DEF AdmRequest, AdmTyped, Adm!Kinds
<1>4. admissionRequests' = admissionRequests \cup {r}
  BY <1>1
<1>5. AdmFlags'
  BY <1>1, <1>2 DEF AdmFlags
<1>6. AdmTyped'
  BY <1>1, <1>2, <1>3, <1>4 DEF AdmTyped
<1>7. Earned'
  BY <1>1, <1>2, <1>3, <1>4 DEF Earned, Shown
<1>8. Entering'
  BY <1>1, <1>3, <1>4 DEF Entering
<1>9. (admissions \in 0..MaxAdmissions)'
  BY <1>1, <1>2, AdmCounts
<1> QED BY <1>5, <1>6, <1>7, <1>8, <1>9 DEF AdmIInv

(* A page, an asset, the health of the server or the socket is asked for,   *)
(* with the cookie of the moment.                                           *)
LEMMA KeepAsk ==
  ASSUME AdmIInv, (\E kind \in Adm!Kinds : Adm!Ask(kind)) \/ Adm!Connect
  PROVE  AdmIInv'
<1>1. \E r \in AdmRequest :
        /\ admissionRequests' = admissionRequests \cup {r}
        /\ r.kind # "enter" /\ r.cookie = cookie
        /\ r.query \in {stored, Adm!NoToken}
  <2>1. CASE Adm!Connect
    <3>1. PICK r : r = [kind |-> "socket", query |-> stored, cookie |-> cookie]
      OBVIOUS
    <3>2. r \in AdmRequest /\ r.kind # "enter" /\ r.cookie = cookie /\ r.query = stored
      BY <3>1 DEF AdmIInv, AdmRequest, AdmTyped, Adm!Kinds
    <3> QED BY <2>1, <3>1, <3>2 DEF Adm!Connect, Adm!Request
  <2>2. ASSUME NEW kind \in Adm!Kinds, Adm!Ask(kind)
        PROVE  \E r \in AdmRequest :
                 /\ admissionRequests' = admissionRequests \cup {r}
                 /\ r.kind # "enter" /\ r.cookie = cookie
                 /\ r.query \in {stored, Adm!NoToken}
    <3>1. PICK r : r = [kind |-> kind, query |-> Adm!NoToken, cookie |-> cookie]
      OBVIOUS
    <3>2. kind # "enter"
      BY <2>2 DEF Adm!Ask
    <3>3. r \in AdmRequest /\ r.kind # "enter" /\ r.cookie = cookie
          /\ r.query = Adm!NoToken
      BY <3>1, <3>2 DEF AdmIInv, AdmRequest, AdmTyped
    <3> QED BY <2>2, <3>1, <3>3 DEF Adm!Ask, Adm!Request
  <2> QED BY <2>1, <2>2
<1>2. /\ Adm!AdmissionStep /\ Adm!Crosses
      /\ UNCHANGED <<admissionToken, cookie, stored, responses, connected, refused,
                     presented>>
  BY DEF Adm!Ask, Adm!Connect
<1>3. PICK r \in AdmRequest :
        /\ admissionRequests' = admissionRequests \cup {r}
        /\ r.kind # "enter" /\ r.cookie = cookie
        /\ r.query \in {stored, Adm!NoToken}
  BY <1>1
<1>4. /\ AdmFlags /\ AdmTyped /\ Earned /\ Entering /\ admissions \in 0..MaxAdmissions
  BY DEF AdmIInv
<1>5. entered' = IF entered = "yes" THEN "yes" ELSE "no"
  BY <1>2 DEF Adm!Crosses
<1>6. AdmFlags' /\ AdmTyped'
  BY <1>2, <1>3, <1>4, <1>5 DEF AdmFlags, AdmTyped
<1>7. Earned'
  BY <1>2, <1>3, <1>4 DEF Earned, Shown
<1>8. Entering'
  BY <1>2, <1>3, <1>4, <1>5 DEF Entering, Good
<1>9. (admissions \in 0..MaxAdmissions)'
  BY <1>2, <1>4, AdmCounts
<1> QED BY <1>6, <1>7, <1>8, <1>9 DEF AdmIInv

(* The server starts again.                                                 *)
LEMMA KeepAdmRestart ==
  ASSUME AdmIInv, NEW t \in Token, Adm!Restart(t)
  PROVE  AdmIInv'
<1>1. /\ Adm!AdmissionStep /\ admissionToken' = t /\ connected' = FALSE
      /\ entered' = IF t = admissionToken THEN entered ELSE "no"
      /\ UNCHANGED <<cookie, stored, admissionRequests, responses, refused, presented>>
  BY DEF Adm!Restart
<1>2. /\ AdmFlags /\ AdmTyped /\ Earned /\ Entering /\ admissions \in 0..MaxAdmissions
  BY DEF AdmIInv
<1>3. AdmFlags' /\ AdmTyped' /\ Earned'
  BY <1>1, <1>2 DEF AdmFlags, AdmTyped, Earned, Shown
<1>4. Entering'
  BY <1>1, <1>2 DEF Entering, Good, Admitted
<1>5. (admissions \in 0..MaxAdmissions)'
  BY <1>1, <1>2, AdmCounts
<1> QED BY <1>3, <1>4, <1>5 DEF AdmIInv

(* CookieAfter: the token of the server, for those who showed it.           *)
LEMMA CookieAfterProperties ==
  ASSUME AdmTyped, Earned, NEW r \in admissionRequests
  PROVE  /\ Adm!CookieAfter(r) \in Adm!Values \cup {"clear", "keep"}
         /\ Adm!CookieAfter(r) \in presented \cup {"clear", "keep"}
         /\ Adm!TokenOk(r) => \/ Adm!CookieAfter(r) = admissionToken
                              \/ Adm!CookieAfter(r) = "keep" /\ r.cookie = admissionToken
<1>1. admissionToken \in Token /\ admissionToken \in Adm!Values
  BY TokensApart DEF AdmTyped
<1>2. Adm!Encoded(admissionToken) = admissionToken
  BY PlainTokens
<1>3. Adm!TokenOk(r) => admissionToken \in presented
  BY <1>1, TokensApart DEF Adm!TokenOk, Earned, Shown
<1>4. Adm!CookieAfter(r) = IF Adm!TokenOk(r) /\ r.cookie # admissionToken THEN admissionToken
                           ELSE IF ~Adm!TokenOk(r) /\ r.cookie # Adm!NoToken THEN "clear"
                           ELSE "keep"
  BY <1>2 DEF Adm!CookieAfter
<1> QED BY <1>1, <1>3, <1>4

(* The middleware answers.                                                  *)
LEMMA KeepServe ==
  ASSUME AdmIInv, NEW r \in admissionRequests, Adm!Serve(r)
  PROVE  AdmIInv'
<1> DEFINE passed == IF r.kind = "socket" THEN Adm!OriginAllowed("own") /\ Adm!TokenOk(r)
                     ELSE r.kind = "health" \/ Adm!TokenOk(r)
           given == IF r.kind = "socket" THEN "keep" ELSE Adm!CookieAfter(r)
<1>1. /\ admissionRequests' = admissionRequests \ {r}
      /\ responses' = responses \cup
           {[kind |-> r.kind, ok |-> passed, sets |-> given, query |-> r.query]}
      /\ UNCHANGED <<admissionToken, cookie, stored, connected, entered, refused, presented,
                     admissions>>
  BY DEF Adm!Serve
<1>2. /\ AdmFlags /\ AdmTyped /\ Earned /\ Entering /\ admissions \in 0..MaxAdmissions
  BY DEF AdmIInv
<1>3. r \in AdmRequest /\ r.kind \in Adm!Kinds /\ r.query \in Token \cup {Adm!NoToken}
  BY <1>2 DEF AdmTyped, AdmRequest
<1>4. /\ passed \in BOOLEAN
      /\ Adm!TokenOk(r) => passed
      /\ r.kind = "health" => passed
  BY DEF Adm!OriginAllowed, Adm!TokenOk
<1>5. /\ given \in Adm!Values \cup {"clear", "keep"}
      /\ given \in presented \cup {"clear", "keep"}
      /\ Adm!TokenOk(r) => \/ given = admissionToken
                           \/ given = "keep" /\ (r.kind = "socket" \/ r.cookie = admissionToken)
  BY <1>2, CookieAfterProperties
<1> HIDE DEF passed, given
<1>6. PICK a : a = [kind |-> r.kind, ok |-> passed, sets |-> given, query |-> r.query]
  OBVIOUS
<1>7. /\ a \in AdmResponse /\ a.kind = r.kind /\ a.ok = passed /\ a.sets = given
      /\ a.query = r.query
  BY <1>3, <1>4, <1>5, <1>6 DEF AdmResponse
<1>8. responses' = responses \cup {a}
  BY <1>1, <1>6
<1>9. AdmFlags' /\ AdmTyped' /\ (admissions \in 0..MaxAdmissions)'
  BY <1>1, <1>2, <1>7, <1>8 DEF AdmFlags, AdmTyped
<1>10. Earned'
  BY <1>1, <1>2, <1>5, <1>7, <1>8 DEF Earned, Shown
<1>11. Entering'
  <2>1. CASE entered = "asking"
    <3>1. PICK q \in AdmRequest : /\ admissionRequests = {q} /\ q.kind = "enter"
                                  /\ q.query = admissionToken /\ q.cookie = cookie
      BY <1>2, <2>1 DEF Entering
    <3>2. ~refused /\ responses = {}
      BY <1>2, <2>1, <3>1 DEF Entering
    <3>3. r = q
      BY <3>1
    <3>4. Admitted(a, cookie)
      BY <1>4, <1>5, <1>7, <3>1, <3>3 DEF Admitted, Adm!TokenOk
    <3>5. admissionRequests' = {} /\ responses' = {a}
      BY <1>1, <1>8, <3>1, <3>2, <3>3
    <3>6. \E b \in AdmResponse : responses' = {b} /\ Admitted(b, cookie)'
      BY <1>1, <1>7, <3>4, <3>5 DEF Admitted
    <3> QED BY <1>1, <2>1, <3>2, <3>5, <3>6 DEF Entering
  <2>2. CASE entered = "yes"
    <3>1. /\ ~refused /\ cookie = admissionToken /\ stored = admissionToken
          /\ \A q \in admissionRequests :
               q.kind # "enter" /\ (q.query = admissionToken \/ q.cookie = admissionToken)
          /\ \A b \in responses : Good(b)
      BY <1>2, <2>2 DEF Entering
    <3>2. Good(a)
      BY <1>4, <1>5, <1>7, <3>1 DEF Good, Adm!TokenOk
    <3>3. \A b \in responses' : Good(b)'
      BY <1>1, <1>8, <3>1, <3>2 DEF Good
    <3> QED BY <1>1, <2>2, <3>1, <3>3 DEF Entering
  <2>3. CASE entered = "no"
    BY <1>1, <2>3 DEF Entering
  <2> QED BY <1>2, <2>1, <2>2, <2>3 DEF AdmTyped
<1> QED BY <1>9, <1>10, <1>11 DEF AdmIInv

(* The answer arrives.                                                      *)
LEMMA KeepArrive ==
  ASSUME AdmIInv, NEW a \in responses, Adm!Arrive(a)
  PROVE  AdmIInv'
<1>1. /\ responses' = responses \ {a}
      /\ cookie' = IF a.sets = "clear" THEN Adm!NoToken
                   ELSE IF a.sets = "keep" THEN cookie ELSE a.sets
      /\ stored' = IF a.kind = "enter" /\ a.ok THEN a.query ELSE stored
      /\ connected' = (connected \/ (a.kind = "socket" /\ a.ok))
      /\ entered' = IF entered = "asking" /\ a.kind = "enter" /\ a.ok THEN "yes" ELSE entered
      /\ refused' = (refused \/ (entered = "yes" /\ a.kind # "health" /\ ~a.ok))
      /\ UNCHANGED <<admissionToken, admissionRequests, presented, admissions>>
  BY DEF Adm!Arrive
<1>2. /\ AdmFlags /\ AdmTyped /\ Earned /\ Entering /\ admissions \in 0..MaxAdmissions
  BY DEF AdmIInv
<1>3. a \in AdmResponse /\ a.ok \in BOOLEAN /\ a.query \in Token \cup {Adm!NoToken}
      /\ a.sets \in Adm!Values \cup {"clear", "keep"}
  BY <1>2 DEF AdmTyped, AdmResponse
<1>4. AdmFlags' /\ (admissions \in 0..MaxAdmissions)'
  BY <1>1, <1>2 DEF AdmFlags
<1>5. AdmTyped'
  BY <1>1, <1>2, <1>3 DEF AdmTyped
<1>6. Earned'
  BY <1>1, <1>2 DEF Earned, Shown
<1>7. Entering'
  <2>1. CASE entered = "asking"
    <3>1. PICK b \in AdmResponse : responses = {b} /\ Admitted(b, cookie)
      BY <1>2, <2>1 DEF Entering
    <3>2. ~refused /\ admissionRequests = {} /\ a = b
      BY <1>2, <2>1, <3>1 DEF Entering
    <3>3. /\ entered' = "yes" /\ ~refused' /\ responses' = {} /\ admissionRequests' = {}
          /\ cookie' = admissionToken' /\ stored' = admissionToken'
      BY <1>1, <1>2, <2>1, <3>1, <3>2, TokensApart DEF Admitted, AdmTyped
    <3> QED BY <3>3 DEF Entering
  <2>2. CASE entered = "yes"
    <3>1. /\ ~refused /\ cookie = admissionToken /\ stored = admissionToken
          /\ \A q \in admissionRequests :
               q.kind # "enter" /\ (q.query = admissionToken \/ q.cookie = admissionToken)
          /\ \A b \in responses : Good(b)
      BY <1>2, <2>2 DEF Entering
    <3>2. Good(a)
      BY <3>1
    <3>3. /\ entered' = "yes" /\ ~refused' /\ cookie' = admissionToken'
          /\ stored' = admissionToken'
      BY <1>1, <1>2, <2>2, <3>1, <3>2, TokensApart DEF Good, AdmTyped
    <3>4. \A b \in responses' : Good(b)'
      BY <1>1, <3>1 DEF Good
    <3> QED BY <1>1, <3>1, <3>3, <3>4 DEF Entering
  <2>3. CASE entered = "no"
    BY <1>1, <2>3 DEF Entering
  <2> QED BY <1>2, <2>1, <2>2, <2>3 DEF AdmTyped
<1> QED BY <1>4, <1>5, <1>6, <1>7 DEF AdmIInv

(* Every step of the admission keeps the invariant.                         *)
LEMMA AdmStep == AdmIInv /\ [Adm!AdmissionNext]_admissionVars => AdmIInv'
<1> SUFFICES ASSUME AdmIInv, [Adm!AdmissionNext]_admissionVars PROVE AdmIInv'
  OBVIOUS
<1>1. CASE UNCHANGED admissionVars
  BY <1>1 DEF admissionVars, AdmIInv, AdmFlags, AdmTyped, Earned, Shown, Entering, Good,
              Admitted
<1>2. CASE Adm!AdmissionNext
  BY <1>2, KeepEnter, KeepAsk, KeepAdmRestart, KeepServe, KeepArrive
     DEF Adm!AdmissionNext
<1> QED BY <1>1, <1>2

(* Admission: who entered with the token of the server is refused nothing   *)
(* until it changes, and a browser has a cookie only of a token its user    *)
(* has typed.                                                               *)
THEOREM TheTokenAdmits == Spec => []TokenAdmits
<1>1. Init => AdmIInv
  BY AdmInitially DEF Init
<1>2. [Next]_vars => [Adm!AdmissionNext]_admissionVars
  BY DEF Next, Rest, vars, admissionVars
<1>3. AdmIInv /\ [Next]_vars => AdmIInv'
  BY <1>2, AdmStep
<1>4. AdmIInv => TokenAdmits
  <2> SUFFICES ASSUME AdmIInv PROVE TokenAdmits
    OBVIOUS
  <2>1. /\ AdmFlags /\ AdmTyped /\ Earned /\ Entering /\ admissions \in 0..MaxAdmissions
    BY DEF AdmIInv
  <2>2. Adm!AdmissionTypeOK
    <3>1. {connected, refused} \subseteq BOOLEAN
      BY <2>1, Zenon DEF AdmFlags
    <3>2. \A r \in admissionRequests :
            /\ r.kind \in Adm!Kinds /\ r.query \in Token \cup {Adm!NoToken}
            /\ r.cookie \in Adm!Values \cup {Adm!NoToken}
      BY <2>1 DEF AdmTyped, AdmRequest
    <3>3. \A a \in responses :
            a.kind \in Adm!Kinds /\ a.sets \in Adm!Values \cup {"clear", "keep"}
      BY <2>1 DEF AdmTyped, AdmResponse
    <3> QED BY <2>1, <3>1, <3>2, <3>3 DEF Adm!AdmissionTypeOK, AdmTyped
  <2>3. Adm!OneEntryIsEnough
    BY <2>1 DEF Adm!OneEntryIsEnough, Entering
  <2>4. Adm!CookieEarned
    BY <2>1, PlainTokens DEF Adm!CookieEarned, Earned, Shown
  <2> QED BY <2>2, <2>3, <2>4 DEF TokenAdmits
<1> QED BY <1>1, <1>3, <1>4, PTL DEF Spec

-----------------------------------------------------------------------------
(* SettingsStore                                                            *)

(* Types, and the invariant: the two properties are inductive together.     *)
SetsTyped ==
  /\ settingsStore \in Sets!Settings /\ chosen \in Sets!Settings /\ presets \in Sets!Preset
  /\ copy \in [SettingsTab -> Sets!Settings] /\ presetCopy \in [SettingsTab -> Sets!Preset]
  /\ showing \in exists /\ replying \subseteq exists /\ exists \subseteq SettingsChat
  /\ loadedWith \in [SettingsChat -> 0 .. 1] /\ retries \in [SettingsChat -> 0 .. 1]
  /\ tools \in [SettingsChat -> SUBSET Sets!Tool]
  /\ reloads \subseteq exists /\ stale \subseteq exists /\ unreplayed \subseteq exists
SetsIInv ==
  /\ SetsTyped /\ reloadPending \in BOOLEAN /\ sets \in 0..MaxSets
  /\ Sets!RetryOverrideHolds /\ Sets!ToolsStayGated

(* Settings and presets have their fields; a change of one leaves the rest. *)
LEMMA SettingsFields ==
  ASSUME NEW s \in Sets!Settings
  PROVE  /\ s.skills \in 0..1 /\ s.retry \in 0..1 /\ s.off \subseteq Sets!Tool
         /\ s.ask \in BOOLEAN
         /\ [s EXCEPT !.skills = 1 - s.skills] \in Sets!Settings
         /\ [s EXCEPT !.retry = 1 - s.retry] \in Sets!Settings
         /\ \A off \in SUBSET Sets!Tool, ask \in BOOLEAN :
              [s EXCEPT !.off = off, !.ask = ask] \in Sets!Settings
<1>1. /\ s.skills \in 0..1 /\ s.retry \in 0..1 /\ s.off \subseteq Sets!Tool
      /\ s.ask \in BOOLEAN
  BY DEF Sets!Settings
<1>2. 1 - s.skills \in 0..1 /\ 1 - s.retry \in 0..1
  BY <1>1
<1>3. \A n \in 0..1 : /\ [s EXCEPT !.skills = n] \in Sets!Settings
                      /\ [s EXCEPT !.retry = n] \in Sets!Settings
  BY DEF Sets!Settings
<1>4. \A off \in SUBSET Sets!Tool, ask \in BOOLEAN :
        [s EXCEPT !.off = off, !.ask = ask] \in Sets!Settings
  BY DEF Sets!Settings
<1> QED BY <1>1, <1>2, <1>3, <1>4

(* Gated: the tools that are not off.                                       *)
LEMMA GatedTyped == \A s : Sets!Gated(s) \subseteq Sets!Tool
BY DEF Sets!Gated

(* Nothing was changed; the first chat has the default tools.               *)
LEMMA SetsInitially == Sets!SettingsInit => SetsIInv
<1> SUFFICES ASSUME Sets!SettingsInit PROVE SetsIInv
  OBVIOUS
<1>1. Sets!Default \in Sets!Settings /\ Sets!NoPreset \in Sets!Preset
  BY DEF Sets!Default, Sets!Settings, Sets!NoPreset, Sets!Preset, Sets!Tool
<1>2. SetsTyped
  BY <1>1, PanelsBounds DEF Sets!SettingsInit, SetsTyped, Sets!Tool
<1>3. sets \in 0..MaxSets
  <2>1. sets = 0
    BY DEF Sets!SettingsInit
  <2> QED BY <2>1, PanelsBounds
<1>4. Sets!Default.retry = 0 /\ Sets!Gated(Sets!Default) = {"question"}
  BY DEF Sets!Default, Sets!Gated, Sets!Effective, Sets!Tool
<1>5. Sets!RetryOverrideHolds /\ Sets!ToolsStayGated
  BY <1>4, PanelsBounds
     DEF Sets!SettingsInit, Sets!RetryOverrideHolds, Sets!ToolsStayGated
<1>6. reloadPending \in BOOLEAN
  BY DEF Sets!SettingsInit
<1> QED BY <1>2, <1>3, <1>5, <1>6 DEF SetsIInv

(* Overrides: the retry count of every open chat.                           *)
LEMMA OverridesProperties ==
  ASSUME SetsTyped, NEW s, s.retry \in 0..1
  PROVE  /\ Sets!Overrides(s) \in [SettingsChat -> 0..1]
         /\ \A x \in exists : Sets!Overrides(s)[x] = s.retry
BY DEF SetsTyped, Sets!Overrides

(* Apply: a session that is not being reloaded keeps its retry count.       *)
LEMMA ApplyProperties ==
  ASSUME SetsTyped, NEW s \in Sets!Settings, NEW injects \in BOOLEAN,
         NEW needsReload \in BOOLEAN, NEW busy \in SUBSET SettingsChat,
         Sets!Apply(s, injects, needsReload, busy)
  PROVE  /\ reloads' \subseteq exists /\ reloads \subseteq reloads'
         /\ unreplayed' \subseteq exists
         /\ retries' \in [SettingsChat -> 0..1]
         /\ reloadPending \in BOOLEAN => reloadPending' \in BOOLEAN
         /\ injects => \A x \in exists \ reloads' : retries'[x] = s.retry
         /\ ~injects => /\ unreplayed' = unreplayed
                        /\ \A x \in exists \ reloads' : retries'[x] = retries[x]
<1> DEFINE injected == IF injects THEN Sets!Overrides(s) ELSE retries
           now == needsReload /\ showing \notin busy
<1>1. /\ reloads' = IF now THEN reloads \cup {showing} ELSE reloads
      /\ retries' = IF now THEN [injected EXCEPT ![showing] = 0] ELSE injected
      /\ unreplayed' = IF injects THEN {} ELSE unreplayed
      /\ reloadPending' = IF needsReload THEN showing \in busy ELSE reloadPending
  BY DEF Sets!Apply
<1>2. s.retry \in 0..1
  BY SettingsFields
<1>3. injected \in [SettingsChat -> 0..1] /\ (injects => \A x \in exists : injected[x] = s.retry)
  BY <1>2, OverridesProperties DEF SetsTyped
<1>4. ~injects => injected = retries
  OBVIOUS
<1> HIDE DEF injected
<1>5. retries' \in [SettingsChat -> 0..1]
  BY <1>1, <1>3 DEF SetsTyped
<1>6. \A x \in exists \ reloads' : retries'[x] = injected[x]
  BY <1>1, <1>3 DEF SetsTyped
<1>7. /\ reloads' \subseteq exists /\ reloads \subseteq reloads' /\ unreplayed' \subseteq exists
  BY <1>1 DEF SetsTyped
<1>8. reloadPending \in BOOLEAN => reloadPending' \in BOOLEAN
  <2>1. reloadPending' = reloadPending \/ reloadPending' = (showing \in busy)
    BY <1>1
  <2>2. CASE reloadPending' = (showing \in busy)
    BY <2>2, SMT
  <2> QED BY <2>1, <2>2, Zenon
<1>9. injects => \A x \in exists \ reloads' : retries'[x] = s.retry
  BY <1>3, <1>6
<1>10. ~injects => /\ unreplayed' = unreplayed
                  /\ \A x \in exists \ reloads' : retries'[x] = retries[x]
  BY <1>1, <1>4, <1>6
<1> QED BY <1>5, <1>7, <1>8, <1>9, <1>10

(* Set: a change that is injected reaches all sessions, one of the tools    *)
(* the active one.                                                          *)
LEMMA SetKeeps ==
  ASSUME SetsIInv, NEW t \in SettingsTab, NEW s \in Sets!Settings, chosen' \in Sets!Settings,
         NEW toolsChanged \in BOOLEAN, NEW injects \in BOOLEAN, NEW needsReload \in BOOLEAN,
         injects \/ s.retry = copy[t].retry,
         toolsChanged \/ Sets!Gated(s) = Sets!Gated(copy[t]),
         Sets!Set(t, s, toolsChanged, injects, needsReload)
  PROVE  SetsIInv'
<1>1. /\ sets < MaxSets /\ sets' = sets + 1
      /\ copy' = [copy EXCEPT ![t] = s] /\ settingsStore' = s
      /\ UNCHANGED <<presets, presetCopy, showing, exists, replying, loadedWith>>
  BY DEF Sets!Set, Sets!Save
<1>2. SetsTyped /\ Sets!RetryOverrideHolds /\ Sets!ToolsStayGated /\ reloadPending \in BOOLEAN
  BY DEF SetsIInv
<1>3. (sets \in 0..MaxSets)'
  BY <1>1, PanelsBounds DEF SetsIInv
<1>4. copy' \in [SettingsTab -> Sets!Settings]
  BY <1>1, <1>2 DEF SetsTyped
<1>5. CASE t = Mine
  <2>1. /\ tools' = IF toolsChanged THEN [tools EXCEPT ![showing] = Sets!Gated(s)] ELSE tools
        /\ stale' = IF toolsChanged THEN stale \cup (exists \ {showing}) ELSE stale
        /\ Sets!Apply(s, injects, needsReload, replying)
    BY <1>5 DEF Sets!Set, Sets!Save
  <2>2. /\ reloads' \subseteq exists /\ reloads \subseteq reloads' /\ unreplayed' \subseteq exists
        /\ retries' \in [SettingsChat -> 0..1] /\ reloadPending' \in BOOLEAN
        /\ injects => \A x \in exists \ reloads' : retries'[x] = s.retry
        /\ ~injects => /\ unreplayed' = unreplayed
                       /\ \A x \in exists \ reloads' : retries'[x] = retries[x]
    BY <1>2, <2>1, ApplyProperties DEF SetsTyped
  <2>3. copy'[Mine] = s
    BY <1>1, <1>2, <1>5 DEF SetsTyped
  <2>4. Sets!Gated(s) \subseteq Sets!Tool
    BY GatedTyped
  <2>5. /\ tools' \in [SettingsChat -> SUBSET Sets!Tool] /\ stale' \subseteq exists
        /\ toolsChanged => tools'[showing] = Sets!Gated(s) /\ exists \ {showing} \subseteq stale'
    BY <1>2, <2>1, <2>4 DEF SetsTyped
  <2>6. SetsTyped'
    BY <1>1, <1>2, <1>4, <2>2, <2>5 DEF SetsTyped
  <2>7. Sets!RetryOverrideHolds'
    <3>1. CASE injects
      BY <1>1, <2>2, <2>3, <3>1 DEF Sets!RetryOverrideHolds
    <3>2. CASE ~injects
      BY <1>1, <1>2, <1>5, <2>2, <2>3, <3>2 DEF Sets!RetryOverrideHolds
    <3> QED BY <3>1, <3>2
  <2>8. Sets!ToolsStayGated'
    <3>1. CASE toolsChanged
      BY <1>1, <2>3, <2>5, <3>1 DEF Sets!ToolsStayGated
    <3>2. CASE ~toolsChanged
      BY <1>1, <1>2, <1>5, <2>1, <2>2, <2>3, <3>2 DEF Sets!ToolsStayGated
    <3> QED BY <3>1, <3>2
  <2> QED BY <1>3, <2>2, <2>6, <2>7, <2>8 DEF SetsIInv
<1>6. CASE t # Mine
  <2>1. UNCHANGED <<retries, tools, stale, reloads, unreplayed, reloadPending>>
    BY <1>6 DEF Sets!Set, Sets!Save
  <2>2. copy'[Mine] = copy[Mine]
    BY <1>1, <1>2, <1>6, PanelsBounds DEF SetsTyped
  <2>3. SetsTyped'
    BY <1>1, <1>2, <1>4, <2>1 DEF SetsTyped
  <2>4. Sets!RetryOverrideHolds' /\ Sets!ToolsStayGated'
    BY <1>1, <1>2, <2>1, <2>2 DEF Sets!RetryOverrideHolds, Sets!ToolsStayGated
  <2> QED BY <1>2, <1>3, <2>1, <2>3, <2>4 DEF SetsIInv
<1> QED BY <1>5, <1>6

(* The switches of the panel: skills, retries, a tool, a preset.            *)
LEMMA KeepChange ==
  ASSUME SetsIInv, NEW t \in SettingsTab,
         \/ Sets!SetSkills(t) \/ Sets!SetRetry(t) \/ Sets!ApplyPreset(t)
         \/ \E tool \in Sets!Tool : Sets!SetTool(t, tool)
  PROVE  SetsIInv'
<1> DEFINE s == copy[t]
<1>1. SetsTyped
  BY DEF SetsIInv
<1>2. s \in Sets!Settings /\ chosen \in Sets!Settings /\ presetCopy[t] \in Sets!Preset
  BY <1>1 DEF SetsTyped
<1>3. /\ s.skills \in 0..1 /\ s.retry \in 0..1
      /\ 1 - s.skills \in 0..1 /\ 1 - s.retry \in 0..1
  <2>1. s.skills \in 0..1 /\ s.retry \in 0..1
    BY <1>2, SettingsFields
  <2> HIDE DEF s
  <2> QED BY <2>1
<1> HIDE DEF s
<1>4. CASE Sets!SetSkills(t)
  <2>1. PICK n \in Sets!Settings : n = [s EXCEPT !.skills = 1 - s.skills]
    BY <1>2, SettingsFields
  <2>2. n.retry = s.retry /\ n.off = s.off /\ n.ask = s.ask
    BY <1>2, <2>1 DEF Sets!Settings
  <2>3. Sets!Gated(n) = Sets!Gated(s)
    BY <2>2 DEF Sets!Gated, Sets!Effective
  <2>4. Sets!Set(t, n, FALSE, FALSE, TRUE) /\ chosen' = [chosen EXCEPT !.skills = 1 - s.skills]
    BY <1>4, <2>1 DEF Sets!SetSkills, s
  <2>5. chosen' \in Sets!Settings
    BY <1>2, <1>3, <2>4 DEF Sets!Settings
  <2> QED BY <2>2, <2>3, <2>4, <2>5, SetKeeps DEF s
<1>5. CASE Sets!SetRetry(t)
  <2>1. PICK n \in Sets!Settings : n = [s EXCEPT !.retry = 1 - s.retry]
    BY <1>2, SettingsFields
  <2>2. n.off = s.off /\ n.ask = s.ask
    BY <1>2, <2>1 DEF Sets!Settings
  <2>3. Sets!Gated(n) = Sets!Gated(s)
    BY <2>2 DEF Sets!Gated, Sets!Effective
  <2>4. Sets!Set(t, n, FALSE, TRUE, FALSE) /\ chosen' = [chosen EXCEPT !.retry = 1 - s.retry]
    BY <1>5, <2>1 DEF Sets!SetRetry, s
  <2>5. chosen' \in Sets!Settings
    BY <1>2, <1>3, <2>4 DEF Sets!Settings
  <2> QED BY <2>3, <2>4, <2>5, SetKeeps DEF s
<1>6. CASE Sets!ApplyPreset(t)
  <2>1. PICK n : n = [skills |-> presetCopy[t].skills, off |-> presetCopy[t].off,
                      ask |-> s.ask, retry |-> presetCopy[t].retry]
    OBVIOUS
  <2>2. n \in Sets!Settings
    BY <1>2, <1>3, <2>1 DEF Sets!Settings, Sets!Preset
  <2>3. Sets!Set(t, n, TRUE, TRUE, TRUE) /\ chosen' = n
    BY <1>6, <2>1 DEF Sets!ApplyPreset, s
  <2> QED BY <2>2, <2>3, SetKeeps
<1>7. ASSUME NEW tool \in Sets!Tool, Sets!SetTool(t, tool) PROVE SetsIInv'
  <2>1. PICK off \in SUBSET Sets!Tool :
          off = IF tool \in s.off THEN s.off \ {tool} ELSE s.off \cup {tool}
    <3>1. s.off \subseteq Sets!Tool
      BY <1>2, SettingsFields DEF s
    <3> QED BY <3>1
  <2>2. PICK ask : ask = Sets!AskIn(off)
    OBVIOUS
  <2>3. ask \in BOOLEAN
    BY <2>2, Zenon DEF Sets!AskIn
  <2>4. PICK n \in Sets!Settings : n = [s EXCEPT !.off = off, !.ask = ask]
    BY <1>2, <2>3, SettingsFields
  <2>5. n.retry = s.retry
    BY <1>2, <2>4 DEF Sets!Settings
  <2>6. /\ Sets!Set(t, n, TRUE, FALSE, FALSE)
        /\ chosen' = [chosen EXCEPT !.off = off, !.ask = ask]
    BY <1>7, <2>1, <2>2, <2>4 DEF Sets!SetTool, s
  <2>7. chosen' \in Sets!Settings
    BY <1>2, <2>3, <2>6, SettingsFields
  <2> QED BY <2>5, <2>6, <2>7, SetKeeps DEF s
<1> QED BY <1>4, <1>5, <1>6, <1>7

(* A preset is saved or deleted: no setting changes.                        *)
LEMMA KeepPresets ==
  ASSUME SetsIInv, NEW t \in SettingsTab, Sets!SavePreset(t) \/ Sets!DeletePreset(t)
  PROVE  SetsIInv'
<1>1. SetsTyped /\ Sets!RetryOverrideHolds /\ Sets!ToolsStayGated /\ reloadPending \in BOOLEAN
  BY DEF SetsIInv
<1>2. copy[t] \in Sets!Settings
  BY <1>1 DEF SetsTyped
<1>3. PICK p \in Sets!Preset : Sets!SavePresets(t, p)
  <2>1. CASE Sets!DeletePreset(t)
    <3>1. Sets!NoPreset \in Sets!Preset
      BY DEF Sets!NoPreset, Sets!Preset
    <3> QED BY <2>1, <3>1 DEF Sets!DeletePreset
  <2>2. CASE Sets!SavePreset(t)
    <3>1. PICK p : p = [saved |-> TRUE, skills |-> copy[t].skills, off |-> copy[t].off,
                        retry |-> copy[t].retry]
      OBVIOUS
    <3>2. p \in Sets!Preset
      BY <1>2, <3>1, SettingsFields DEF Sets!Preset
    <3> QED BY <2>2, <3>1, <3>2 DEF Sets!SavePreset
  <2> QED BY <2>1, <2>2
<1>4. /\ sets < MaxSets /\ sets' = sets + 1
      /\ presets' = p /\ presetCopy' = [presetCopy EXCEPT ![t] = p]
      /\ UNCHANGED <<settingsStore, copy, chosen, showing, exists, replying, loadedWith,
                     tools, retries, reloads, unreplayed, reloadPending, stale>>
  BY <1>3 DEF Sets!SavePresets
<1>5. (sets \in 0..MaxSets)'
  BY <1>4, PanelsBounds DEF SetsIInv
<1>6. SetsTyped' /\ Sets!RetryOverrideHolds' /\ Sets!ToolsStayGated'
  BY <1>1, <1>4 DEF SetsTyped, Sets!RetryOverrideHolds, Sets!ToolsStayGated
<1> QED BY <1>1, <1>4, <1>5, <1>6 DEF SetsIInv

(* A chat is opened or shown: bindSession injects the retry count in all.   *)
LEMMA KeepShown ==
  ASSUME SetsIInv, NEW x \in SettingsChat, Sets!OpenChat(x) \/ Sets!ShowChat(x)
  PROVE  SetsIInv'
<1> DEFINE s == copy[Mine]
<1>1. SetsTyped /\ Sets!RetryOverrideHolds /\ Sets!ToolsStayGated /\ reloadPending \in BOOLEAN
      /\ sets \in 0..MaxSets
  BY DEF SetsIInv
<1>2. s \in Sets!Settings
  BY <1>1, PanelsBounds DEF SetsTyped
<1>3. s.retry \in 0..1 /\ s.skills \in 0..1 /\ Sets!Gated(s) \subseteq Sets!Tool
  BY <1>2, SettingsFields, GatedTyped
<1>4. /\ Sets!Overrides(s) \in [SettingsChat -> 0..1]
      /\ \A y \in exists : Sets!Overrides(s)[y] = s.retry
  BY <1>1, <1>3, OverridesProperties
<1>5. copy' = copy /\ sets' = sets /\ reloadPending' = reloadPending
  BY DEF Sets!OpenChat, Sets!ShowChat
<1> HIDE DEF s
<1>6. CASE Sets!OpenChat(x)
  <2>1. /\ x \notin exists /\ exists' = exists \cup {x} /\ showing' = x
        /\ loadedWith' = [loadedWith EXCEPT ![x] = s.skills]
        /\ tools' = [tools EXCEPT ![x] = Sets!Gated(s)]
        /\ retries' = [Sets!Overrides(s) EXCEPT ![x] = s.retry]
        /\ unreplayed' = {}
        /\ UNCHANGED <<settingsStore, presets, presetCopy, chosen, replying, reloads, stale>>
    BY <1>6 DEF Sets!OpenChat, s
  <2>2. SetsTyped'
    BY <1>1, <1>3, <1>4, <1>5, <2>1 DEF SetsTyped
  <2>3. Sets!RetryOverrideHolds'
    BY <1>4, <1>5, <2>1 DEF Sets!RetryOverrideHolds, SetsTyped, s
  <2>4. Sets!ToolsStayGated'
    BY <1>1, <1>5, <2>1 DEF Sets!ToolsStayGated, SetsTyped, s
  <2> QED BY <1>1, <1>5, <2>2, <2>3, <2>4 DEF SetsIInv
<1>7. CASE Sets!ShowChat(x)
  <2>1. /\ x \in exists /\ showing' = x /\ retries' = Sets!Overrides(s) /\ unreplayed' = {}
        /\ UNCHANGED <<settingsStore, presets, presetCopy, chosen, exists, replying,
                       loadedWith, tools, reloads, stale>>
    BY <1>7 DEF Sets!ShowChat, s
  <2>2. SetsTyped'
    BY <1>1, <1>4, <1>5, <2>1 DEF SetsTyped
  <2>3. Sets!RetryOverrideHolds' /\ Sets!ToolsStayGated'
    BY <1>1, <1>4, <1>5, <2>1 DEF Sets!RetryOverrideHolds, Sets!ToolsStayGated, s
  <2> QED BY <1>1, <1>5, <2>2, <2>3 DEF SetsIInv
<1> QED BY <1>6, <1>7

(* A reply begins, or ends and starts the reload that waited for it.        *)
LEMMA KeepReply ==
  ASSUME SetsIInv, NEW x \in SettingsChat,
         Sets!Reply(x) \/ Sets!ReplyEnds(x, TRUE) \/ Sets!ReplyEnds(x, FALSE)
  PROVE  SetsIInv'
<1>1. SetsTyped /\ Sets!RetryOverrideHolds /\ Sets!ToolsStayGated /\ reloadPending \in BOOLEAN
      /\ sets \in 0..MaxSets
  BY DEF SetsIInv
<1>2. UNCHANGED <<settingsStore, presets, copy, presetCopy, chosen, showing, exists,
                  loadedWith, tools, stale, sets>>
  BY DEF Sets!Reply, Sets!ReplyEnds
<1>3. CASE Sets!Reply(x)
  <2>1. /\ replying' \subseteq exists
        /\ UNCHANGED <<retries, reloads, unreplayed, reloadPending>>
    BY <1>1, <1>3 DEF Sets!Reply, SetsTyped
  <2>2. SetsTyped' /\ Sets!RetryOverrideHolds' /\ Sets!ToolsStayGated'
    BY <1>1, <1>2, <2>1 DEF SetsTyped, Sets!RetryOverrideHolds, Sets!ToolsStayGated
  <2> QED BY <1>1, <1>2, <2>1, <2>2 DEF SetsIInv
<1>4. ASSUME NEW aborted \in BOOLEAN, Sets!ReplyEnds(x, aborted) PROVE SetsIInv'
  <2>1. PICK needs : needs = (reloadPending /\ ~aborted)
    OBVIOUS
  <2>2. needs \in BOOLEAN
    BY <2>1, Zenon
  <2>3. PICK busy \in SUBSET SettingsChat : busy = replying \ {x}
    BY <1>1 DEF SetsTyped
  <2>4. replying' = busy /\ Sets!Apply(copy[Mine], FALSE, needs, busy)
    BY <1>4, <2>1, <2>3 DEF Sets!ReplyEnds
  <2>5. copy[Mine] \in Sets!Settings
    BY <1>1, PanelsBounds DEF SetsTyped
  <2>6. /\ reloads' \subseteq exists /\ reloads \subseteq reloads' /\ unreplayed' = unreplayed
        /\ retries' \in [SettingsChat -> 0..1] /\ reloadPending' \in BOOLEAN
        /\ \A y \in exists \ reloads' : retries'[y] = retries[y]
    BY <1>1, <2>2, <2>4, <2>5, ApplyProperties
  <2>7. SetsTyped'
    BY <1>1, <1>2, <2>3, <2>4, <2>6 DEF SetsTyped
  <2>8. Sets!RetryOverrideHolds' /\ Sets!ToolsStayGated'
    BY <1>1, <1>2, <2>6 DEF Sets!RetryOverrideHolds, Sets!ToolsStayGated
  <2> QED BY <1>1, <1>2, <2>6, <2>7, <2>8 DEF SetsIInv
<1> QED BY <1>3, <1>4

(* A reload ends and replays the overrides and the gates, or fails and does *)
(* not.                                                                     *)
LEMMA KeepReload ==
  ASSUME SetsIInv, NEW x \in SettingsChat, Sets!ReloadEnds(x) \/ Sets!ReloadFails(x)
  PROVE  SetsIInv'
<1> DEFINE s == copy[Mine]
<1>1. SetsTyped /\ Sets!RetryOverrideHolds /\ Sets!ToolsStayGated /\ reloadPending \in BOOLEAN
      /\ sets \in 0..MaxSets
  BY DEF SetsIInv
<1>2. s \in Sets!Settings
  BY <1>1, PanelsBounds DEF SetsTyped
<1>3. s.retry \in 0..1 /\ s.skills \in 0..1 /\ Sets!Gated(s) \subseteq Sets!Tool
  BY <1>2, SettingsFields, GatedTyped
<1>4. /\ Sets!Overrides(s) \in [SettingsChat -> 0..1]
      /\ \A y \in exists : Sets!Overrides(s)[y] = s.retry
  BY <1>1, <1>3, OverridesProperties
<1>5. UNCHANGED <<settingsStore, presets, copy, presetCopy, chosen, showing, exists,
                  replying, reloadPending, sets>>
  BY DEF Sets!ReloadEnds, Sets!ReloadFails
<1>6. x \in reloads /\ x \in exists /\ showing \in exists
  BY <1>1 DEF Sets!ReloadEnds, Sets!ReloadFails, SetsTyped
<1> HIDE DEF s
<1>7. CASE Sets!ReloadEnds(x)
  <2>1. /\ reloads' = reloads \ {x} /\ unreplayed' = {}
        /\ loadedWith' = [loadedWith EXCEPT ![x] = s.skills]
        /\ retries' = Sets!Overrides(s)
        /\ tools' = [[tools EXCEPT ![x] = Sets!Tool] EXCEPT ![showing] = Sets!Gated(s)]
        /\ stale' = IF showing = x THEN stale \ {x} ELSE (stale \ {showing}) \cup {x}
    BY <1>7 DEF Sets!ReloadEnds, Sets!AfterReload, Sets!GatesAfterReload, s
  <2>2. /\ tools' \in [SettingsChat -> SUBSET Sets!Tool]
        /\ tools'[showing] = Sets!Gated(s)
        /\ \A y \in exists \ {x, showing} : tools'[y] = tools[y]
    BY <1>1, <1>3, <1>6, <2>1 DEF SetsTyped
  <2>3. SetsTyped'
    BY <1>1, <1>3, <1>4, <1>5, <1>6, <2>1, <2>2 DEF SetsTyped
  <2>4. Sets!RetryOverrideHolds'
    BY <1>4, <1>5, <2>1 DEF Sets!RetryOverrideHolds, s
  <2>5. Sets!ToolsStayGated'
    BY <1>1, <1>5, <2>1, <2>2 DEF Sets!ToolsStayGated, s
  <2> QED BY <1>1, <1>5, <2>3, <2>4, <2>5 DEF SetsIInv
<1>8. CASE Sets!ReloadFails(x)
  <2>1. /\ reloads' = reloads \ {x} /\ unreplayed' = unreplayed \cup {x}
        /\ stale' = stale \cup {x} /\ UNCHANGED <<loadedWith, tools, retries>>
    BY <1>8 DEF Sets!ReloadFails
  <2>2. SetsTyped'
    BY <1>1, <1>5, <1>6, <2>1 DEF SetsTyped
  <2>3. Sets!RetryOverrideHolds' /\ Sets!ToolsStayGated'
    BY <1>1, <1>5, <2>1 DEF Sets!RetryOverrideHolds, Sets!ToolsStayGated
  <2> QED BY <1>1, <1>5, <2>2, <2>3 DEF SetsIInv
<1> QED BY <1>7, <1>8

(* The process restarts: all tabs read the store, one chat is open.         *)
LEMMA KeepSetsRestart ==
  ASSUME SetsIInv, Sets!SettingsRestart
  PROVE  SetsIInv'
<1>1. SetsTyped /\ sets \in 0..MaxSets
  BY DEF SetsIInv
<1>2. PICK ask : ask = Sets!AskIn(settingsStore.off)
  OBVIOUS
<1>3. ask \in BOOLEAN
  BY <1>2, Zenon DEF Sets!AskIn
<1>4. settingsStore \in Sets!Settings
  BY <1>1 DEF SetsTyped
<1>5. PICK n : n = [settingsStore EXCEPT !.ask = ask]
  OBVIOUS
<1>6. n \in Sets!Settings /\ n.retry = settingsStore.retry
  BY <1>3, <1>4, <1>5 DEF Sets!Settings
<1>7. /\ copy' = [t \in SettingsTab |-> n]
      /\ presetCopy' = [t \in SettingsTab |-> presets]
      /\ exists' = {showing} /\ replying' = {} /\ reloads' = {} /\ reloadPending' = FALSE
      /\ unreplayed' = {}
      /\ loadedWith' = [loadedWith EXCEPT ![showing] = settingsStore.skills]
      /\ tools' = [tools EXCEPT ![showing] = Sets!Gated(copy'[Mine])]
      /\ retries' = [retries EXCEPT ![showing] = settingsStore.retry]
      /\ stale' = {}
      /\ UNCHANGED <<settingsStore, presets, chosen, showing, sets>>
  BY <1>2, <1>5 DEF Sets!SettingsRestart
<1>8. copy'[Mine] = n
  BY <1>7, PanelsBounds
<1>9. /\ settingsStore.skills \in 0..1 /\ settingsStore.retry \in 0..1
      /\ Sets!Gated(n) \subseteq Sets!Tool
  BY <1>4, SettingsFields, GatedTyped
<1>10. SetsTyped'
  BY <1>1, <1>6, <1>7, <1>8, <1>9 DEF SetsTyped
<1>11. Sets!RetryOverrideHolds' /\ Sets!ToolsStayGated'
  BY <1>1, <1>6, <1>7, <1>8 DEF SetsTyped, Sets!RetryOverrideHolds, Sets!ToolsStayGated
<1>12. (reloadPending \in BOOLEAN)'
  BY <1>7
<1> QED BY <1>1, <1>7, <1>10, <1>11, <1>12 DEF SetsIInv

(* Every step of the settings keeps the invariant.                          *)
LEMMA SetsStep == SetsIInv /\ [Sets!SettingsNext]_settingsVars => SetsIInv'
<1> SUFFICES ASSUME SetsIInv, [Sets!SettingsNext]_settingsVars PROVE SetsIInv'
  OBVIOUS
<1>1. CASE UNCHANGED settingsVars
  BY <1>1 DEF settingsVars, SetsIInv, SetsTyped, Sets!RetryOverrideHolds,
              Sets!ToolsStayGated
<1>2. CASE Sets!SettingsNext
  BY <1>2, KeepChange, KeepPresets, KeepShown, KeepReply, KeepReload, KeepSetsRestart
     DEF Sets!SettingsNext
<1> QED BY <1>1, <1>2

(* SettingsStore: every open chat works with the retry count and without    *)
(* the tools that its panel shows off, through reloads that overlap, unless *)
(* a reload failed or the last change did not reach it.                     *)
THEOREM TheSettingsSurvive == Spec => []SettingsSurvive
<1>1. Init => SetsIInv
  BY SetsInitially DEF Init
<1>2. [Next]_vars => [Sets!SettingsNext]_settingsVars
  BY DEF Next, Rest, vars, settingsVars
<1>3. SetsIInv /\ [Next]_vars => SetsIInv'
  BY <1>2, SetsStep
<1>4. SetsIInv => SettingsSurvive
  <2> SUFFICES ASSUME SetsIInv PROVE SettingsSurvive
    OBVIOUS
  <2>1. SetsTyped /\ sets \in 0..MaxSets /\ Sets!RetryOverrideHolds /\ Sets!ToolsStayGated
    BY DEF SetsIInv
  <2>2. reloadPending \in BOOLEAN
    BY DEF SetsIInv
  <2>3. Sets!SettingsTypeOK
    BY <2>1, <2>2 DEF SetsTyped, Sets!SettingsTypeOK
  <2> QED BY <2>1, <2>3 DEF SettingsSurvive
<1> QED BY <1>1, <1>3, <1>4, PTL DEF Spec

-----------------------------------------------------------------------------
(* Terminals                                                                *)

(* Types of what is kept and on its way.                                    *)
TermEntry == [pty : 0 .. MaxSpawns, command : BOOLEAN, agentBash : BOOLEAN]
TermKept == [id : Terminal, entry : TermEntry]
TermRequest == [id : Terminal, run : BOOLEAN, by : {"user", "mount"}]

(* The live terminals of t have each a PTY of their own, of the n that were *)
(* spawned; those of the bash tool are named so and run no command of the   *)
(* user: a restart never makes one of them the user's.                      *)
LiveIn(t) == {id \in Terminal : t[id] # Term!None}
EntriesOk(t, n) ==
  /\ t \in [Terminal -> TermEntry]
  /\ \A id \in LiveIn(t) : /\ t[id].pty \in 1 .. n
                           /\ t[id].agentBash => id \in BashTerminal
                           /\ t[id].command => id \notin BashTerminal
  /\ \A a, b \in LiveIn(t) : t[a].pty = t[b].pty => a = b

(* A kept terminal is not live, and is kept once.                           *)
HistoryOk(h, t, n) ==
  /\ h \in Seq(TermKept) /\ Len(h) <= MaxHistory
  /\ \A i, j \in 1 .. Len(h) : h[i].id = h[j].id => i = j
  /\ \A i \in 1 .. Len(h) : /\ t[h[i].id] = Term!None
                            /\ h[i].entry.pty \in 1 .. n
                            /\ h[i].entry.command => h[i].id \notin BashTerminal

(* What runs or has ended belongs to the terminals: EveryProcessShown.      *)
ProcessesOk(t, r, e, n) ==
  /\ r \subseteq 1 .. n /\ e \subseteq 1 .. n /\ r \cap e = {}
  /\ \A p \in r : \E id \in LiveIn(t) : t[id].pty = p
  /\ \A id \in LiveIn(t) : t[id].pty \in r \cup e

UserLive(t) == {id \in LiveIn(t) : ~t[id].agentBash}
Capped(t) == Cardinality(UserLive(t)) <= MaxLive

TermCore ==
  /\ spawned \in 0 .. MaxSpawns
  /\ EntriesOk(terms, spawned) /\ HistoryOk(terminalsHistory, terms, spawned)
  /\ ProcessesOk(terms, terminalsRunning, exits, spawned) /\ Capped(terms)

(* A timer belongs to an epoch of silence that is not reported yet.         *)
TimersOk ==
  /\ touched \subseteq 1 .. spawned /\ timers \subseteq 1 .. spawned
  /\ reminder \in [Term!Pty -> {"none", "due", "sent"}]
  /\ \A p \in timers : reminder[p] = "due"

(* No request asks for a command in a terminal of the bash tool.            *)
RequestsOk ==
  /\ mounted \subseteq Terminal
  /\ terminalsRequests \in Seq(TermRequest) /\ Len(terminalsRequests) <= MaxRequests
  /\ \A i \in 1 .. Len(terminalsRequests) :
       terminalsRequests[i].run => terminalsRequests[i].id \notin BashTerminal

TermIInv == viewed \in BOOLEAN /\ TermCore /\ TimersOk /\ RequestsOk

-----------------------------------------------------------------------------
(* The names of the module, for the state as it is.                         *)
LEMMA TermNames ==
  ASSUME terminalsHistory \in Seq(TermKept)
  PROVE  /\ Term!Live = LiveIn(terms)
         /\ Term!Kept = {terminalsHistory[i].id : i \in 1 .. Len(terminalsHistory)}
<1>1. Term!Live = LiveIn(terms)
  BY DEF Term!Live, LiveIn
<1>2. DOMAIN terminalsHistory = 1 .. Len(terminalsHistory)
  BY LenProperties
<1>3. Term!ToSet(terminalsHistory)
        = {terminalsHistory[i] : i \in 1 .. Len(terminalsHistory)}
  BY <1>2 DEF Term!ToSet
<1>4. Term!Kept = {terminalsHistory[i].id : i \in 1 .. Len(terminalsHistory)}
  BY <1>3 DEF Term!Kept
<1> QED BY <1>1, <1>4

(* Forgetting a terminal takes the one entry of its name.                   *)
LEMMA ForgetProperties ==
  ASSUME NEW t, NEW n, HistoryOk(terminalsHistory, t, n), NEW id \in Terminal
  PROVE  /\ HistoryOk(Term!Forget(id), t, n)
         /\ \A i \in 1 .. Len(Term!Forget(id)) : Term!Forget(id)[i].id # id
<1> DEFINE h == terminalsHistory
           f == Term!Forget(id)
<1>1. /\ h \in Seq(TermKept) /\ Len(h) \in Nat
      /\ \A i, j \in 1 .. Len(h) : h[i].id = h[j].id => i = j
  BY LenProperties DEF HistoryOk
<1>2. Term!Kept = {h[i].id : i \in 1 .. Len(h)} /\ DOMAIN h = 1 .. Len(h)
  BY <1>1, TermNames, LenProperties
<1>3. CASE id \notin Term!Kept
  <2>1. f = h
    BY <1>3 DEF Term!Forget
  <2>2. \A i \in 1 .. Len(h) : h[i].id # id
    BY <1>2, <1>3
  <2> QED BY <2>1, <2>2
<1>4. CASE id \in Term!Kept
  <2>1. PICK k : k = CHOOSE i \in DOMAIN h : h[i].id = id
    OBVIOUS
  <2>2. k \in 1 .. Len(h) /\ h[k].id = id
    BY <1>2, <1>4, <2>1
  <2>3. f = RemoveAt(h, k)
    BY <1>4, <2>1 DEF Term!Forget, Term!RemoveAt, RemoveAt
  <2> HIDE DEF f
  <2>4. /\ f \in Seq(TermKept) /\ Len(f) = Len(h) - 1
        /\ \A j \in 1 .. (Len(h) - 1) : f[j] = IF j < k THEN h[j] ELSE h[j + 1]
    <3>1. /\ RemoveAt(h, k) \in Seq(TermKept) /\ Len(RemoveAt(h, k)) = Len(h) - 1
          /\ \A j \in 1 .. (Len(h) - 1) :
               RemoveAt(h, k)[j] = IF j < k THEN h[j] ELSE h[j + 1]
      <4> HIDE DEF h
      <4> QED BY <1>1, <2>2, RemoveAtProperties
    <3> QED BY <2>3, <3>1
  <2>5. ASSUME NEW i \in 1 .. Len(f)
        PROVE  /\ f[i].id # id
               /\ t[f[i].id] = Term!None /\ f[i].entry.pty \in 1 .. n
               /\ f[i].entry.command => f[i].id \notin BashTerminal
    <3>1. PICK m \in 1 .. Len(h) : m # k /\ f[i] = h[m]
      <4>1. CASE i < k
        BY <1>1, <2>2, <2>4, <4>1
      <4>2. CASE ~(i < k)
        <5>1. i + 1 \in 1 .. Len(h) /\ i + 1 # k /\ f[i] = h[i + 1]
          BY <1>1, <2>2, <2>4, <4>2
        <5> QED BY <5>1
      <4> QED BY <4>1, <4>2
    <3> QED BY <1>1, <2>2, <3>1 DEF HistoryOk
  <2>6. ASSUME NEW i \in 1 .. Len(f), NEW j \in 1 .. Len(f), f[i].id = f[j].id
        PROVE  i = j
    <3> DEFINE Was(x) == IF x < k THEN x ELSE x + 1
    <3>1. /\ Was(i) \in 1 .. Len(h) /\ f[i] = h[Was(i)]
          /\ Was(j) \in 1 .. Len(h) /\ f[j] = h[Was(j)]
      BY <1>1, <2>2, <2>4
    <3>2. Was(i) = Was(j)
      BY <1>1, <2>6, <3>1
    <3> QED BY <2>2, <3>2
  <2>7. Len(f) <= MaxHistory
    BY <1>1, <2>4, PanelsBounds DEF HistoryOk
  <2>8. HistoryOk(f, t, n)
    BY <2>4, <2>5, <2>6, <2>7 DEF HistoryOk
  <2> QED BY <2>5, <2>8 DEF f
<1> QED BY <1>3, <1>4

(* The operators Terminals has from the library are the library's.          *)
LEMMA TermCardinality == \A S : Term!Cardinality(S) = Cardinality(S)
BY Zenon DEF Term!Cardinality, Cardinality

(* The user's live terminals are finitely many.                             *)
LEMMA UserLiveFinite ==
  \A t : /\ IsFiniteSet(UserLive(t)) /\ Cardinality(UserLive(t)) \in Nat
         /\ UserLive(t) \subseteq Terminal
<1> TAKE t
<1>1. UserLive(t) \subseteq Terminal
  BY DEF UserLive, LiveIn
<1> QED BY <1>1, PanelsBounds, FS_Subset, FS_CardinalityType

(* A new PTY: the terminal of that name gets it, and its old process goes.  *)
LEMMA SpawnKeeps ==
  ASSUME TermCore, NEW id \in Terminal, NEW command \in BOOLEAN, NEW agentBash \in BOOLEAN,
         NEW why, spawned < MaxSpawns,
         agentBash => id \in BashTerminal, command => id \notin BashTerminal,
         Term!EnsureSpawnAllowed(id, agentBash),
         id \in Term!Live => ~terms[id].agentBash,
         Term!Spawn(id, command, agentBash, why)
  PROVE  TermCore' /\ spawned' = spawned + 1 /\ terms'[id].pty = spawned + 1
<1>1. /\ spawned \in 0 .. MaxSpawns /\ MaxSpawns \in Nat /\ MaxLive \in Nat
      /\ EntriesOk(terms, spawned) /\ HistoryOk(terminalsHistory, terms, spawned)
      /\ ProcessesOk(terms, terminalsRunning, exits, spawned) /\ Capped(terms)
  BY PanelsBounds DEF TermCore
<1>2. Term!Live = LiveIn(terms)
  BY <1>1, TermNames DEF HistoryOk
<1>3. PICK n \in 1 .. MaxSpawns : n = spawned + 1
  BY <1>1
<1>4. PICK e \in TermEntry : e = [pty |-> n, command |-> command, agentBash |-> agentBash]
  <2>1. n \in 0 .. MaxSpawns
    BY <1>3
  <2> QED BY <2>1 DEF TermEntry
<1>5. /\ e.pty = n /\ e.command = command /\ e.agentBash = agentBash
      /\ e # Term!None /\ Term!None.pty = 0
  BY <1>3, <1>4 DEF Term!None
<1>6. PICK t : t = [terms EXCEPT ![id] = e]
  OBVIOUS
<1>7. /\ t \in [Terminal -> TermEntry] /\ t[id] = e
      /\ \A a \in Terminal \ {id} : t[a] = terms[a]
      /\ LiveIn(t) = LiveIn(terms) \cup {id}
  BY <1>1, <1>5, <1>6 DEF EntriesOk, LiveIn
<1>8. PICK f : f = Term!Forget(id)
  OBVIOUS
<1>9. PICK old : old = terms[id].pty
  OBVIOUS
<1>10. PICK r : r = (terminalsRunning \ {old}) \cup {n}
  OBVIOUS
<1>11. PICK x : x = IF old \in terminalsRunning THEN exits \cup {old} ELSE exits
  OBVIOUS
<1>12. /\ spawned' = n /\ terms' = t /\ terminalsHistory' = f
       /\ terminalsRunning' = r /\ exits' = x
  BY <1>3, <1>4, <1>6, <1>8, <1>9, <1>10, <1>11 DEF Term!Spawn
<1>13. EntriesOk(t, n)
  <2>1. ASSUME NEW a \in LiveIn(t)
        PROVE  /\ t[a].pty \in 1 .. n /\ (a # id => t[a].pty < n)
               /\ t[a].agentBash => a \in BashTerminal
               /\ t[a].command => a \notin BashTerminal
    <3>1. CASE a = id
      BY <1>3, <1>5, <1>7, <3>1
    <3>2. CASE a # id
      BY <1>1, <1>3, <1>7, <3>2 DEF EntriesOk, LiveIn
    <3> QED BY <3>1, <3>2
  <2>2. ASSUME NEW a \in LiveIn(t), NEW b \in LiveIn(t), t[a].pty = t[b].pty
        PROVE  a = b
    <3>1. CASE a # id /\ b # id
      <4>1. a \in LiveIn(terms) /\ b \in LiveIn(terms)
        BY <1>7, <3>1
      <4>2. terms[a].pty = terms[b].pty
        BY <1>7, <2>2, <3>1 DEF LiveIn
      <4> QED BY <1>1, <4>1, <4>2 DEF EntriesOk
    <3>2. ASSUME NEW c \in LiveIn(t), c # id PROVE t[c].pty # t[id].pty
      <4>1. t[c].pty < n /\ t[id].pty = n /\ t[c].pty \in 1 .. n
        BY <1>5, <1>7, <2>1, <3>2
      <4> QED BY <4>1
    <3>3. id \in LiveIn(t)
      BY <1>7
    <3> QED BY <2>2, <3>1, <3>2, <3>3
  <2> QED BY <1>7, <2>1, <2>2 DEF EntriesOk
<1>14. HistoryOk(f, t, n)
  <2>1. HistoryOk(f, terms, spawned) /\ \A i \in 1 .. Len(f) : f[i].id # id
    BY <1>1, <1>8, ForgetProperties
  <2>2. \A i \in 1 .. Len(f) : f[i].id \in Terminal /\ f[i].entry.pty \in 1 .. n
    <3>1. /\ f \in Seq(TermKept)
          /\ \A i \in 1 .. Len(f) : f[i].entry.pty \in 1 .. spawned
      BY <2>1 DEF HistoryOk
    <3>2. \A i \in 1 .. Len(f) : f[i] \in TermKept
      BY <3>1, ElementOfSeq
    <3>3. \A i \in 1 .. Len(f) : f[i].id \in Terminal
      BY <3>2 DEF TermKept
    <3>4. 1 .. spawned \subseteq 1 .. n
      BY <1>1, <1>3
    <3> QED BY <3>1, <3>3, <3>4
  <2> QED BY <1>7, <2>1, <2>2 DEF HistoryOk
<1>15. ProcessesOk(t, r, x, n)
  <2>1. /\ terminalsRunning \subseteq 1 .. spawned /\ exits \subseteq 1 .. spawned
        /\ terminalsRunning \cap exits = {}
        /\ \A p \in terminalsRunning : \E a \in LiveIn(terms) : terms[a].pty = p
        /\ \A a \in LiveIn(terms) : terms[a].pty \in terminalsRunning \cup exits
    BY <1>1 DEF ProcessesOk
  <2>2. /\ r \subseteq 1 .. n /\ x \subseteq 1 .. n /\ r \cap x = {}
    <3>1. 1 .. spawned \subseteq 1 .. n /\ n \in 1 .. n /\ n \notin 1 .. spawned
      BY <1>1, <1>3
    <3>2. r \subseteq 1 .. n
      BY <1>10, <2>1, <3>1
    <3>3. x \subseteq 1 .. n
      BY <1>11, <2>1, <3>1
    <3>4. r \cap x = {}
      BY <1>10, <1>11, <2>1, <3>1
    <3> QED BY <3>2, <3>3, <3>4
  <2>3. ASSUME NEW p \in r PROVE \E a \in LiveIn(t) : t[a].pty = p
    <3>1. CASE p = n
      BY <1>5, <1>7, <3>1
    <3>2. CASE p # n
      <4>1. PICK a \in LiveIn(terms) : terms[a].pty = p
        BY <1>10, <2>1, <2>3, <3>2
      <4>2. a # id
        BY <1>9, <1>10, <2>3, <3>2, <4>1
      <4> QED BY <1>7, <4>1, <4>2 DEF LiveIn
    <3> QED BY <3>1, <3>2
  <2>4. ASSUME NEW a \in LiveIn(t) PROVE t[a].pty \in r \cup x
    <3>1. CASE a = id
      BY <1>5, <1>7, <1>10, <3>1
    <3>2. CASE a # id
      <4>1. a \in LiveIn(terms) /\ t[a] = terms[a]
        BY <1>7, <3>2 DEF LiveIn
      <4> QED BY <1>10, <1>11, <2>1, <4>1
    <3> QED BY <3>1, <3>2
  <2> QED BY <2>2, <2>3, <2>4 DEF ProcessesOk
<1>16. Capped(t)
  <2>1. /\ IsFiniteSet(UserLive(terms)) /\ Cardinality(UserLive(terms)) \in Nat
        /\ IsFiniteSet(UserLive(t)) /\ Cardinality(UserLive(t)) \in Nat
    BY UserLiveFinite
  <2>2. CASE agentBash \/ id \in LiveIn(terms)
    <3>1. UserLive(t) \subseteq UserLive(terms)
      BY <1>2, <1>5, <1>7, <2>2 DEF UserLive, LiveIn
    <3>2. Cardinality(UserLive(t)) <= Cardinality(UserLive(terms))
      BY <2>1, <3>1, FS_Subset
    <3> QED BY <1>1, <2>1, <3>2 DEF Capped
  <2>3. CASE ~agentBash /\ id \notin LiveIn(terms)
    <3>1. Cardinality(UserLive(terms)) < MaxLive
      <4>1. {i \in Term!Live : ~terms[i].agentBash} = UserLive(terms)
        BY <1>2 DEF UserLive
      <4>2. id \notin Term!Live
        BY <1>2, <2>3
      <4>3. Cardinality({i \in Term!Live : ~terms[i].agentBash}) < MaxLive
        BY <2>3, <4>2, TermCardinality DEF Term!EnsureSpawnAllowed
      <4> QED BY <4>1, <4>3
    <3>2. UserLive(t) \subseteq UserLive(terms) \cup {id}
      BY <1>7 DEF UserLive, LiveIn
    <3>3. /\ IsFiniteSet(UserLive(terms) \cup {id})
          /\ Cardinality(UserLive(terms) \cup {id}) <= Cardinality(UserLive(terms)) + 1
      <4>1. IsFiniteSet(UserLive(terms) \cup {id})
            /\ Cardinality(UserLive(terms) \cup {id})
                 = IF id \in UserLive(terms) THEN Cardinality(UserLive(terms))
                   ELSE Cardinality(UserLive(terms)) + 1
        BY <2>1, FS_AddElement
      <4> QED BY <2>1, <4>1
    <3>4. Cardinality(UserLive(t)) <= Cardinality(UserLive(terms) \cup {id})
      BY <3>2, <3>3, FS_Subset
    <3>5. Cardinality(UserLive(terms) \cup {id}) \in Nat
      BY <3>3, FS_CardinalityType
    <3> QED BY <1>1, <2>1, <3>1, <3>3, <3>4, <3>5 DEF Capped
  <2> QED BY <2>2, <2>3
<1>17. spawned' \in 0 .. MaxSpawns
  BY <1>3, <1>12
<1>18. TermCore'
  BY <1>12, <1>13, <1>14, <1>15, <1>16, <1>17 DEF TermCore
<1> QED BY <1>3, <1>5, <1>7, <1>12, <1>18

(* terminal_create and run_command, for whoever asks.                       *)
LEMMA CreateKeeps ==
  ASSUME TermCore, NEW id \in Terminal, NEW agentBash \in BOOLEAN, NEW why,
         agentBash => id \in BashTerminal, Term!Create(id, agentBash, why)
  PROVE  /\ TermCore' /\ spawned <= spawned'
         /\ \/ UNCHANGED <<terms, spawned>>
            \/ terms'[id].pty = spawned'
<1>1. /\ spawned \in 0 .. MaxSpawns /\ HistoryOk(terminalsHistory, terms, spawned)
      /\ MaxSpawns \in Nat
  BY PanelsBounds DEF TermCore
<1>2. Term!Live = LiveIn(terms)
  BY <1>1, TermNames DEF HistoryOk
<1>3. CASE UNCHANGED <<terms, terminalsHistory, spawned, terminalsRunning, exits, lost>>
  BY <1>1, <1>3 DEF TermCore
<1>4. CASE /\ id \notin Term!Live /\ Term!EnsureSpawnAllowed(id, agentBash)
           /\ spawned # MaxSpawns /\ Term!Spawn(id, FALSE, agentBash, why)
  <2>1. spawned < MaxSpawns
    BY <1>1, <1>4
  <2>2. TermCore' /\ spawned' = spawned + 1 /\ terms'[id].pty = spawned + 1
    BY <1>4, <2>1, SpawnKeeps
  <2> QED BY <1>1, <2>2
<1> QED BY <1>3, <1>4 DEF Term!Create

(* A restart gives the terminal a new process.                              *)
LEMMA RunCommandKeeps ==
  ASSUME TermCore, NEW id \in Terminal \ BashTerminal, NEW why, Term!RunCommand(id, why)
  PROVE  TermCore' /\ spawned <= spawned'
<1>1. /\ spawned \in 0 .. MaxSpawns /\ HistoryOk(terminalsHistory, terms, spawned)
      /\ MaxSpawns \in Nat /\ EntriesOk(terms, spawned)
  BY PanelsBounds DEF TermCore
<1>2. Term!Live = LiveIn(terms)
  BY <1>1, TermNames DEF HistoryOk
<1>3. CASE UNCHANGED <<terms, terminalsHistory, spawned, terminalsRunning, exits, lost>>
  BY <1>1, <1>3 DEF TermCore
<1>4. CASE /\ Term!EnsureSpawnAllowed(id, FALSE) /\ spawned < MaxSpawns
           /\ Term!Spawn(id, TRUE, FALSE, why)
  <2>1. id \in Term!Live => ~terms[id].agentBash
    BY <1>1, <1>2 DEF EntriesOk
  <2>2. TermCore' /\ spawned' = spawned + 1
    BY <1>4, <2>1, SpawnKeeps
  <2> QED BY <1>1, <2>2
<1> QED BY <1>3, <1>4 DEF Term!RunCommand

(* Terminals that end: fewer are live, and what was promised of them holds  *)
(* of the others.                                                           *)
LEMMA FewerLive ==
  ASSUME NEW t, NEW u, NEW n, EntriesOk(t, n), u \in [Terminal -> TermEntry],
         \A a \in LiveIn(u) : a \in LiveIn(t) /\ u[a] = t[a], Capped(t)
  PROVE  EntriesOk(u, n) /\ Capped(u)
<1>1. EntriesOk(u, n)
  BY DEF EntriesOk
<1>2. UserLive(u) \subseteq UserLive(t)
  BY DEF UserLive
<1>3. /\ IsFiniteSet(UserLive(t)) /\ Cardinality(UserLive(t)) \in Nat
      /\ Cardinality(UserLive(u)) \in Nat
  BY UserLiveFinite
<1>4. Cardinality(UserLive(u)) <= Cardinality(UserLive(t))
  BY <1>2, <1>3, FS_Subset
<1> QED BY <1>1, <1>3, <1>4, PanelsBounds DEF Capped

(* ProcessEnds: an exit event is on its way.                                *)
LEMMA KeepProcessEnds ==
  ASSUME TermIInv, NEW p \in Term!Pty, Term!ProcessEnds(p)
  PROVE  TermIInv'
<1>1. TermCore
  BY DEF TermIInv
<1>2. /\ p \in terminalsRunning /\ terminalsRunning' = terminalsRunning \ {p}
      /\ exits' = exits \cup {p}
      /\ UNCHANGED <<terms, terminalsHistory, spawned, touched, timers, reminder, viewed,
                     mounted, terminalsRequests, lost>>
  BY DEF Term!ProcessEnds
<1>3. ProcessesOk(terms, terminalsRunning \ {p}, exits \cup {p}, spawned)
  BY <1>1, <1>2 DEF TermCore, ProcessesOk
<1>4. TermCore'
  BY <1>1, <1>2, <1>3 DEF TermCore
<1>5. TimersOk' /\ RequestsOk' /\ viewed' \in BOOLEAN
  BY <1>2 DEF TermIInv, TimersOk, RequestsOk
<1> QED BY <1>4, <1>5 DEF TermIInv

(* What is not live and not kept is unmounted.                              *)
LEMMA UnmountedKeeps ==
  ASSUME RequestsOk, Term!StillMounted \/ mounted' = {}, terminalsRequests' = terminalsRequests
  PROVE  RequestsOk'
BY DEF Term!StillMounted, RequestsOk

(* OnExit: the entry of the PTY moves to the history, whose oldest one goes *)
(* when it is full.                                                         *)
LEMMA EvictedProperties ==
  ASSUME NEW t, NEW n, HistoryOk(terminalsHistory, t, n), NEW id \in Terminal,
         \A i \in 1 .. Len(terminalsHistory) : terminalsHistory[i].id # id,
         NEW entry \in TermEntry, entry.pty \in 1 .. n,
         entry.command => id \notin BashTerminal,
         NEW u, \A a \in Terminal : a # id => u[a] = t[a], u[id] = Term!None,
         NEW h, h = Append(SubSeq(terminalsHistory, Len(Term!Evicted) + 1,
                                  Len(terminalsHistory)), [id |-> id, entry |-> entry])
  PROVE  HistoryOk(h, u, n)
<1> DEFINE g == terminalsHistory
           k == Len(Term!Evicted)
           m == SubSeq(g, k + 1, Len(g))
<1>1. g \in Seq(TermKept) /\ Len(g) \in Nat /\ Len(g) <= MaxHistory /\ MaxHistory \in Nat \ {0}
  BY LenProperties, PanelsBounds DEF HistoryOk
<1>2. k = IF Len(g) < MaxHistory THEN 0 ELSE Len(g) + 1 - MaxHistory
  <2>1. Len(SubSeq(g, 1, Len(g) + 1 - MaxHistory))
          = IF 1 <= Len(g) + 1 - MaxHistory THEN Len(g) + 1 - MaxHistory ELSE 0
    BY <1>1, SubSeqProperties
  <2> QED BY <1>1, <2>1 DEF Term!Evicted
<1> HIDE DEF k
<1>3. k \in 0 .. 1 /\ Len(g) - k < MaxHistory /\ k <= Len(g)
  BY <1>1, <1>2
<1>4. /\ m \in Seq(TermKept) /\ Len(m) = Len(g) - k
      /\ \A i \in 1 .. Len(m) : m[i] = g[k + i]
  BY <1>1, <1>3, SubSeqProperties
<1> HIDE DEF m
<1>5. PICK last : last = [id |-> id, entry |-> entry]
  OBVIOUS
<1>6. last \in TermKept /\ last.id = id /\ last.entry = entry
  BY <1>5 DEF TermKept
<1>7. /\ h \in Seq(TermKept) /\ Len(h) = Len(m) + 1 /\ h[Len(m) + 1] = last
      /\ \A i \in 1 .. Len(m) : h[i] = m[i]
  <2>1. h = Append(m, last)
    BY <1>5 DEF m, k
  <2>2. /\ Append(m, last) \in Seq(TermKept) /\ Len(Append(m, last)) = Len(m) + 1
        /\ \A i \in 1 .. Len(m) : Append(m, last)[i] = m[i]
        /\ Append(m, last)[Len(m) + 1] = last
    BY <1>4, <1>6, AppendProperties
  <2> QED BY <2>1, <2>2
<1>8. \A i \in 1 .. Len(m) : k + i \in 1 .. Len(g) /\ h[i] = g[k + i]
  BY <1>1, <1>3, <1>4, <1>7
<1>9. ASSUME NEW i \in 1 .. Len(h), NEW j \in 1 .. Len(h), h[i].id = h[j].id
      PROVE  i = j
  <2>1. CASE i \in 1 .. Len(m) /\ j \in 1 .. Len(m)
    <3>1. PICK a \in 1 .. Len(g) : a = k + i /\ h[i] = g[a]
      BY <1>8, <2>1
    <3>2. PICK b \in 1 .. Len(g) : b = k + j /\ h[j] = g[b]
      BY <1>8, <2>1
    <3>3. a = b
      BY <1>9, <3>1, <3>2 DEF HistoryOk
    <3> QED BY <1>3, <2>1, <3>1, <3>2, <3>3
  <2>2. i \in 1 .. Len(m) => h[i].id # id
    BY <1>8
  <2>3. j \in 1 .. Len(m) => h[j].id # id
    BY <1>8
  <2>4. Len(m) \in Nat /\ h[Len(m) + 1].id = id
    BY <1>4, <1>6, <1>7, LenProperties
  <2>5. /\ i \in 1 .. Len(m) \/ i = Len(m) + 1
        /\ j \in 1 .. Len(m) \/ j = Len(m) + 1
    BY <1>7, <2>4
  <2> QED BY <1>9, <2>1, <2>2, <2>3, <2>4, <2>5
<1>10. ASSUME NEW i \in 1 .. Len(h)
       PROVE  /\ u[h[i].id] = Term!None
              /\ h[i].entry.pty \in 1 .. n
              /\ h[i].entry.command => h[i].id \notin BashTerminal
  <2>1. CASE i \in 1 .. Len(m)
    <3>1. PICK a \in 1 .. Len(g) : h[i] = g[a]
      BY <1>8, <2>1
    <3>2. g[a] \in TermKept
      BY <1>1, <3>1, ElementOfSeq
    <3>3. g[a].id \in Terminal /\ g[a].id # id
      BY <3>1, <3>2 DEF TermKept
    <3> QED BY <3>1, <3>3 DEF HistoryOk
  <2>2. CASE i \notin 1 .. Len(m)
    <3>1. Len(m) \in Nat
      BY <1>4, LenProperties
    <3>2. i = Len(m) + 1
      BY <1>7, <2>2, <3>1
    <3> QED BY <1>6, <1>7, <3>2
  <2> QED BY <2>1, <2>2
<1>11. Len(h) <= MaxHistory
  BY <1>1, <1>3, <1>4, <1>7
<1> QED BY <1>7, <1>9, <1>10, <1>11 DEF HistoryOk

(* A terminal that exits is remembered, unless its PTY was replaced.        *)
LEMMA KeepOnExit ==
  ASSUME TermIInv, NEW p \in Term!Pty, Term!OnExit(p)
  PROVE  TermIInv'
<1>1. /\ TermCore /\ TimersOk /\ RequestsOk /\ viewed \in BOOLEAN
      /\ spawned \in 0 .. MaxSpawns
      /\ EntriesOk(terms, spawned) /\ HistoryOk(terminalsHistory, terms, spawned)
      /\ ProcessesOk(terms, terminalsRunning, exits, spawned) /\ Capped(terms)
  BY DEF TermIInv, TermCore
<1>2. Term!Live = LiveIn(terms)
  BY <1>1, TermNames DEF HistoryOk
<1>3. /\ p \in exits /\ exits' = exits \ {p} /\ p \in 1 .. spawned /\ p \notin terminalsRunning
      /\ Term!StillMounted
      /\ UNCHANGED <<spawned, terminalsRunning, reminder, viewed, terminalsRequests, lost>>
  BY <1>1 DEF Term!OnExit, ProcessesOk
<1>4. RequestsOk' /\ viewed' \in BOOLEAN
  BY <1>1, <1>3, UnmountedKeeps
<1>5. CASE \E id \in LiveIn(terms) : terms[id].pty = p
  <2>1. PICK id : id = CHOOSE i \in LiveIn(terms) : terms[i].pty = p
    OBVIOUS
  <2>2. id \in LiveIn(terms) /\ terms[id].pty = p
    BY <1>5, <2>1
  <2>3. /\ id \in Terminal /\ terms[id] \in TermEntry
        /\ terms[id].command => id \notin BashTerminal
    BY <1>1, <2>2 DEF EntriesOk, LiveIn
  <2>4. PICK u : u = [terms EXCEPT ![id] = Term!None]
    OBVIOUS
  <2>5. PICK h : h = Append(SubSeq(terminalsHistory, Len(Term!Evicted) + 1,
                                   Len(terminalsHistory)), [id |-> id, entry |-> terms[id]])
    OBVIOUS
  <2>6. /\ terms' = u /\ terminalsHistory' = h
        /\ touched' = touched \ {p} /\ timers' = timers \ {p}
    BY <1>2, <1>5, <2>1, <2>4, <2>5 DEF Term!OnExit
  <2>7. Term!None \in TermEntry
    <3>1. 0 \in 0 .. MaxSpawns
      BY PanelsBounds
    <3> QED BY <3>1 DEF Term!None, TermEntry
  <2>8. /\ u \in [Terminal -> TermEntry] /\ u[id] = Term!None
        /\ \A a \in Terminal : a # id => u[a] = terms[a]
        /\ LiveIn(u) = LiveIn(terms) \ {id}
    BY <1>1, <2>3, <2>4, <2>7 DEF EntriesOk, LiveIn
  <2>9. \A a \in LiveIn(u) : a \in LiveIn(terms) /\ u[a] = terms[a]
    BY <2>8 DEF LiveIn
  <2>10. EntriesOk(u, spawned) /\ Capped(u)
    BY <1>1, <2>8, <2>9, FewerLive
  <2>11. \A i \in 1 .. Len(terminalsHistory) : terminalsHistory[i].id # id
    BY <1>1, <2>2 DEF HistoryOk, LiveIn
  <2>12. HistoryOk(h, u, spawned)
    BY <1>1, <1>3, <2>2, <2>3, <2>5, <2>8, <2>11, EvictedProperties
  <2>13. ProcessesOk(u, terminalsRunning, exits \ {p}, spawned)
    <3>1. ASSUME NEW q \in terminalsRunning PROVE \E a \in LiveIn(u) : u[a].pty = q
      <4>1. PICK a \in LiveIn(terms) : terms[a].pty = q
        BY <1>1 DEF ProcessesOk
      <4>2. a # id
        BY <1>3, <2>2, <4>1
      <4> QED BY <2>8, <2>9, <4>1, <4>2
    <3>2. ASSUME NEW a \in LiveIn(u) PROVE u[a].pty \in terminalsRunning \cup (exits \ {p})
      <4>1. a \in LiveIn(terms) /\ u[a] = terms[a] /\ a # id
        BY <2>8, <2>9
      <4>2. terms[a].pty # p
        BY <1>1, <2>2, <4>1 DEF EntriesOk
      <4> QED BY <1>1, <4>1, <4>2 DEF ProcessesOk
    <3> QED BY <1>1, <3>1, <3>2 DEF ProcessesOk
  <2>14. TermCore'
    BY <1>1, <1>3, <2>6, <2>10, <2>12, <2>13 DEF TermCore
  <2>15. TimersOk'
    BY <1>1, <1>3, <2>6 DEF TimersOk
  <2> QED BY <1>4, <2>14, <2>15 DEF TermIInv
<1>6. CASE ~(\E id \in LiveIn(terms) : terms[id].pty = p)
  <2>1. UNCHANGED <<terms, terminalsHistory, touched, timers>>
    BY <1>2, <1>6 DEF Term!OnExit
  <2>2. ProcessesOk(terms, terminalsRunning, exits \ {p}, spawned)
    BY <1>1, <1>6 DEF ProcessesOk
  <2>3. TermCore'
    BY <1>1, <1>3, <2>1, <2>2 DEF TermCore
  <2>4. TimersOk'
    BY <1>1, <1>3, <2>1 DEF TimersOk
  <2> QED BY <1>4, <2>3, <2>4 DEF TermIInv
<1> QED BY <1>5, <1>6

(* Kill, and killAll when the conversation is disposed of: what is closed   *)
(* is killed and forgotten.                                                 *)
LEMMA KeepKill ==
  ASSUME TermIInv, NEW id \in Terminal, Term!Kill(id)
  PROVE  TermIInv'
<1>1. /\ TermCore /\ TimersOk /\ RequestsOk /\ viewed \in BOOLEAN
      /\ spawned \in 0 .. MaxSpawns
      /\ EntriesOk(terms, spawned) /\ HistoryOk(terminalsHistory, terms, spawned)
      /\ ProcessesOk(terms, terminalsRunning, exits, spawned) /\ Capped(terms)
  BY DEF TermIInv, TermCore
<1>2. Term!Live = LiveIn(terms)
  BY <1>1, TermNames DEF HistoryOk
<1>3. PICK p : p = Term!EntryOf(id).pty
  OBVIOUS
<1>4. PICK u : u = [terms EXCEPT ![id] = Term!None]
  OBVIOUS
<1>5. PICK f : f = Term!Forget(id)
  OBVIOUS
<1>6. /\ terms' = u /\ terminalsHistory' = f
      /\ terminalsRunning' = terminalsRunning \ {p}
      /\ exits' = IF p \in terminalsRunning THEN exits \cup {p} ELSE exits
      /\ touched' = touched \ {p} /\ timers' = timers \ {p}
      /\ Term!StillMounted /\ UNCHANGED <<spawned, reminder, viewed, terminalsRequests, lost>>
  BY <1>3, <1>4, <1>5 DEF Term!Kill
<1>7. RequestsOk' /\ viewed' \in BOOLEAN
  BY <1>1, <1>6, UnmountedKeeps
<1>8. TimersOk'
  BY <1>1, <1>6 DEF TimersOk
<1>9. Term!None \in TermEntry
  <2>1. 0 \in 0 .. MaxSpawns
    BY PanelsBounds
  <2> QED BY <2>1 DEF Term!None, TermEntry
<1>10. /\ u \in [Terminal -> TermEntry] /\ u[id] = Term!None
       /\ \A a \in Terminal : a # id => u[a] = terms[a]
       /\ LiveIn(u) = LiveIn(terms) \ {id}
  BY <1>1, <1>4, <1>9 DEF EntriesOk, LiveIn
<1>11. \A a \in LiveIn(u) : a \in LiveIn(terms) /\ u[a] = terms[a]
  BY <1>10 DEF LiveIn
<1>12. EntriesOk(u, spawned) /\ Capped(u)
  BY <1>1, <1>10, <1>11, FewerLive
<1>13. HistoryOk(f, u, spawned)
  <2>1. HistoryOk(f, terms, spawned) /\ \A i \in 1 .. Len(f) : f[i].id # id
    BY <1>1, <1>5, ForgetProperties
  <2>2. \A i \in 1 .. Len(f) : f[i] \in TermKept
    BY <2>1, ElementOfSeq DEF HistoryOk
  <2>3. \A i \in 1 .. Len(f) : f[i].id \in Terminal
    BY <2>2 DEF TermKept
  <2> QED BY <1>10, <2>1, <2>3 DEF HistoryOk
<1>14. id \in LiveIn(terms) => p = terms[id].pty
  BY <1>2, <1>3 DEF Term!EntryOf
<1>15. PICK x : x = IF p \in terminalsRunning THEN exits \cup {p} ELSE exits
  OBVIOUS
<1>16. ProcessesOk(u, terminalsRunning \ {p}, x, spawned)
  <2>1. ASSUME NEW q \in terminalsRunning \ {p} PROVE \E a \in LiveIn(u) : u[a].pty = q
    <3>1. PICK a \in LiveIn(terms) : terms[a].pty = q
      BY <1>1 DEF ProcessesOk
    <3>2. a # id
      BY <1>14, <3>1
    <3> QED BY <1>10, <1>11, <3>1, <3>2
  <2>2. ASSUME NEW a \in LiveIn(u) PROVE u[a].pty \in (terminalsRunning \ {p}) \cup x
    <3>1. a \in LiveIn(terms) /\ u[a] = terms[a]
      BY <1>11
    <3> QED BY <1>1, <1>15, <3>1 DEF ProcessesOk
  <2> QED BY <1>1, <1>15, <2>1, <2>2 DEF ProcessesOk
<1>17. TermCore'
  BY <1>1, <1>6, <1>12, <1>13, <1>15, <1>16 DEF TermCore
<1> QED BY <1>7, <1>8, <1>17 DEF TermIInv

(* The conversation is disposed of, and all its terminals with it.          *)
LEMMA KeepKillAll ==
  ASSUME TermIInv, Term!KillAll
  PROVE  TermIInv'
<1>1. /\ TermCore /\ TimersOk /\ RequestsOk /\ viewed \in BOOLEAN
      /\ spawned \in 0 .. MaxSpawns
      /\ EntriesOk(terms, spawned) /\ HistoryOk(terminalsHistory, terms, spawned)
      /\ ProcessesOk(terms, terminalsRunning, exits, spawned) /\ Capped(terms)
  BY DEF TermIInv, TermCore
<1>2. Term!Live = LiveIn(terms)
  BY <1>1, TermNames DEF HistoryOk
<1>3. PICK gone_ptys : gone_ptys = {terms[id].pty : id \in LiveIn(terms)}
  OBVIOUS
<1>4. PICK u : u = [id \in Terminal |-> Term!None]
  OBVIOUS
<1>5. PICK x : x = exits \cup (terminalsRunning \cap gone_ptys)
  OBVIOUS
<1>6. PICK r : r = terminalsRunning \ gone_ptys
  OBVIOUS
<1>7. /\ terms' = u /\ terminalsHistory' = <<>> /\ terminalsRunning' = r /\ exits' = x
      /\ touched' = {} /\ timers' = timers \ gone_ptys /\ mounted' = {}
      /\ UNCHANGED <<spawned, reminder, viewed, terminalsRequests, lost>>
  BY <1>2, <1>3, <1>4, <1>5, <1>6 DEF Term!KillAll
<1>8. RequestsOk' /\ viewed' \in BOOLEAN
  BY <1>1, <1>7, UnmountedKeeps
<1>9. TimersOk'
  BY <1>1, <1>7 DEF TimersOk
<1>10. Term!None \in TermEntry
  <2>1. 0 \in 0 .. MaxSpawns
    BY PanelsBounds
  <2> QED BY <2>1 DEF Term!None, TermEntry
<1>11. u \in [Terminal -> TermEntry] /\ LiveIn(u) = {}
  BY <1>4, <1>10 DEF LiveIn
<1>12. EntriesOk(u, spawned) /\ Capped(u)
  BY <1>1, <1>11, FewerLive
<1>13. HistoryOk(<<>>, u, spawned)
  <2>1. <<>> \in Seq(TermKept) /\ Len(<<>>) = 0 /\ 0 <= MaxHistory
    BY EmptySeq, PanelsBounds
  <2> QED BY <2>1 DEF HistoryOk
<1>14. r = {}
  BY <1>1, <1>3, <1>6 DEF ProcessesOk
<1>15. ProcessesOk(u, r, x, spawned)
  BY <1>1, <1>5, <1>11, <1>14 DEF ProcessesOk
<1>16. TermCore'
  BY <1>1, <1>7, <1>12, <1>13, <1>15 DEF TermCore
<1> QED BY <1>8, <1>9, <1>16 DEF TermIInv

(* No terminal yet.                                                         *)
LEMMA TermInitially == Term!TermInit => TermIInv
<1> SUFFICES ASSUME Term!TermInit PROVE TermIInv
  OBVIOUS
<1>1. PICK t : t = [id \in Terminal |-> Term!None]
  OBVIOUS
<1>2. /\ terms = t /\ terminalsHistory = <<>> /\ spawned = 0
      /\ terminalsRunning = {} /\ exits = {} /\ touched = {} /\ timers = {}
      /\ reminder = [p \in Term!Pty |-> "none"]
      /\ viewed = TRUE /\ mounted = {} /\ terminalsRequests = <<>>
  BY <1>1 DEF Term!TermInit
<1>3. MaxSpawns \in Nat /\ MaxLive \in Nat /\ MaxHistory \in Nat /\ MaxRequests \in Nat
  BY PanelsBounds
<1>4. spawned \in 0 .. MaxSpawns
  BY <1>2, <1>3
<1>5. Term!None \in TermEntry
  <2>1. 0 \in 0 .. MaxSpawns
    BY <1>3
  <2> QED BY <2>1 DEF Term!None, TermEntry
<1>6. t \in [Terminal -> TermEntry] /\ LiveIn(t) = {}
  BY <1>1, <1>5 DEF LiveIn
<1>7. EntriesOk(t, spawned)
  BY <1>6 DEF EntriesOk
<1>8. HistoryOk(<<>>, t, spawned)
  <2>1. <<>> \in Seq(TermKept) /\ Len(<<>>) = 0 /\ 0 <= MaxHistory
    BY <1>3, EmptySeq
  <2> QED BY <2>1 DEF HistoryOk
<1>9. ProcessesOk(t, {}, {}, spawned)
  BY <1>6 DEF ProcessesOk
<1>10. Capped(t)
  <2>1. UserLive(t) = {}
    BY <1>6 DEF UserLive
  <2> QED BY <1>3, <2>1, FS_EmptySet DEF Capped
<1>11. TermCore
  BY <1>2, <1>4, <1>7, <1>8, <1>9, <1>10 DEF TermCore
<1>12. TimersOk
  BY <1>2 DEF TimersOk
<1>13. RequestsOk
  <2>1. <<>> \in Seq(TermRequest) /\ Len(<<>>) = 0 /\ 0 <= MaxRequests
    BY <1>3, EmptySeq
  <2> QED BY <1>2, <2>1 DEF RequestsOk
<1> QED BY <1>2, <1>11, <1>12, <1>13 DEF TermIInv

(* A terminal the agent touched has a timer of its own, and is due.         *)
LEMMA TouchKeeps ==
  ASSUME TimersOk, spawned \in Nat, NEW n \in 0 .. MaxSpawns, spawned <= n, spawned' = n,
         NEW p \in 1 .. n,
         touched' = touched \cup {p}, timers' = timers \cup {p},
         reminder' = [reminder EXCEPT ![p] = IF reminder[p] = "again" THEN reminder[p]
                                             ELSE "due"]
  PROVE  TimersOk'
<1>1. p \in Term!Pty /\ MaxSpawns \in Nat
  BY PanelsBounds DEF Term!Pty
<1>2. touched' \subseteq 1 .. n /\ timers' \subseteq 1 .. n
  <2>1. 1 .. spawned \subseteq 1 .. n
    OBVIOUS
  <2> QED BY <2>1 DEF TimersOk
<1>3. reminder[p] \in {"none", "due", "sent"}
  BY <1>1 DEF TimersOk
<1>4. reminder' \in [Term!Pty -> {"none", "due", "sent"}] /\ reminder'[p] = "due"
      /\ \A x \in Term!Pty : x # p => reminder'[x] = reminder[x]
  BY <1>1, <1>3 DEF TimersOk
<1>5. ASSUME NEW x \in timers' PROVE reminder'[x] = "due"
  <2>1. CASE x = p
    BY <1>4, <2>1
  <2>2. CASE x # p
    <3>1. x \in timers /\ x \in Term!Pty
      <4>1. x \in timers /\ x \in 1 .. n
        BY <1>2, <1>5, <2>2
      <4> QED BY <1>1, <4>1 DEF Term!Pty
    <3> QED BY <1>4, <2>2, <3>1 DEF TimersOk
  <2> QED BY <2>1, <2>2
<1> QED BY <1>2, <1>4, <1>5 DEF TimersOk

(* The agent's terminal_create and terminal_input.                          *)
LEMMA KeepAgentCreates ==
  ASSUME TermIInv, NEW id \in Terminal, Term!AgentCreates(id)
  PROVE  TermIInv'
<1>1. /\ TermCore /\ TimersOk /\ RequestsOk /\ viewed \in BOOLEAN
      /\ spawned \in 0 .. MaxSpawns /\ MaxSpawns \in Nat
      /\ EntriesOk(terms, spawned) /\ HistoryOk(terminalsHistory, terms, spawned)
  BY PanelsBounds DEF TermIInv, TermCore
<1>2. Term!Live = LiveIn(terms)
  BY <1>1, TermNames DEF HistoryOk
<1>3. /\ id \notin BashTerminal
      /\ id \in Term!Live \/ (spawned < MaxSpawns /\ Term!EnsureSpawnAllowed(id, FALSE))
      /\ Term!Create(id, FALSE, "agent")
      /\ UNCHANGED <<viewed, mounted, terminalsRequests>>
  BY DEF Term!AgentCreates
<1>4. TermCore' /\ spawned <= spawned'
  BY <1>1, <1>3, CreateKeeps
<1>5. terms'[id].pty \in 1 .. spawned'
  <2>1. CASE id \in Term!Live
    <3>1. UNCHANGED <<terms, spawned>>
      BY <1>3, <2>1 DEF Term!Create
    <3> QED BY <1>1, <1>2, <2>1, <3>1 DEF EntriesOk
  <2>2. CASE id \notin Term!Live
    <3>1. Term!EnsureSpawnAllowed(id, FALSE) /\ spawned < MaxSpawns /\ spawned # MaxSpawns
      <4>1. Term!EnsureSpawnAllowed(id, FALSE) /\ spawned < MaxSpawns
        BY Zenon, <1>3, <2>2
      <4>2. spawned < MaxSpawns
        BY Zenon, <4>1
      <4>3. spawned # MaxSpawns
        BY <1>1, <4>2
      <4> QED BY Zenon, <4>1, <4>3
    <3>2. Term!Spawn(id, FALSE, FALSE, "agent")
      BY <1>3, <2>2, <3>1 DEF Term!Create
    <3>3. spawned' = spawned + 1 /\ terms'[id].pty = spawned + 1
      BY <1>1, <2>2, <3>1, <3>2, SpawnKeeps
    <3> QED BY <1>1, <3>3
  <2> QED BY <2>1, <2>2
<1>6. PICK q : q = terms'[id].pty
  OBVIOUS
<1>7. PICK n : n = spawned'
  OBVIOUS
<1>8. n \in 0 .. MaxSpawns /\ q \in 1 .. n /\ spawned <= n
  BY <1>4, <1>5, <1>6, <1>7 DEF TermCore
<1>9. /\ touched' = touched \cup {q} /\ timers' = timers \cup {q}
      /\ reminder' = [reminder EXCEPT ![q] = IF reminder[q] = "again" THEN reminder[q]
                                             ELSE "due"]
  BY <1>6 DEF Term!AgentCreates, Term!Touch
<1>10. TimersOk'
  <2>1. spawned \in Nat /\ spawned' = n
    BY <1>1, <1>7
  <2> QED BY <1>1, <1>8, <1>9, <2>1, TouchKeeps
<1>11. RequestsOk' /\ viewed' \in BOOLEAN
  BY <1>1, <1>3 DEF RequestsOk
<1> QED BY <1>4, <1>10, <1>11 DEF TermIInv

(* What the agent types goes to a live terminal.                            *)
LEMMA KeepAgentTypes ==
  ASSUME TermIInv, NEW id \in Terminal, Term!AgentTypes(id)
  PROVE  TermIInv'
<1>1. /\ TermCore /\ TimersOk /\ RequestsOk /\ viewed \in BOOLEAN
      /\ spawned \in 0 .. MaxSpawns /\ MaxSpawns \in Nat
      /\ EntriesOk(terms, spawned) /\ HistoryOk(terminalsHistory, terms, spawned)
  BY PanelsBounds DEF TermIInv, TermCore
<1>2. PICK q : q = terms[id].pty
  OBVIOUS
<1>3. /\ id \in Term!Live
      /\ touched' = touched \cup {q} /\ timers' = timers \cup {q}
      /\ reminder' = [reminder EXCEPT ![q] = IF reminder[q] = "again" THEN reminder[q]
                                             ELSE "due"]
      /\ UNCHANGED <<terms, terminalsHistory, spawned, terminalsRunning, exits, viewed,
                     mounted, terminalsRequests, lost>>
  BY <1>2 DEF Term!AgentTypes, Term!Touch
<1>4. q \in 1 .. spawned
  <2>1. Term!Live = LiveIn(terms)
    BY <1>1, TermNames DEF HistoryOk
  <2> QED BY <1>1, <1>2, <1>3, <2>1 DEF EntriesOk
<1>5. PICK n : n = spawned
  OBVIOUS
<1>6. n \in 0 .. MaxSpawns /\ q \in 1 .. n /\ spawned <= n /\ spawned' = n /\ spawned \in Nat
  BY <1>1, <1>3, <1>4, <1>5
<1>7. TimersOk'
  BY <1>1, <1>3, <1>6, TouchKeeps
<1>8. TermCore' /\ RequestsOk' /\ viewed' \in BOOLEAN
  BY <1>1, <1>3 DEF TermCore, RequestsOk
<1> QED BY <1>7, <1>8 DEF TermIInv

(* The bash tool's terminal does not count for the cap, and is not watched. *)
LEMMA KeepBashOpens ==
  ASSUME TermIInv, NEW id \in Terminal, Term!BashOpens(id)
  PROVE  TermIInv'
<1>1. /\ TermCore /\ TimersOk /\ RequestsOk /\ viewed \in BOOLEAN
      /\ spawned \in 0 .. MaxSpawns /\ MaxSpawns \in Nat
  BY PanelsBounds DEF TermIInv, TermCore
<1>2. PICK q : q = terms[id].pty
  OBVIOUS
<1>3. /\ id \in BashTerminal /\ Term!Create(id, TRUE, "agent")
      /\ timers' = timers \ {q}
      /\ UNCHANGED <<touched, reminder, viewed, mounted, terminalsRequests>>
  BY <1>2 DEF Term!BashOpens
<1>4. TermCore' /\ spawned <= spawned'
  BY <1>1, <1>3, CreateKeeps
<1>5. 1 .. spawned \subseteq 1 .. spawned'
  BY <1>1, <1>4 DEF TermCore
<1>6. TimersOk'
  BY <1>1, <1>3, <1>5 DEF TimersOk
<1>7. RequestsOk' /\ viewed' \in BOOLEAN
  BY <1>1, <1>3 DEF RequestsOk
<1> QED BY <1>4, <1>6, <1>7 DEF TermIInv

(* The server takes the oldest request of the tab.                          *)
LEMMA KeepHandle ==
  ASSUME TermIInv, Term!Handle
  PROVE  TermIInv'
<1>1. /\ TermCore /\ TimersOk /\ RequestsOk /\ viewed \in BOOLEAN
      /\ spawned \in 0 .. MaxSpawns /\ MaxSpawns \in Nat
      /\ terminalsRequests \in Seq(TermRequest) /\ Len(terminalsRequests) <= MaxRequests
      /\ MaxRequests \in Nat
  BY PanelsBounds DEF TermIInv, TermCore, RequestsOk
<1>2. PICK r : r = Head(terminalsRequests)
  OBVIOUS
<1>3. PICK rest : rest = Tail(terminalsRequests)
  OBVIOUS
<1>4. /\ terminalsRequests # <<>> /\ terminalsRequests' = rest
      /\ IF r.run THEN Term!RunCommand(r.id, r.by) ELSE Term!Create(r.id, FALSE, r.by)
      /\ UNCHANGED <<mounted, touched, timers, reminder, viewed>>
  BY <1>2, <1>3 DEF Term!Handle
<1>5. /\ Len(terminalsRequests) \in Nat \ {0} /\ r = terminalsRequests[1] /\ r \in TermRequest
      /\ rest \in Seq(TermRequest) /\ Len(rest) = Len(terminalsRequests) - 1
      /\ \A i \in 1 .. (Len(terminalsRequests) - 1) : rest[i] = terminalsRequests[i + 1]
  BY <1>1, <1>2, <1>3, <1>4, HeadTailRange
<1>6. r.id \in Terminal /\ r.run \in BOOLEAN
  BY <1>5 DEF TermRequest
<1>7. r.run => r.id \notin BashTerminal
  <2>1. 1 \in 1 .. Len(terminalsRequests)
    BY <1>5
  <2> QED BY <1>1, <1>5, <2>1 DEF RequestsOk
<1>8. TermCore' /\ spawned <= spawned'
  <2>1. CASE r.run
    BY <1>1, <1>4, <1>6, <1>7, <2>1, RunCommandKeeps
  <2>2. CASE ~r.run
    BY <1>1, <1>4, <1>6, <2>2, CreateKeeps
  <2> QED BY <2>1, <2>2
<1>9. TimersOk'
  <2>1. 1 .. spawned \subseteq 1 .. spawned'
    BY <1>1, <1>8 DEF TermCore
  <2> QED BY <1>1, <1>4, <2>1 DEF TimersOk
<1>10. RequestsOk'
  <2>1. ASSUME NEW i \in 1 .. Len(rest) PROVE rest[i].run => rest[i].id \notin BashTerminal
    <3>1. PICK j \in 1 .. Len(terminalsRequests) : rest[i] = terminalsRequests[j]
      <4>1. i + 1 \in 1 .. Len(terminalsRequests) /\ i \in 1 .. (Len(terminalsRequests) - 1)
        BY <1>5
      <4> QED BY <1>5, <4>1
    <3> QED BY <1>1, <3>1 DEF RequestsOk
  <2>2. Len(rest) <= MaxRequests
    BY <1>1, <1>5
  <2> QED BY <1>1, <1>4, <1>5, <2>1, <2>2 DEF RequestsOk
<1>11. viewed' \in BOOLEAN
  BY <1>1, <1>4
<1> QED BY <1>8, <1>9, <1>10, <1>11 DEF TermIInv

(* The entry of a listed terminal: a command is not one of the bash tool.   *)
LEMMA EntryListed ==
  ASSUME TermCore, NEW id \in Terminal, id \in Term!Listed
  PROVE  /\ Term!EntryOf(id).command \in BOOLEAN
         /\ Term!EntryOf(id).command => id \notin BashTerminal
<1>1. EntriesOk(terms, spawned) /\ HistoryOk(terminalsHistory, terms, spawned)
  BY DEF TermCore
<1>2. /\ Term!Live = LiveIn(terms)
      /\ Term!Kept = {terminalsHistory[i].id : i \in 1 .. Len(terminalsHistory)}
      /\ terminalsHistory \in Seq(TermKept)
  BY <1>1, TermNames DEF HistoryOk
<1>3. CASE id \in Term!Live
  <2>1. Term!EntryOf(id) = terms[id]
    BY <1>3 DEF Term!EntryOf
  <2>2. terms[id] \in TermEntry
    BY <1>1 DEF EntriesOk
  <2>3. terms[id].command \in BOOLEAN
    BY <2>2 DEF TermEntry
  <2> QED BY <1>1, <1>2, <1>3, <2>1, <2>3 DEF EntriesOk
<1>4. CASE id \notin Term!Live
  <2>1. Term!ToSet(terminalsHistory)
          = {terminalsHistory[i] : i \in 1 .. Len(terminalsHistory)}
    <3>1. DOMAIN terminalsHistory = 1 .. Len(terminalsHistory)
      BY <1>2, LenProperties
    <3> QED BY <3>1 DEF Term!ToSet
  <2>2. PICK k \in Term!ToSet(terminalsHistory) :
          k.id = id /\ Term!EntryOf(id) = k.entry
    <3>1. \E h \in Term!ToSet(terminalsHistory) : h.id = id
      BY <1>2, <1>4, <2>1 DEF Term!Listed
    <3>2. PICK k : k = CHOOSE h \in Term!ToSet(terminalsHistory) : h.id = id
      OBVIOUS
    <3>3. k \in Term!ToSet(terminalsHistory) /\ k.id = id
      BY <3>1, <3>2
    <3> QED BY <1>4, <3>2, <3>3 DEF Term!EntryOf
  <2>3. PICK i \in 1 .. Len(terminalsHistory) : k = terminalsHistory[i]
    BY <2>1, <2>2
  <2>4. k \in TermKept
    BY <1>2, <2>3, ElementOfSeq
  <2>5. k.entry.command \in BOOLEAN
    BY <2>4 DEF TermKept, TermEntry
  <2> QED BY <1>1, <2>2, <2>3, <2>5 DEF HistoryOk
<1> QED BY <1>3, <1>4

(* A request of the tab goes behind the others.                             *)
LEMMA RequestAdded ==
  ASSUME RequestsOk, NEW id \in Terminal, NEW run \in BOOLEAN, run => id \notin BashTerminal,
         NEW by \in {"user", "mount"}, Len(terminalsRequests) < MaxRequests,
         terminalsRequests' = Append(terminalsRequests, [id |-> id, run |-> run, by |-> by]),
         mounted' \subseteq mounted \cup {id}
  PROVE  RequestsOk'
<1>1. PICK r : r = [id |-> id, run |-> run, by |-> by]
  OBVIOUS
<1>2. r \in TermRequest /\ r.id = id /\ r.run = run
  BY <1>1 DEF TermRequest
<1>3. PICK s : s = Append(terminalsRequests, r)
  OBVIOUS
<1>4. terminalsRequests \in Seq(TermRequest) /\ Len(terminalsRequests) \in Nat
  BY LenProperties DEF RequestsOk
<1>5. /\ s \in Seq(TermRequest) /\ Len(s) = Len(terminalsRequests) + 1
      /\ \A i \in 1 .. Len(terminalsRequests) : s[i] = terminalsRequests[i]
      /\ s[Len(terminalsRequests) + 1] = r
  BY <1>2, <1>3, <1>4, AppendProperties
<1>6. ASSUME NEW i \in 1 .. Len(s) PROVE s[i].run => s[i].id \notin BashTerminal
  <2>1. i \in 1 .. Len(terminalsRequests) \/ i = Len(terminalsRequests) + 1
    BY <1>4, <1>5
  <2> QED BY <1>2, <1>5, <2>1 DEF RequestsOk
<1>7. Len(s) <= MaxRequests
  BY <1>4, <1>5, PanelsBounds
<1>8. terminalsRequests' = s
  BY <1>1, <1>3
<1>9. mounted' \subseteq Terminal
  BY DEF RequestsOk
<1> QED BY <1>5, <1>6, <1>7, <1>8, <1>9 DEF RequestsOk

(* The tab opens, reruns or mounts a terminal, or shows another chat.       *)
LEMMA KeepTab ==
  ASSUME TermIInv,
         \/ \E id \in Terminal : \/ Term!OpenTab(id, TRUE) \/ Term!OpenTab(id, FALSE)
                                 \/ Term!Rerun(id) \/ Term!Mount(id)
         \/ Term!ChangeView
  PROVE  TermIInv'
<1>1. TermCore /\ TimersOk /\ RequestsOk /\ viewed \in BOOLEAN
  BY DEF TermIInv
<1>2. UNCHANGED <<terms, terminalsHistory, spawned, terminalsRunning, exits, touched,
                  timers, reminder>>
  BY DEF Term!OpenTab, Term!Rerun, Term!Mount, Term!ChangeView
<1>3. TermCore' /\ TimersOk'
  BY <1>1, <1>2 DEF TermCore, TimersOk
<1>4. ASSUME NEW id \in Terminal, NEW command \in BOOLEAN, Term!OpenTab(id, command)
      PROVE  RequestsOk' /\ viewed' \in BOOLEAN
  <2>1. /\ id \notin BashTerminal /\ Len(terminalsRequests) < MaxRequests
        /\ mounted' = mounted \cup {id} /\ viewed' = viewed
        /\ terminalsRequests'
             = Append(terminalsRequests, [id |-> id, run |-> command, by |-> "user"])
    BY <1>4 DEF Term!OpenTab
  <2> QED BY <1>1, <2>1, RequestAdded
<1>5. ASSUME NEW id \in Terminal, Term!Rerun(id) PROVE RequestsOk' /\ viewed' \in BOOLEAN
  <2>1. /\ id \in Term!Listed /\ Term!EntryOf(id).command
        /\ Len(terminalsRequests) < MaxRequests /\ mounted' = mounted /\ viewed' = viewed
        /\ terminalsRequests'
             = Append(terminalsRequests, [id |-> id, run |-> TRUE, by |-> "user"])
    BY <1>5 DEF Term!Rerun
  <2>2. id \notin BashTerminal
    BY <1>1, <2>1, EntryListed
  <2> QED BY <1>1, <2>1, <2>2, RequestAdded
<1>6. ASSUME NEW id \in Terminal, Term!Mount(id) PROVE RequestsOk' /\ viewed' \in BOOLEAN
  <2>1. PICK run : run = Term!EntryOf(id).command
    OBVIOUS
  <2>2. /\ id \in Term!Listed /\ Len(terminalsRequests) < MaxRequests
        /\ mounted' = mounted \cup {id} /\ viewed' = viewed
        /\ terminalsRequests'
             = Append(terminalsRequests, [id |-> id, run |-> run, by |-> "mount"])
    BY <1>6, <2>1 DEF Term!Mount
  <2>3. run \in BOOLEAN /\ (run => id \notin BashTerminal)
    BY <1>1, <2>1, <2>2, EntryListed
  <2> QED BY <1>1, <2>2, <2>3, RequestAdded
<1>7. ASSUME Term!ChangeView PROVE RequestsOk' /\ viewed' \in BOOLEAN
  <2>1. viewed' = ~viewed /\ mounted' = {} /\ terminalsRequests' = terminalsRequests
    BY <1>7 DEF Term!ChangeView
  <2> QED BY <1>1, <2>1 DEF RequestsOk
<1>8. RequestsOk' /\ viewed' \in BOOLEAN
  BY <1>4, <1>5, <1>6, <1>7
<1> QED BY <1>3, <1>8 DEF TermIInv

(* The watchdog of a silent terminal.                                       *)
LEMMA KeepIdleFires ==
  ASSUME TermIInv, NEW p \in Term!Pty, Term!IdleFires(p)
  PROVE  TermIInv'
<1>1. TermCore /\ TimersOk /\ RequestsOk /\ viewed \in BOOLEAN
  BY DEF TermIInv
<1>2. /\ p \in timers /\ timers' = timers \ {p}
      /\ UNCHANGED <<terms, terminalsHistory, spawned, terminalsRunning, exits, viewed,
                     mounted, terminalsRequests, lost>>
  BY DEF Term!IdleFires
<1>3. TermCore' /\ RequestsOk' /\ viewed' \in BOOLEAN
  BY <1>1, <1>2 DEF TermCore, RequestsOk
<1>4. \/ UNCHANGED <<touched, reminder>>
      \/ /\ touched' = touched \ {p}
         /\ reminder' = [reminder EXCEPT ![p] = IF reminder[p] = "due" THEN "sent" ELSE "again"]
  BY DEF Term!IdleFires
<1>5. CASE UNCHANGED <<touched, reminder>>
  <2>1. TimersOk'
    BY <1>1, <1>2, <1>5 DEF TimersOk
  <2> QED BY <1>3, <2>1 DEF TermIInv
<1>6. CASE /\ touched' = touched \ {p}
           /\ reminder' = [reminder EXCEPT ![p] = IF reminder[p] = "due" THEN "sent" ELSE "again"]
  <2>1. reminder[p] = "due"
    BY <1>1, <1>2 DEF TimersOk
  <2>2. /\ reminder' \in [Term!Pty -> {"none", "due", "sent"}]
        /\ \A x \in Term!Pty : x # p => reminder'[x] = reminder[x]
    BY <1>1, <1>6, <2>1 DEF TimersOk
  <2>3. timers \subseteq Term!Pty
    BY <1>1, PanelsBounds DEF TermCore, TimersOk, Term!Pty
  <2>4. \A x \in timers' : reminder'[x] = "due"
    BY <1>1, <1>2, <2>2, <2>3 DEF TimersOk
  <2>5. TimersOk'
    BY <1>1, <1>2, <1>6, <2>2, <2>4 DEF TimersOk
  <2> QED BY <1>3, <2>5 DEF TermIInv
<1> QED BY <1>4, <1>5, <1>6

(* Every step of the terminals.                                             *)
LEMMA TermStep == TermIInv /\ [Term!TermNext]_termVars => TermIInv'
<1> SUFFICES ASSUME TermIInv, [Term!TermNext]_termVars PROVE TermIInv'
  OBVIOUS
<1>1. CASE UNCHANGED termVars
  BY <1>1 DEF termVars, TermIInv, TermCore, TimersOk, RequestsOk
<1>2. CASE Term!TermNext
  BY <1>2, KeepTab, KeepKill, KeepBashOpens, KeepAgentCreates, KeepAgentTypes,
     KeepProcessEnds, KeepOnExit, KeepIdleFires, KeepHandle, KeepKillAll DEF Term!TermNext
<1> QED BY <1>1, <1>2

(* What the run checks of the terminals follows from the invariant.         *)
LEMMA TermImplies ==
  ASSUME TermIInv
  PROVE  /\ Term!TermTypeOK /\ Term!EveryProcessShown
         /\ Term!WithinCaps /\ Term!OneReminder
<1>1. /\ TermCore /\ TimersOk /\ RequestsOk /\ viewed \in BOOLEAN
      /\ spawned \in 0 .. MaxSpawns /\ MaxSpawns \in Nat
      /\ EntriesOk(terms, spawned) /\ HistoryOk(terminalsHistory, terms, spawned)
      /\ ProcessesOk(terms, terminalsRunning, exits, spawned) /\ Capped(terms)
  BY PanelsBounds DEF TermIInv, TermCore
<1> DEFINE h == terminalsHistory
<1>2. /\ Term!Live = LiveIn(terms)
      /\ Term!Kept = {h[i].id : i \in 1 .. Len(h)}
      /\ h \in Seq(TermKept) /\ Len(h) \in Nat
  BY <1>1, TermNames, LenProperties DEF HistoryOk
<1>3. Term!EveryProcessShown
  BY <1>1, <1>2 DEF Term!EveryProcessShown, ProcessesOk
<1>4. Term!WithinCaps
  <2>1. {id \in Term!Live : ~terms[id].agentBash} = UserLive(terms)
    BY <1>2 DEF UserLive
  <2>2. Term!Cardinality(UserLive(terms)) <= MaxLive
    BY <1>1, TermCardinality DEF Capped
  <2> QED BY <1>1, <2>1, <2>2 DEF Term!WithinCaps, HistoryOk
<1>5. Term!OneReminder
  BY <1>1 DEF Term!OneReminder, TimersOk
<1>6. Term!TermTypeOK
  <2>1. terms \in [Terminal -> TermEntry]
    BY <1>1 DEF EntriesOk
  <2>2. Term!Cardinality(Term!Kept) = Len(h)
    <3> DEFINE ids == [i \in 1 .. Len(h) |-> h[i].id]
    <3>1. ids \in [1 .. Len(h) -> Term!Kept]
      BY <1>2
    <3>2. \A x \in Term!Kept : \E i \in 1 .. Len(h) : ids[i] = x
      BY <1>2
    <3>3. \A i, j \in 1 .. Len(h) : ids[i] = ids[j] => i = j
      BY <1>1 DEF HistoryOk
    <3> HIDE DEF ids
    <3>4. ids \in Bijection(1 .. Len(h), Term!Kept)
      BY <3>1, <3>2, <3>3, Fun_IsBij
    <3>5. ExistsBijection(1 .. Len(h), Term!Kept)
      BY <3>4, Fun_ExistsBij
    <3>6. Cardinality(Term!Kept) = Len(h)
      BY <1>2, <3>5, FS_CountingElements
    <3> QED BY <3>6, TermCardinality
  <2>3. Term!Live \cap Term!Kept = {}
    BY <1>1, <1>2 DEF HistoryOk, LiveIn
  <2>4. terminalsRunning \cup exits \cup touched \cup timers \subseteq 1 .. spawned
    BY <1>1 DEF ProcessesOk, TimersOk
  <2>5. reminder \in [Term!Pty -> {"none", "due", "sent", "again"}]
    BY <1>1 DEF TimersOk
  <2>6. Len(h) <= MaxHistory
    BY <1>1 DEF HistoryOk
  <2>7. mounted \subseteq Terminal /\ Len(terminalsRequests) <= MaxRequests
    BY <1>1 DEF RequestsOk
  <2>8. terms \in [Terminal -> [pty : 0 .. MaxSpawns, command : BOOLEAN, agentBash : BOOLEAN]]
    BY <2>1 DEF TermEntry
  <2> QED BY <1>1, <2>2, <2>3, <2>4, <2>5, <2>6, <2>7, <2>8 DEF Term!TermTypeOK
<1> QED BY <1>3, <1>4, <1>5, <1>6

-----------------------------------------------------------------------------
(* The screen of a terminal                                                 *)

(* Messages about the first n chunks.                                       *)
Msgs(n) == [type : {"list", "other", "output"}, data : Seq(1 .. n)]

ScreenFlags ==
  /\ onActive \in BOOLEAN /\ listed \in BOOLEAN /\ panelOpen \in BOOLEAN
  /\ xterm \in BOOLEAN /\ overflowed \in BOOLEAN
ScreenPlaces ==
  /\ xterm => listed /\ panelOpen /\ buffer = <<>>
  /\ ~xterm => screen = <<>>
ScreenData ==
  /\ printed \in 0 .. MaxPrinted /\ pendingOut \in 0 .. printed
  /\ views \in 0 .. MaxViews
  /\ screen \in Seq(1 .. printed) /\ buffer \in Seq(1 .. printed)
  /\ wire \in Seq(Msgs(printed))

(* A chunk is on its way in w when no message behind it takes the tab to    *)
(* another conversation, and the tab holds it when none on its way does.    *)
Has(c, s) == \E i \in 1 .. Len(s) : s[i] = c
Closes(w, j) == \E i \in j .. Len(w) : w[i].type = "other"
OnTheWay(w, c) ==
  \E j \in 1 .. Len(w) : w[j].type = "output" /\ Has(c, w[j].data) /\ ~Closes(w, j)
Held(w, s, b, o, c) == ~Closes(w, 1) /\ (o = TRUE \/ Has(c, s) \/ Has(c, b))

(* Every chunk the server retains and has sent is on its way to the tab of  *)
(* the conversation, or there, unless the bridge dropped output.            *)
DeliveredIn(w, s, b, o, p, q) ==
  \A c \in 1 .. (p - q) : c + MaxOutput > p => OnTheWay(w, c) \/ Held(w, s, b, o, c)
Delivered ==
  onActive => DeliveredIn(wire, screen, buffer, overflowed, printed, pendingOut)

ScreenIInv == ScreenFlags /\ ScreenPlaces /\ ScreenData /\ Delivered

-----------------------------------------------------------------------------
(* A run of chunks holds each of them.                                      *)
LEMMA ChunkProperties ==
  ASSUME NEW n \in Nat, NEW m \in 1 .. (n + 1)
  PROVE  /\ Term!Chunk(m, n) \in Seq(1 .. n)
         /\ \A c \in m .. n : Has(c, Term!Chunk(m, n))
<1> DEFINE k == n + 1 - m
           f == [i \in 1 .. k |-> m - 1 + i]
<1>1. k \in Nat /\ f = Term!Chunk(m, n)
  BY DEF Term!Chunk
<1>2. \A i \in 1 .. k : m - 1 + i \in 1 .. n
  OBVIOUS
<1>3. f \in Seq(1 .. n)
  BY <1>1, <1>2, IsASeq
<1>4. Len(f) = k /\ \A i \in 1 .. k : f[i] = m - 1 + i
  BY <1>1, <1>3, LenProperties
<1>5. ASSUME NEW c \in m .. n PROVE Has(c, f)
  <2>1. c + 1 - m \in 1 .. k /\ m - 1 + (c + 1 - m) = c
    OBVIOUS
  <2>2. f[c + 1 - m] = c
    BY <1>4, <2>1
  <2> HIDE DEF f
  <2> QED BY <1>4, <2>1, <2>2 DEF Has
<1> QED BY <1>1, <1>3, <1>5

(* What a sequence holds, a longer one holds.                               *)
LEMMA HasConcat ==
  ASSUME NEW S, NEW s \in Seq(S), NEW d \in Seq(S), NEW c
  PROVE  s \o d \in Seq(S) /\ (Has(c, s) \/ Has(c, d) => Has(c, s \o d))
<1>1. /\ s \o d \in Seq(S) /\ Len(s \o d) = Len(s) + Len(d)
      /\ Len(s) \in Nat /\ Len(d) \in Nat
      /\ \A i \in 1 .. (Len(s) + Len(d)) :
           (s \o d)[i] = IF i <= Len(s) THEN s[i] ELSE d[i - Len(s)]
  BY ConcatProperties, LenProperties
<1> DEFINE r == s \o d
<1> HIDE DEF r
<1>2. ASSUME Has(c, s) PROVE Has(c, r)
  <2>1. PICK i \in 1 .. Len(s) : s[i] = c
    BY <1>2 DEF Has
  <2>2. i \in 1 .. Len(r) /\ r[i] = c
    BY <1>1, <2>1 DEF r
  <2> QED BY <2>2 DEF Has
<1>3. ASSUME Has(c, d) PROVE Has(c, r)
  <2>1. PICK i \in 1 .. Len(d) : d[i] = c
    BY <1>3 DEF Has
  <2>2. PICK j : j = Len(s) + i
    OBVIOUS
  <2>3. j \in 1 .. (Len(s) + Len(d)) /\ ~(j <= Len(s)) /\ j - Len(s) = i
    BY <1>1, <2>1, <2>2
  <2>4. j \in 1 .. Len(r) /\ r[j] = c
    BY <1>1, <2>1, <2>3 DEF r
  <2> QED BY <2>4 DEF Has
<1> QED BY <1>1, <1>2, <1>3 DEF r

(* The output at the end of what is on its way arrives.                     *)
LEMMA LastComes ==
  ASSUME NEW w, NEW k \in Nat \ {0}, Len(w) = k, NEW c,
         w[k].type = "output", Has(c, w[k].data)
  PROVE  OnTheWay(w, c)
<1>1. ~Closes(w, k)
  BY DEF Closes
<1> QED BY <1>1 DEF OnTheWay

(* A message that does not close the list stops nothing.                    *)
LEMMA AppendKeeps ==
  ASSUME NEW n, NEW w \in Seq(Msgs(n)), NEW m \in Msgs(n), m.type # "other", NEW c
  PROVE  /\ Append(w, m) \in Seq(Msgs(n))
         /\ OnTheWay(w, c) => OnTheWay(Append(w, m), c)
         /\ ~Closes(w, 1) => ~Closes(Append(w, m), 1)
         /\ m.type = "output" /\ Has(c, m.data) => OnTheWay(Append(w, m), c)
<1> DEFINE r == Append(w, m)
           k == Len(w)
<1>1. /\ r \in Seq(Msgs(n)) /\ k \in Nat /\ Len(r) = k + 1
      /\ \A i \in 1 .. k : r[i] = w[i]
      /\ r[k + 1] = m
  BY AppendProperties, LenProperties
<1> HIDE DEF r, k
<1>2. ASSUME NEW j \in 1 .. k, ~Closes(w, j) PROVE ~Closes(r, j)
  <2>1. ASSUME NEW i \in j .. Len(r) PROVE r[i].type # "other"
    <3>1. CASE i = k + 1
      BY <1>1, <3>1
    <3>2. CASE i # k + 1
      <4>1. i \in j .. k /\ i \in 1 .. k
        BY <1>1, <2>1, <3>2
      <4> QED BY <1>1, <1>2, <4>1 DEF Closes, k
    <3> QED BY <3>1, <3>2
  <2> QED BY <2>1 DEF Closes
<1>3. ASSUME OnTheWay(w, c) PROVE OnTheWay(r, c)
  <2>1. PICK j \in 1 .. k : w[j].type = "output" /\ Has(c, w[j].data) /\ ~Closes(w, j)
    BY <1>3 DEF OnTheWay, k
  <2>2. j \in 1 .. Len(r) /\ r[j] = w[j]
    BY <1>1
  <2>3. ~Closes(r, j)
    BY <1>2, <2>1
  <2> QED BY <2>1, <2>2, <2>3 DEF OnTheWay
<1>4. ASSUME ~Closes(w, 1) PROVE ~Closes(r, 1)
  <2>1. ASSUME NEW i \in 1 .. Len(r) PROVE r[i].type # "other"
    <3>1. CASE i = k + 1
      BY <1>1, <3>1
    <3>2. CASE i # k + 1
      <4>1. i \in 1 .. k
        BY <1>1, <2>1, <3>2
      <4> QED BY <1>1, <1>4, <4>1 DEF Closes, k
    <3> QED BY <3>1, <3>2
  <2> QED BY <2>1 DEF Closes
<1>5. ASSUME m.type = "output", Has(c, m.data) PROVE OnTheWay(r, c)
  <2>1. PICK x : x = k + 1
    OBVIOUS
  <2>2. x \in Nat \ {0} /\ Len(r) = x /\ r[x] = m
    BY <1>1, <2>1
  <2> QED BY <1>5, <2>2, LastComes
<1> QED BY <1>1, <1>3, <1>4, <1>5 DEF r

(* Taking the first message off.                                            *)
LEMMA TailKeeps ==
  ASSUME NEW n, NEW w \in Seq(Msgs(n)), w # <<>>, NEW c
  PROVE  /\ Head(w) \in Msgs(n) /\ Tail(w) \in Seq(Msgs(n))
         /\ ~Closes(w, 1) => ~Closes(Tail(w), 1) /\ Head(w).type # "other"
         /\ OnTheWay(w, c) => \/ OnTheWay(Tail(w), c)
                              \/ /\ Head(w).type = "output" /\ Has(c, Head(w).data)
                                 /\ ~Closes(w, 1)
<1> DEFINE r == Tail(w)
           k == Len(w)
<1>1. /\ k \in Nat \ {0} /\ Head(w) = w[1] /\ Head(w) \in Msgs(n)
      /\ r \in Seq(Msgs(n)) /\ Len(r) = k - 1
      /\ \A i \in 1 .. (k - 1) : r[i] = w[i + 1]
  BY HeadTailRange
<1> HIDE DEF r, k
<1>2. ASSUME NEW j \in 1 .. (k - 1), ~Closes(w, j + 1) PROVE ~Closes(r, j)
  <2>1. ASSUME NEW i \in j .. Len(r) PROVE r[i].type # "other"
    <3>1. i \in 1 .. (k - 1) /\ i + 1 \in (j + 1) .. k
      BY <1>1, <2>1
    <3>2. r[i] = w[i + 1]
      BY <1>1, <3>1
    <3> QED BY <1>2, <3>1, <3>2 DEF Closes, k
  <2> QED BY <2>1 DEF Closes
<1>3. ASSUME ~Closes(w, 1) PROVE ~Closes(r, 1) /\ Head(w).type # "other"
  <2>1. 1 \in 1 .. k
    BY <1>1
  <2>2. \A i \in 1 .. k : w[i].type # "other"
    BY <1>3 DEF Closes, k
  <2>3. ASSUME NEW i \in 1 .. Len(r) PROVE r[i].type # "other"
    <3>1. i \in 1 .. (k - 1) /\ i + 1 \in 1 .. k
      BY <1>1, <2>3
    <3> QED BY <1>1, <2>2, <3>1
  <2>4. ~Closes(r, 1)
    BY <2>3 DEF Closes
  <2> QED BY <1>1, <2>1, <2>2, <2>4
<1>4. ASSUME OnTheWay(w, c)
      PROVE  \/ OnTheWay(r, c)
             \/ Head(w).type = "output" /\ Has(c, Head(w).data) /\ ~Closes(w, 1)
  <2>1. PICK j \in 1 .. k : w[j].type = "output" /\ Has(c, w[j].data) /\ ~Closes(w, j)
    BY <1>4 DEF OnTheWay, k
  <2>2. CASE j = 1
    BY <1>1, <2>1, <2>2
  <2>3. CASE j # 1
    <3>1. PICK x : x = j - 1
      OBVIOUS
    <3>2. x \in 1 .. (k - 1) /\ x \in 1 .. Len(r) /\ j = x + 1
      BY <1>1, <2>3, <3>1
    <3>3. r[x] = w[j] /\ ~Closes(r, x)
      BY <1>1, <1>2, <2>1, <3>2
    <3> QED BY <2>1, <3>2, <3>3 DEF OnTheWay
  <2> QED BY <2>2, <2>3
<1> QED BY <1>1, <1>3, <1>4 DEF r

-----------------------------------------------------------------------------
(* Nothing is printed at first.                                             *)
LEMMA ScreenInitially == Term!ScreenInit => ScreenIInv
<1> SUFFICES ASSUME Term!ScreenInit PROVE ScreenIInv
  OBVIOUS
<1>1. MaxPrinted \in Nat /\ MaxViews \in Nat
  BY PanelsBounds
<1>2. ScreenFlags /\ ScreenPlaces
  BY Zenon DEF Term!ScreenInit, ScreenFlags, ScreenPlaces
<1>3. printed = 0 /\ pendingOut = 0 /\ views = 0 /\ wire = <<>> /\ screen = <<>> /\ buffer = <<>>
  BY DEF Term!ScreenInit
<1>4. ScreenData
  BY <1>1, <1>3 DEF ScreenData
<1>5. DeliveredIn(wire, screen, buffer, overflowed, printed, pendingOut)
  BY <1>3 DEF DeliveredIn
<1> QED BY <1>2, <1>4, <1>5 DEF ScreenIInv, Delivered

(* The parts of the invariant with the bounds.                              *)
LEMMA ScreenParts ==
  ASSUME ScreenIInv
  PROVE  /\ ScreenFlags /\ ScreenPlaces /\ ScreenData
         /\ MaxPrinted \in Nat /\ MaxViews \in Nat /\ MaxOutput \in Nat
         /\ printed \in 0 .. MaxPrinted /\ printed \in Nat
         /\ pendingOut \in 0 .. printed /\ pendingOut \in Nat /\ views \in 0 .. MaxViews
         /\ screen \in Seq(1 .. printed) /\ buffer \in Seq(1 .. printed)
         /\ wire \in Seq(Msgs(printed))
         /\ onActive =>
              DeliveredIn(wire, screen, buffer, overflowed, printed, pendingOut)
<1>1. MaxPrinted \in Nat /\ MaxViews \in Nat /\ MaxOutput \in Nat
  BY PanelsBounds
<1>2. ScreenFlags /\ ScreenPlaces /\ ScreenData /\ Delivered
  BY DEF ScreenIInv
<1>3. printed \in 0 .. MaxPrinted /\ pendingOut \in 0 .. printed
  BY <1>2 DEF ScreenData
<1>4. printed \in Nat /\ pendingOut \in Nat
  BY <1>1, <1>3
<1> QED BY <1>1, <1>2, <1>3, <1>4 DEF ScreenData, Delivered

(* The replay holds every chunk within the cap.                             *)
LEMMA RetainedProperties ==
  ASSUME printed \in Nat, MaxOutput \in Nat
  PROVE  /\ Term!Retained \in Seq(1 .. printed)
         /\ \A c \in 1 .. printed : c + MaxOutput > printed => Has(c, Term!Retained)
<1>1. PICK m : m = IF printed > MaxOutput THEN printed + 1 - MaxOutput ELSE 1
  OBVIOUS
<1>2. m \in 1 .. (printed + 1)
  BY <1>1
<1>3. Term!Retained = Term!Chunk(m, printed)
  BY <1>1 DEF Term!Retained
<1>4. \A c \in 1 .. printed : c + MaxOutput > printed => c \in m .. printed
  BY <1>1
<1> QED BY <1>2, <1>3, <1>4, ChunkProperties

(* The PTY prints: the server has sent no more than before.                 *)
LEMMA KeepPtyPrints == ASSUME ScreenIInv, Term!PtyPrints PROVE ScreenIInv'
<1>1. /\ printed < MaxPrinted /\ printed' = printed + 1 /\ pendingOut' = pendingOut + 1
      /\ UNCHANGED <<onActive, wire, listed, panelOpen, xterm, screen, buffer,
                     overflowed, views>>
  BY DEF Term!PtyPrints
<1>2. ScreenFlags' /\ ScreenPlaces'
  BY <1>1, ScreenParts, Zenon DEF ScreenFlags, ScreenPlaces
<1>3. printed' \in 0 .. MaxPrinted /\ pendingOut' \in 0 .. printed' /\ views' \in 0 .. MaxViews
  BY <1>1, ScreenParts
<1>4. PICK n : n = printed'
  OBVIOUS
<1>5. 1 .. printed \subseteq 1 .. n /\ n = printed + 1
  BY <1>1, <1>4, ScreenParts
<1>6. Seq(1 .. printed) \subseteq Seq(1 .. n)
  BY <1>5, SeqMonotonic
<1>7. Msgs(printed) \subseteq Msgs(n)
  BY <1>6 DEF Msgs
<1>8. wire \in Seq(Msgs(n)) /\ screen \in Seq(1 .. n) /\ buffer \in Seq(1 .. n)
  BY <1>6, <1>7, ScreenParts, SeqMonotonic
<1>9. ScreenData'
  BY <1>1, <1>3, <1>4, <1>8 DEF ScreenData
<1>10. ASSUME DeliveredIn(wire, screen, buffer, overflowed, printed, pendingOut)
       PROVE  DeliveredIn(wire, screen, buffer, overflowed, printed + 1, pendingOut + 1)
  <2> SUFFICES ASSUME NEW c \in 1 .. ((printed + 1) - (pendingOut + 1)),
                      c + MaxOutput > printed + 1
               PROVE  OnTheWay(wire, c) \/ Held(wire, screen, buffer, overflowed, c)
    BY DEF DeliveredIn
  <2>1. c \in 1 .. (printed - pendingOut) /\ c + MaxOutput > printed
    BY ScreenParts
  <2> QED BY <1>10, <2>1 DEF DeliveredIn
<1>11. Delivered'
  BY <1>1, <1>10, ScreenParts DEF Delivered
<1> QED BY <1>2, <1>9, <1>11 DEF ScreenIInv

(* The coalescing window ends: what it held is on its way.                  *)
LEMMA KeepFlushPending == ASSUME ScreenIInv, Term!FlushPending PROVE ScreenIInv'
<1> DEFINE d == Term!Chunk(printed + 1 - pendingOut, printed)
           msg == [type |-> "output", data |-> d]
<1>1. /\ pendingOut > 0 /\ pendingOut' = 0
      /\ wire' = IF onActive THEN Append(wire, msg) ELSE wire
      /\ UNCHANGED <<printed, onActive, listed, panelOpen, xterm, screen, buffer,
                     overflowed, views>>
  BY DEF Term!FlushPending
<1>2. ScreenFlags' /\ ScreenPlaces'
  BY <1>1, ScreenParts, Zenon DEF ScreenFlags, ScreenPlaces
<1>3. printed + 1 - pendingOut \in 1 .. (printed + 1)
  BY <1>1, ScreenParts
<1>4. /\ d \in Seq(1 .. printed)
      /\ \A c \in (printed + 1 - pendingOut) .. printed : Has(c, d)
  BY <1>3, ChunkProperties, ScreenParts
<1> HIDE DEF d
<1>5. /\ msg \in Msgs(printed) /\ msg.type = "output" /\ msg.data = d
  BY <1>4 DEF Msgs
<1> HIDE DEF msg
<1>6. Append(wire, msg) \in Seq(Msgs(printed))
  BY <1>5, ScreenParts, AppendProperties
<1>7. wire' \in Seq(Msgs(printed))
  BY <1>1, <1>6, ScreenParts
<1>8. ScreenData'
  BY <1>1, <1>7, ScreenParts DEF ScreenData
<1>9. ASSUME DeliveredIn(wire, screen, buffer, overflowed, printed, pendingOut)
      PROVE  DeliveredIn(Append(wire, msg), screen, buffer, overflowed, printed, 0)
  <2> SUFFICES ASSUME NEW c \in 1 .. (printed - 0), c + MaxOutput > printed
               PROVE  \/ OnTheWay(Append(wire, msg), c)
                      \/ Held(Append(wire, msg), screen, buffer, overflowed, c)
    BY DEF DeliveredIn
  <2>1. CASE c \in 1 .. (printed - pendingOut)
    <3>1. OnTheWay(wire, c) \/ Held(wire, screen, buffer, overflowed, c)
      BY <1>9, <2>1 DEF DeliveredIn
    <3>2. CASE OnTheWay(wire, c)
      BY <1>5, <3>2, AppendKeeps, ScreenParts
    <3>3. CASE Held(wire, screen, buffer, overflowed, c)
      <4>1. ~Closes(Append(wire, msg), 1)
        BY <1>5, <3>3, AppendKeeps, ScreenParts DEF Held
      <4> QED BY <3>3, <4>1, Zenon DEF Held
    <3> QED BY <3>1, <3>2, <3>3
  <2>2. CASE c \notin 1 .. (printed - pendingOut)
    <3>1. c \in (printed + 1 - pendingOut) .. printed
      BY <2>2, ScreenParts
    <3>2. Has(c, msg.data)
      BY <1>4, <1>5, <3>1
    <3> QED BY <1>5, <3>2, AppendKeeps, ScreenParts
  <2> QED BY <2>1, <2>2
<1>10. Delivered'
  BY <1>1, <1>9, ScreenParts DEF Delivered
<1> QED BY <1>2, <1>8, <1>10 DEF ScreenIInv

(* The user looks at another conversation: nothing is promised.             *)
LEMMA KeepSwitchAway == ASSUME ScreenIInv, Term!SwitchAway PROVE ScreenIInv'
<1> DEFINE msg == [type |-> "other", data |-> <<>>]
<1>1. /\ views < MaxViews /\ onActive' = FALSE /\ views' = views + 1
      /\ wire' = Append(wire, msg)
      /\ UNCHANGED <<printed, pendingOut, listed, panelOpen, xterm, screen, buffer,
                     overflowed>>
  BY DEF Term!SwitchAway
<1>2. ScreenFlags' /\ ScreenPlaces'
  BY <1>1, ScreenParts, Zenon DEF ScreenFlags, ScreenPlaces
<1>3. views' \in 0 .. MaxViews
  BY <1>1, ScreenParts
<1>4. msg \in Msgs(printed)
  BY DEF Msgs
<1> HIDE DEF msg
<1>5. wire' \in Seq(Msgs(printed))
  BY <1>1, <1>4, ScreenParts, AppendProperties
<1>6. ScreenData'
  BY <1>1, <1>3, <1>5, ScreenParts DEF ScreenData
<1>7. Delivered'
  BY <1>1, Zenon DEF Delivered
<1> QED BY <1>2, <1>6, <1>7 DEF ScreenIInv

(* The replay of the server at the end of what is on its way delivers all   *)
(* that is retained.                                                        *)
LEMMA ReplayDelivers ==
  ASSUME printed \in Nat, MaxOutput \in Nat, NEW w \in Seq(Msgs(printed))
  PROVE  /\ w \o Term!PushTerminals \in Seq(Msgs(printed))
         /\ \A c \in 1 .. printed :
              c + MaxOutput > printed => OnTheWay(w \o Term!PushTerminals, c)
<1> DEFINE a == [type |-> "list", data |-> <<>>]
           b == [type |-> "output", data |-> Term!Retained]
           r == w \o <<a, b>>
<1>1. a \in Msgs(printed) /\ b \in Msgs(printed)
  BY RetainedProperties DEF Msgs
<1>2. b.type = "output" /\ b.data = Term!Retained
  OBVIOUS
<1>3. Term!PushTerminals = <<a, b>>
  BY DEF Term!PushTerminals
<1> HIDE DEF a, b
<1>4. <<a, b>> \in Seq(Msgs(printed)) /\ Len(<<a, b>>) = 2 /\ <<a, b>>[2] = b
  BY <1>1
<1>5. /\ r \in Seq(Msgs(printed)) /\ Len(r) = Len(w) + 2 /\ Len(w) \in Nat
      /\ r[Len(w) + 2] = b
  BY <1>4, ConcatProperties, LenProperties
<1> HIDE DEF r
<1>6. PICK k : k = Len(w) + 2
  OBVIOUS
<1>7. k \in Nat \ {0} /\ Len(r) = k /\ r[k] = b
  BY <1>5, <1>6
<1>8. ASSUME NEW c \in 1 .. printed, c + MaxOutput > printed PROVE OnTheWay(r, c)
  <2>1. Has(c, Term!Retained)
    BY <1>8, RetainedProperties
  <2> QED BY <1>2, <1>7, <2>1, LastComes
<1> QED BY <1>3, <1>5, <1>8 DEF r

(* ... whatever the coalescing window holds.                                *)
LEMMA ReplayCovers ==
  ASSUME printed \in Nat, MaxOutput \in Nat, pendingOut \in 0 .. printed,
         NEW w \in Seq(Msgs(printed)), NEW s, NEW b, NEW o
  PROVE  DeliveredIn(w \o Term!PushTerminals, s, b, o, printed, pendingOut)
<1> SUFFICES ASSUME NEW c \in 1 .. (printed - pendingOut), c + MaxOutput > printed
             PROVE  OnTheWay(w \o Term!PushTerminals, c)
  BY DEF DeliveredIn
<1>1. c \in 1 .. printed
  OBVIOUS
<1> QED BY <1>1, ReplayDelivers

(* The user comes back to the conversation.                                 *)
LEMMA KeepSwitchBack == ASSUME ScreenIInv, Term!SwitchBack PROVE ScreenIInv'
<1>1. /\ onActive' = TRUE /\ wire' = wire \o Term!PushTerminals
      /\ UNCHANGED <<printed, pendingOut, listed, panelOpen, xterm, screen, buffer,
                     overflowed, views>>
  BY DEF Term!SwitchBack
<1>2. ScreenFlags' /\ ScreenPlaces'
  BY <1>1, ScreenParts, Zenon DEF ScreenFlags, ScreenPlaces
<1>3. wire' \in Seq(Msgs(printed))
  BY <1>1, ScreenParts, ReplayDelivers
<1>4. ScreenData'
  BY <1>1, <1>3, ScreenParts DEF ScreenData
<1>5. DeliveredIn(wire \o Term!PushTerminals, screen, buffer, overflowed, printed, pendingOut)
  BY ScreenParts, ReplayCovers
<1>6. Delivered'
  BY <1>1, <1>5 DEF Delivered
<1> QED BY <1>2, <1>4, <1>6 DEF ScreenIInv

(* The socket breaks and the tab is attached again, with nothing kept.      *)
LEMMA KeepReconnect == ASSUME ScreenIInv, Term!Reconnect PROVE ScreenIInv'
<1> DEFINE msg == [type |-> "other", data |-> <<>>]
<1>1. /\ views < MaxViews /\ views' = views + 1
      /\ listed' = FALSE /\ xterm' = FALSE /\ overflowed' = FALSE
      /\ screen' = <<>> /\ buffer' = <<>>
      /\ wire' = IF onActive THEN Term!PushTerminals ELSE <<msg>>
      /\ UNCHANGED <<printed, pendingOut, onActive, panelOpen>>
  BY DEF Term!Reconnect
<1>2. ScreenFlags' /\ ScreenPlaces'
  BY <1>1, ScreenParts, Zenon DEF ScreenFlags, ScreenPlaces
<1>3. views' \in 0 .. MaxViews
  BY <1>1, ScreenParts
<1>4. <<>> \in Seq(Msgs(printed)) /\ <<>> \in Seq(1 .. printed)
  OBVIOUS
<1>5. <<>> \o Term!PushTerminals = Term!PushTerminals
  BY DEF Term!PushTerminals
<1>6. Term!PushTerminals \in Seq(Msgs(printed))
  BY <1>4, <1>5, ScreenParts, ReplayDelivers
<1>7. <<msg>> \in Seq(Msgs(printed))
  <2>1. msg \in Msgs(printed)
    BY DEF Msgs
  <2> HIDE DEF msg
  <2> QED BY <2>1
<1>8. ScreenData'
  BY <1>1, <1>3, <1>4, <1>6, <1>7, ScreenParts DEF ScreenData
<1>9. DeliveredIn(Term!PushTerminals, <<>>, <<>>, FALSE, printed, pendingOut)
  BY <1>4, <1>5, ScreenParts, ReplayCovers
<1>10. Delivered'
  BY <1>1, <1>9 DEF Delivered
<1> QED BY <1>2, <1>8, <1>10 DEF ScreenIInv

(* The panel opens.                                                         *)
LEMMA KeepOpenPanel == ASSUME ScreenIInv, Term!OpenPanel PROVE ScreenIInv'
<1>1. /\ panelOpen' = TRUE
      /\ UNCHANGED <<printed, pendingOut, onActive, wire, listed, xterm, screen, buffer,
                     overflowed, views>>
  BY DEF Term!OpenPanel
<1>2. ScreenFlags' /\ ScreenPlaces'
  BY <1>1, ScreenParts, Zenon DEF ScreenFlags, ScreenPlaces
<1>3. ScreenData'
  BY <1>1, ScreenParts DEF ScreenData
<1>4. Delivered'
  BY <1>1, ScreenParts DEF Delivered
<1> QED BY <1>2, <1>3, <1>4 DEF ScreenIInv

(* An xterm is mounted: it takes what was buffered.                         *)
LEMMA KeepMountXterm == ASSUME ScreenIInv, Term!MountXterm PROVE ScreenIInv'
<1>1. /\ panelOpen /\ listed /\ ~xterm
      /\ xterm' = TRUE /\ screen' = buffer /\ buffer' = <<>>
      /\ UNCHANGED <<printed, pendingOut, onActive, wire, listed, panelOpen, overflowed,
                     views>>
  BY DEF Term!MountXterm
<1>2. ScreenFlags' /\ ScreenPlaces'
  BY <1>1, ScreenParts, Zenon DEF ScreenFlags, ScreenPlaces
<1>3. <<>> \in Seq(1 .. printed)
  OBVIOUS
<1>4. ScreenData'
  BY <1>1, <1>3, ScreenParts DEF ScreenData
<1>5. screen = <<>>
  BY <1>1, ScreenParts, Zenon DEF ScreenPlaces
<1>6. ASSUME DeliveredIn(wire, screen, buffer, overflowed, printed, pendingOut)
      PROVE  DeliveredIn(wire, buffer, <<>>, overflowed, printed, pendingOut)
  <2> SUFFICES ASSUME NEW c \in 1 .. (printed - pendingOut), c + MaxOutput > printed
               PROVE  OnTheWay(wire, c) \/ Held(wire, buffer, <<>>, overflowed, c)
    BY DEF DeliveredIn
  <2>1. OnTheWay(wire, c) \/ Held(wire, <<>>, buffer, overflowed, c)
    BY <1>5, <1>6 DEF DeliveredIn
  <2>2. ~Has(c, <<>>)
    BY DEF Has
  <2> QED BY <2>1, <2>2, Zenon DEF Held
<1>7. Delivered'
  BY <1>1, <1>6, ScreenParts DEF Delivered
<1> QED BY <1>2, <1>4, <1>7 DEF ScreenIInv

(* What the bridge is given it holds, or it has dropped output.             *)
LEMMA BridgeHolds ==
  ASSUME ScreenIInv, NEW d \in Seq(1 .. printed), Term!BridgeWrite(d), xterm' = xterm
  PROVE  /\ screen' \in Seq(1 .. printed) /\ buffer' \in Seq(1 .. printed)
         /\ overflowed' \in BOOLEAN
         /\ xterm => buffer' = <<>>
         /\ ~xterm => screen' = <<>>
         /\ \A c : \/ overflowed = TRUE \/ Has(c, screen) \/ Has(c, buffer) \/ Has(c, d)
                   => overflowed' = TRUE \/ Has(c, screen') \/ Has(c, buffer')
<1>1. /\ xterm => buffer = <<>>
      /\ ~xterm => screen = <<>>
      /\ overflowed \in BOOLEAN
  BY ScreenParts, Zenon DEF ScreenPlaces, ScreenFlags
<1>2. screen \in Seq(1 .. printed) /\ buffer \in Seq(1 .. printed)
  BY ScreenParts
<1>3. CASE xterm
  <2>1. screen' = screen \o d /\ buffer' = buffer /\ overflowed' = overflowed
    BY <1>3 DEF Term!BridgeWrite
  <2>2. /\ screen \o d \in Seq(1 .. printed)
        /\ \A c : Has(c, screen) \/ Has(c, d) => Has(c, screen \o d)
    BY <1>2, HasConcat
  <2> QED BY <1>1, <1>2, <1>3, <2>1, <2>2, Zenon
<1>4. CASE ~xterm /\ Len(buffer) + Len(d) > MaxOutput
  <2>1. buffer' = d /\ overflowed' = (overflowed \/ buffer # <<>>) /\ screen' = screen
    BY <1>4 DEF Term!BridgeWrite
  <2>2. \A c : Has(c, buffer) => buffer # <<>>
    BY DEF Has
  <2>3. \A c : Has(c, buffer) => overflowed' = TRUE
    BY <2>1, <2>2, Zenon
  <2>4. overflowed = TRUE => overflowed' = TRUE
    BY <2>1, Zenon
  <2>5. overflowed' \in BOOLEAN
    BY <2>1, <1>1, Zenon
  <2> QED BY <1>1, <1>2, <1>4, <2>1, <2>3, <2>4, <2>5, Zenon
<1>5. CASE ~xterm /\ ~(Len(buffer) + Len(d) > MaxOutput)
  <2>1. buffer' = buffer \o d /\ overflowed' = overflowed /\ screen' = screen
    BY <1>5 DEF Term!BridgeWrite
  <2>2. /\ buffer \o d \in Seq(1 .. printed)
        /\ \A c : Has(c, buffer) \/ Has(c, d) => Has(c, buffer \o d)
    BY <1>2, HasConcat
  <2> QED BY <1>1, <1>2, <1>5, <2>1, <2>2, Zenon
<1> QED BY <1>3, <1>4, <1>5

(* The tab handles a message.                                               *)
LEMMA KeepReceive == ASSUME ScreenIInv, Term!Receive PROVE ScreenIInv'
<1>1. /\ wire # <<>> /\ wire' = Tail(wire)
      /\ UNCHANGED <<printed, pendingOut, onActive, panelOpen, views>>
  BY DEF Term!Receive
<1>2. PICK m : m = Head(wire)
  OBVIOUS
<1>3. /\ m \in Msgs(printed) /\ wire' \in Seq(Msgs(printed))
      /\ ~Closes(wire, 1) => ~Closes(Tail(wire), 1) /\ m.type # "other"
      /\ \A c : OnTheWay(wire, c) =>
                  \/ OnTheWay(Tail(wire), c)
                  \/ m.type = "output" /\ Has(c, m.data) /\ ~Closes(wire, 1)
  BY <1>1, <1>2, ScreenParts, TailKeeps
<1>4. m.type \in {"list", "other", "output"} /\ m.data \in Seq(1 .. printed)
  BY <1>3 DEF Msgs
<1>5. CASE m.type = "list"
  <2>1. listed' = TRUE /\ UNCHANGED <<xterm, screen, buffer, overflowed>>
    BY <1>2, <1>5 DEF Term!Receive
  <2>2. ScreenFlags' /\ ScreenPlaces'
    BY <1>1, <2>1, ScreenParts, Zenon DEF ScreenFlags, ScreenPlaces
  <2>3. ScreenData'
    BY <1>1, <1>3, <2>1, ScreenParts DEF ScreenData
  <2>4. \A c : OnTheWay(wire, c) \/ Held(wire, screen, buffer, overflowed, c)
               => \/ OnTheWay(Tail(wire), c)
                  \/ Held(Tail(wire), screen, buffer, overflowed, c)
    BY <1>3, <1>5 DEF Held
  <2>5. ASSUME DeliveredIn(wire, screen, buffer, overflowed, printed, pendingOut)
        PROVE  DeliveredIn(Tail(wire), screen, buffer, overflowed, printed, pendingOut)
    BY <2>4, <2>5, Zenon DEF DeliveredIn
  <2>6. Delivered'
    BY <1>1, <2>1, <2>5, ScreenParts DEF Delivered
  <2> QED BY <2>2, <2>3, <2>6 DEF ScreenIInv
<1>6. CASE m.type = "other"
  <2>1. /\ listed' = FALSE /\ xterm' = FALSE /\ screen' = <<>>
        /\ buffer' = IF xterm THEN <<>> ELSE buffer
        /\ overflowed' = (overflowed /\ ~xterm)
    BY <1>2, <1>6 DEF Term!Receive
  <2>2. ScreenFlags' /\ ScreenPlaces'
    BY <1>1, <2>1, ScreenParts, Zenon DEF ScreenFlags, ScreenPlaces
  <2>3. screen' \in Seq(1 .. printed) /\ buffer' \in Seq(1 .. printed)
    <3>1. <<>> \in Seq(1 .. printed)
      OBVIOUS
    <3>2. buffer \in Seq(1 .. printed)
      BY ScreenParts
    <3> QED BY <2>1, <3>1, <3>2, Zenon
  <2>4. ScreenData'
    BY <1>1, <1>3, <2>3, ScreenParts DEF ScreenData
  <2>5. \A c, s, b, o : OnTheWay(wire, c) \/ Held(wire, s, b, o, c)
                        => OnTheWay(Tail(wire), c)
    BY <1>3, <1>6 DEF Held
  <2>6. ASSUME DeliveredIn(wire, screen, buffer, overflowed, printed, pendingOut),
               NEW s, NEW b, NEW o
        PROVE  DeliveredIn(Tail(wire), s, b, o, printed, pendingOut)
    BY <2>5, <2>6, Zenon DEF DeliveredIn
  <2>7. Delivered'
    BY <1>1, <2>6, ScreenParts DEF Delivered
  <2> QED BY <2>2, <2>4, <2>7 DEF ScreenIInv
<1>7. CASE m.type = "output"
  <2>1. Term!BridgeWrite(m.data) /\ UNCHANGED <<listed, xterm>>
    BY <1>2, <1>7 DEF Term!Receive
  <2>2. /\ screen' \in Seq(1 .. printed) /\ buffer' \in Seq(1 .. printed)
        /\ overflowed' \in BOOLEAN
        /\ xterm => buffer' = <<>>
        /\ ~xterm => screen' = <<>>
        /\ \A c : \/ overflowed = TRUE \/ Has(c, screen) \/ Has(c, buffer) \/ Has(c, m.data)
                  => overflowed' = TRUE \/ Has(c, screen') \/ Has(c, buffer')
    BY <1>4, <2>1, BridgeHolds
  <2>3. ScreenFlags' /\ ScreenPlaces'
    BY <1>1, <2>1, <2>2, ScreenParts, Zenon DEF ScreenFlags, ScreenPlaces
  <2>4. ScreenData'
    BY <1>1, <1>3, <2>2, ScreenParts DEF ScreenData
  <2>5. \A c : OnTheWay(wire, c) \/ Held(wire, screen, buffer, overflowed, c)
               => \/ OnTheWay(Tail(wire), c)
                  \/ Held(Tail(wire), screen', buffer', overflowed', c)
    BY <1>3, <2>2, Zenon DEF Held
  <2>6. ASSUME DeliveredIn(wire, screen, buffer, overflowed, printed, pendingOut)
        PROVE  DeliveredIn(Tail(wire), screen', buffer', overflowed', printed, pendingOut)
    BY <2>5, <2>6, Zenon DEF DeliveredIn
  <2>7. Delivered'
    BY <1>1, <2>6, ScreenParts DEF Delivered
  <2> QED BY <2>3, <2>4, <2>7 DEF ScreenIInv
<1> QED BY <1>4, <1>5, <1>6, <1>7

(* Every step of the screen.                                                *)
LEMMA ScreenStep == ScreenIInv /\ [Term!ScreenNext]_screenVars => ScreenIInv'
<1> SUFFICES ASSUME ScreenIInv, [Term!ScreenNext]_screenVars PROVE ScreenIInv'
  OBVIOUS
<1>1. CASE UNCHANGED screenVars
  BY <1>1 DEF screenVars, ScreenIInv, ScreenFlags, ScreenPlaces, ScreenData, Delivered
<1>2. CASE Term!ScreenNext
  BY <1>2, KeepPtyPrints, KeepFlushPending, KeepSwitchAway, KeepSwitchBack,
     KeepReconnect, KeepReceive, KeepOpenPanel, KeepMountXterm DEF Term!ScreenNext
<1> QED BY <1>1, <1>2

(* What the run checks of the screen follows from the invariant.            *)
LEMMA ScreenImplies ==
  ASSUME ScreenIInv
  PROVE  Term!ScreenTypeOK /\ Term!NothingMissing
<1> DEFINE N == 1 .. printed
<1>1. \A s : s \in Seq(N) => Term!ToSet(s) = {s[i] : i \in 1 .. Len(s)}
  BY LenProperties DEF Term!ToSet
<1>2. ASSUME NEW s \in Seq(N) PROVE Term!ToSet(s) \subseteq N
  <2>1. \A i \in 1 .. Len(s) : s[i] \in N
    BY ElementOfSeq
  <2> QED BY <1>1, <2>1
<1>3. Term!ScreenTypeOK
  <2>1. Term!ToSet(screen) \cup Term!ToSet(buffer) \subseteq 1 .. printed
    BY <1>2, ScreenParts
  <2>2. {onActive, listed, panelOpen, xterm, overflowed} \subseteq BOOLEAN
    BY ScreenParts, Zenon DEF ScreenFlags
  <2>3. xterm => listed /\ panelOpen /\ buffer = <<>>
    BY ScreenParts, Zenon DEF ScreenPlaces
  <2>4. printed \in 0 .. MaxPrinted /\ pendingOut \in 0 .. printed /\ views \in 0 .. MaxViews
    BY ScreenParts
  <2> QED BY <2>1, <2>2, <2>3, <2>4, Zenon DEF Term!ScreenTypeOK
<1>4. ASSUME Term!Settled, ~overflowed
      PROVE  Term!ToSet(Term!Retained) \subseteq Term!ToSet(screen)
  <2>1. wire = <<>> /\ pendingOut = 0 /\ onActive /\ xterm
    BY <1>4 DEF Term!Settled
  <2>2. buffer = <<>> /\ ~(overflowed = TRUE)
    BY <1>4, <2>1, ScreenParts, Zenon DEF ScreenPlaces
  <2>3. ASSUME NEW c \in 1 .. printed, c + MaxOutput > printed PROVE Has(c, screen)
    <3>1. OnTheWay(wire, c) \/ Held(wire, screen, buffer, overflowed, c)
      <4>1. c \in 1 .. (printed - pendingOut)
        BY <2>1, ScreenParts
      <4> QED BY <2>1, <2>3, <4>1, ScreenParts DEF DeliveredIn
    <3>2. ~OnTheWay(wire, c)
      BY <2>1 DEF OnTheWay
    <3>3. ~Has(c, buffer)
      BY <2>2 DEF Has
    <3> QED BY <2>2, <3>1, <3>2, <3>3, Zenon DEF Held
  <2>4. ASSUME NEW c \in Term!ToSet(Term!Retained)
        PROVE  c \in 1 .. printed /\ c + MaxOutput > printed
    <3>1. PICK n : n = IF printed > MaxOutput THEN printed + 1 - MaxOutput ELSE 1
      OBVIOUS
    <3>2. Term!Retained = [i \in 1 .. (printed + 1 - n) |-> n - 1 + i]
      BY <3>1 DEF Term!Retained, Term!Chunk
    <3>3. PICK i \in 1 .. (printed + 1 - n) : c = n - 1 + i
      BY <3>2 DEF Term!ToSet
    <3>4. printed \in Nat /\ MaxOutput \in Nat
      BY ScreenParts
    <3>5. n \in 1 .. (printed + 1) /\ n + MaxOutput > printed
      BY <3>1, <3>4
    <3> QED BY <3>3, <3>4, <3>5
  <2>5. \A c : Has(c, screen) => c \in Term!ToSet(screen)
    BY <1>1, ScreenParts DEF Has
  <2> QED BY <2>3, <2>4, <2>5
<1> QED BY <1>3, <1>4 DEF Term!NothingMissing

-----------------------------------------------------------------------------
(* Every process of a conversation is one a terminal shows, within the caps *)
(* and reminded of once, whatever exits, restarts, kills and late timers;   *)
(* and a calm terminal shows what the server retains, whatever switches,    *)
(* reconnects and late mounts came before.                                  *)
THEOREM TheTerminalsAreKept == Spec => []TerminalsKept
<1> DEFINE IInv == TermIInv /\ ScreenIInv
<1>1. Init => IInv
  BY TermInitially, ScreenInitially DEF Init
<1>2. [Next]_vars => [Term!TermNext]_termVars /\ [Term!ScreenNext]_screenVars
  BY DEF Next, Rest, vars, termVars, screenVars
<1>3. IInv /\ [Next]_vars => IInv'
  BY <1>2, TermStep, ScreenStep
<1>4. IInv => TerminalsKept
  BY TermImplies, ScreenImplies DEF TerminalsKept
<1> HIDE DEF IInv
<1> QED BY <1>1, <1>3, <1>4, PTL DEF Spec
=============================================================================
