------------------------------ MODULE Admission ------------------------------
(***************************************************************************)
(* PI_WEB_TOKEN: the server admits a request that carries its token in the *)
(* query or in the cookie, and keeps the cookie of the browser up to date: *)
(* a request with the right token refreshes it, one that is refused clears *)
(* it.  The page keeps the token it was entered with and adds it to its    *)
(* calls; a navigation and the assets of a page have the cookie alone.     *)
(* The server may be started again with another token.                     *)
(***************************************************************************)
EXTENDS Naturals, FiniteSets

CONSTANTS
  Token,           \* tokens
  Encodes,         \* the tokens that encodeURIComponent changes
  Escaped,         \* what such a token becomes: the text of none
  AllowedOrigins,  \* PI_WEB_ALLOW_ORIGINS
  PageOrigin,      \* where the page was loaded from: "own" or another origin
  MaxAdmissions    \* bound: what the user and the server do

VARIABLES
  token,       \* AUTH_TOKEN
  cookie,      \* the value of pi_web_token, or NoToken
  stored,      \* localStorage: the token the page was entered with
  requests,    \* on their way: [kind, query, cookie]
  responses,   \* on their way: [kind, query, ok, sets]; sets: a value, "clear" or "keep"
  connected,   \* the page holds a WebSocket
  entered,     \* history: "no", "asking" with the right token and nothing else under way, "yes"
  refused,     \* history: since then a navigation or an asset was refused
  presented,   \* history: the tokens the user typed
  admissions

admissionVars == <<token, cookie, stored, requests, responses, connected, entered, refused,
                   presented, admissions>>

NoToken == "none"
Values == Token \cup {Escaped}
Kinds == {"enter", "navigate", "asset", "health", "socket"}
AdmissionTypeOK ==
  /\ token \in Token /\ cookie \in Values \cup {NoToken} /\ stored \in Token \cup {NoToken}
  /\ \A r \in requests : r.kind \in Kinds /\ r.query \in Token \cup {NoToken}
                         /\ r.cookie \in Values \cup {NoToken}
  /\ \A a \in responses : a.kind \in Kinds /\ a.sets \in Values \cup {"clear", "keep"}
  /\ {connected, refused} \subseteq BOOLEAN /\ entered \in {"no", "asking", "yes"}
  /\ presented \subseteq Token
  /\ admissions \in 0 .. MaxAdmissions

AdmissionInit ==
  /\ token \in Token /\ cookie = NoToken /\ stored = NoToken /\ requests = {} /\ responses = {}
  /\ connected = FALSE /\ entered = "no" /\ refused = FALSE /\ presented = {} /\ admissions = 0

AdmissionStep == admissions < MaxAdmissions /\ admissions' = admissions + 1
Encoded(t) == IF t \in Encodes THEN Escaped ELSE t
Request(kind, query) == requests' = requests \cup {[kind |-> kind, query |-> query, cookie |-> cookie]}

-----------------------------------------------------------------------------
(* The user opens the page with ?token=, or without; the page is loaded     *)
(* with its assets; a probe asks for the health of the server.              *)
Enter(t) ==
  /\ AdmissionStep /\ Request("enter", t) /\ presented' = presented \cup {t}
  /\ entered' = IF t = token /\ requests = {} /\ responses = {} THEN "asking" ELSE "no"
  /\ refused' = FALSE
  /\ UNCHANGED <<token, cookie, stored, responses, connected>>
Crosses == entered' = IF entered = "yes" THEN "yes" ELSE "no"
Ask(kind) ==
  /\ AdmissionStep /\ kind \in {"navigate", "asset", "health"} /\ Request(kind, NoToken) /\ Crosses
  /\ UNCHANGED <<token, cookie, stored, responses, connected, refused, presented>>

(* withToken: the socket and the calls of the page carry the stored token.  *)
Connect ==
  /\ AdmissionStep /\ ~connected /\ Request("socket", stored) /\ Crosses
  /\ UNCHANGED <<token, cookie, stored, responses, connected, refused, presented>>

(* The server is started again, with this token or another.                 *)
Restart(t) ==
  /\ AdmissionStep /\ token' = t /\ connected' = FALSE
  /\ entered' = IF t = token THEN entered ELSE "no"
  /\ UNCHANGED <<cookie, stored, requests, responses, refused, presented>>

-----------------------------------------------------------------------------
TokenOk(r) == r.query = token \/ r.cookie = token
OriginAllowed(origin) == origin = "own" \/ origin \in AllowedOrigins

MutCookieAfter(r) ==
  IF (TokenOk(r) \/ r.kind = "health") /\ r.cookie # Encoded(token) THEN Encoded(token)
  ELSE IF ~TokenOk(r) /\ r.cookie # NoToken THEN "clear" ELSE "keep"
MutOnlyFirst(r) ==
  IF TokenOk(r) /\ r.cookie = NoToken THEN Encoded(token) ELSE "keep"
CookieAfter(r) ==
  CASE TokenOk(r) /\ r.cookie # Encoded(token) -> Encoded(token)
    [] ~TokenOk(r) /\ r.cookie # NoToken -> "clear"
    [] OTHER -> "keep"

(* The middleware; an upgrade is checked for its origin first and sets no   *)
(* cookie.                                                                  *)
Serve(r) ==
  /\ r \in requests /\ requests' = requests \ {r}
  /\ responses' = responses \cup
       {[kind |-> r.kind,
         ok |-> IF r.kind = "socket" THEN OriginAllowed(PageOrigin) /\ TokenOk(r)
                                     ELSE r.kind = "health" \/ TokenOk(r),
         sets |-> IF r.kind = "socket" THEN "keep" ELSE CookieAfter(r),
         query |-> r.query]}
  /\ UNCHANGED <<token, cookie, stored, connected, entered, refused, presented, admissions>>

(* The answer arrives: the browser keeps the cookie it sets; the page that  *)
(* was entered stores its token (initAuthToken).                            *)
Arrive(a) ==
  /\ a \in responses /\ responses' = responses \ {a}
  /\ cookie' = CASE a.sets = "clear" -> NoToken [] a.sets = "keep" -> cookie
                 [] OTHER -> a.sets
  /\ stored' = IF a.kind = "enter" /\ a.ok THEN a.query ELSE stored
  /\ connected' = (connected \/ (a.kind = "socket" /\ a.ok))
  /\ entered' = IF entered = "asking" /\ a.kind = "enter" /\ a.ok THEN "yes" ELSE entered
  /\ refused' = (refused \/ (entered = "yes" /\ a.kind # "health" /\ ~a.ok))
  /\ UNCHANGED <<token, requests, presented, admissions>>

AdmissionNext ==
  \/ \E t \in Token : Enter(t) \/ Restart(t)
  \/ \E kind \in Kinds : Ask(kind)
  \/ Connect
  \/ \E r \in requests : Serve(r)
  \/ \E a \in responses : Arrive(a)

-----------------------------------------------------------------------------
(* Who entered once with the token of the server needs it no more: no page, *)
(* asset or socket of the browser is refused until the token changes (issue *)
(* #71: the cookie of an earlier token is replaced by one right entry).     *)
OneEntryIsEnough == entered = "yes" => ~refused

(* The browser holds a cookie of a token only if its user has presented it: *)
(* the health check, open to all, hands out none (issue #45).               *)
CookieEarned == cookie # NoToken => \E t \in presented : cookie = Encoded(t)
=============================================================================
