---------------------------- MODULE Access_proofs ----------------------------
(* Theorems about Access, for every set of requests and every clock. *)
EXTENDS Access, TLAPS

\* What a request has with it, and where it has got.
RequestsOK ==
  \A r \in Request :
    LET q == requests[r]
    IN  /\ q.kind \in {"register", "login"} => q.text \in Text /\ q.password \in Password
        /\ q.phase \in {"handler", "written"} /\ q.kind \in KeyHandlers => q.user \in Request
        /\ q.bearer # None => q.bearer \in DOMAIN tokens
        /\ q.read <= now
        /\ q.phase # "answered" => q.answer = None
        /\ q.answer \in {"Created", "Ok", "Deleted", "InvalidCredentials", "Unauthorized", "Failed"}
             => q.phase = "answered"
        /\ q.kind = "delete_api_key" => q.key \in Request
        /\ q.answer = "Deleted" => q.kind = "delete_api_key"

\* A request that has read or written a user's row knows its address and password.
Knows(r) ==
  LET q == requests[r]
  IN  /\ q.user \in DOMAIN users
      /\ users[q.user].email = Normal(q.text)
      /\ users[q.user].password_hash = q.password
      /\ q.kind = "register" => q.user = r

UsersOK ==
  /\ \A u \in DOMAIN users : requests[u].phase \in {"written", "answered"}
  /\ \A u, v \in DOMAIN users : users[u].email = users[v].email => u = v
  /\ \A r \in Request :
       requests[r].phase = "written" /\ requests[r].kind \in {"register", "login"} => Knows(r)

TokensOK ==
  \A t \in DOMAIN tokens :
    /\ requests[t].phase = "answered" /\ requests[t].kind \in {"register", "login"}
    /\ Knows(t)
    /\ tokens[t].sub = requests[t].user
    /\ tokens[t].email = Normal(requests[t].text)
    /\ tokens[t].exp = tokens[t].iat + jwt_expiration_secs

\* Whoever is not ACTIVE was so when a row was read that a token rests on, and ceased
\* to be it no earlier.
Seen(u, read) == read <= now /\ (users[u].status # "ACTIVE" => users[u].since >= read)
StatusOK ==
  /\ \A r \in Request :
       requests[r].phase = "written" /\ requests[r].kind \in {"register", "login"}
         => Seen(requests[r].user, requests[r].read)
  /\ \A t \in DOMAIN tokens : Seen(tokens[t].sub, tokens[t].read)
  /\ \A u \in DOMAIN users : ~users[u].changed => users[u].status = "ACTIVE"

\* Registrations that were answered, as later logins find them.
RegisteredOK ==
  /\ \A r \in Request :
       requests[r].kind = "register" /\ requests[r].answer = "Created" => r \in DOMAIN tokens
  /\ \A r \in Request : \A g \in requests[r].known : requests[g].phase = "answered"

\* What a handler of keys does, it does for the bearer of the token.
BearersOK ==
  \A r \in Request :
    LET q == requests[r]
    IN  q.kind \in KeyHandlers /\ q.phase \in {"handler", "written", "answered"} /\ q.answer # "Unauthorized"
          => q.bearer \in DOMAIN tokens /\ q.user = tokens[q.bearer].sub

\* The statement of r was executed, as its handler knows.
Done(r) == requests[r].phase = "written" \/ requests[r].answer \in {"Created", "Deleted"}

Deleted(k) ==
  \E d \in Request : /\ Deletes(d, k) /\ requests[d].user = requests[k].user
                    /\ requests[d].phase \in {"written", "answered"}

\* A key is there from its INSERT to the one DELETE that finds it.
KeysOK ==
  /\ \A k \in DOMAIN keys : requests[k].phase \in {"written", "answered"}
  /\ \A k \in Request :
       requests[k].kind = "create_api_key" /\ Done(k) =>
         \/ k \in KeysOf(requests[k].user) /\ keys[k].permissions = Granted(requests[k].asked)
         \/ Deleted(k)
  /\ \A d, k \in Request :
       Deletes(d, k) /\ Done(d) => k \notin DOMAIN keys /\ requests[k].phase \in {"written", "answered"}
  /\ \A d, e, k \in Request : Deletes(d, k) /\ Done(d) /\ Deletes(e, k) /\ Done(e) => e = d

AccessOK == TypeOK /\ RequestsOK /\ UsersOK /\ TokensOK /\ StatusOK /\ RegisteredOK /\ BearersOK /\ KeysOK
-----------------------------------------------------------------------------
(* What each step does to the requests. *)

USE AccessAssumption, CredentialAssumption, KindAssumption

TypedRequests == requests \in [Request -> RequestState]

Others(r) == TypedRequests' /\ \A s \in Request \ {r} : requests'[s] = requests[s]

\* What was sent stays as it was.
Carried(z, q) ==
  /\ z.kind = q.kind /\ z.text = q.text /\ z.password = q.password
  /\ z.bearer = q.bearer /\ z.key = q.key /\ z.asked = q.asked /\ z.known = q.known

Becomes(r, phase, user, read, answer) ==
  /\ Others(r) /\ Carried(requests'[r], requests[r])
  /\ requests'[r].phase = phase /\ requests'[r].user = user
  /\ requests'[r].read = read /\ requests'[r].answer = answer

Forgets(r) ==
  /\ Others(r)
  /\ requests'[r].phase = "answered" /\ requests'[r].kind = None /\ requests'[r].bearer = None
  /\ requests'[r].known = {} /\ requests'[r].read = 0 /\ requests'[r].answer \in {"Failed", "Ok"}

\* A request that is sent: its bearer and what it knows are of now.
Sends(r) ==
  /\ Others(r)
  /\ requests[r].phase = "unsent"
  /\ LET q == requests'[r]
     IN  /\ q.phase = "gateway" /\ q.answer = None /\ q.read = 0 /\ q.known \subseteq Answered
         /\ q.bearer # None => q.bearer \in DOMAIN tokens
         /\ q.kind \in {"register", "login"} => q.text \in Text /\ q.password \in Password
         /\ q.kind = "delete_api_key" => q.key \in DOMAIN keys

LEMMA UnsentTyped == Unsent \in RequestState
  BY DEF Unsent, RequestState, Phase, NoText, Answer, Time

LEMMA Put ==
  ASSUME TypedRequests, NEW r \in Request, NEW q \in RequestState,
         requests' = [requests EXCEPT ![r] = q]
  PROVE  Others(r) /\ requests'[r] = q
  BY DEF TypedRequests, Others

LEMMA SendDoes ==
  ASSUME TypeOK, NEW r \in Request, Send(r)
  PROVE  Sends(r) /\ UNCHANGED <<now, users, keys, tokens, changes>>
<1> DEFINE Goal == Sends(r) /\ UNCHANGED <<now, users, keys, tokens, changes>>
<1>0. TypedRequests
  BY DEF TypeOK, TypedRequests
<1>1. ASSUME NEW kind \in Kind \cap {"register", "login"}, NEW credential \in Credential,
             SendCredentials(r, kind, credential[1], credential[2])
      PROVE  Goal
  <2> DEFINE known == IF kind = "login" THEN Answered ELSE {}
             q == [Unsent EXCEPT !.phase = "gateway", !.kind = kind, !.text = credential[1],
                         !.password = credential[2],
                         !.known = known]
  <2>0. known \subseteq Answered /\ Answered \subseteq Request
    BY DEF Answered
  <2> HIDE DEF known
  <2>1. q \in RequestState
    BY <2>0, UnsentTyped DEF RequestState, Phase, Answer, Time
  <2>2. requests' = [requests EXCEPT ![r] = q]
    BY <1>1 DEF SendCredentials, Sent, known
  <2>3. Others(r) /\ requests'[r] = q
    BY <1>0, <2>1, <2>2, Put
  <2>4. /\ q.phase = "gateway" /\ q.answer = None /\ q.read = 0 /\ q.bearer = None
        /\ q.known \subseteq Answered /\ q.text \in Text /\ q.password \in Password
        /\ q.kind # "delete_api_key"
    BY <2>0 DEF Unsent
  <2> HIDE DEF q
  <2> QED
    BY <1>1, <2>3, <2>4 DEF Sends, SendCredentials, Sent, rows
<1>2. ASSUME NEW kind \in Kind \cap ({"me", "list_api_keys", "place_order", "get_depth"} \cup NoHandler),
             NEW bearer \in DOMAIN tokens \cup {None}, SendRequest(r, kind, bearer)
      PROVE  Goal
  <2> DEFINE known == IF kind = "list_api_keys" THEN Answered ELSE {}
             q == [Unsent EXCEPT !.phase = "gateway", !.kind = kind, !.bearer = bearer,
                            !.known = known]
  <2>0. known \subseteq Answered /\ Answered \subseteq Request
    BY DEF Answered
  <2> HIDE DEF known
  <2>k. kind \in Handlers \cup NoHandler
    BY DEF Handlers
  <2>1. q \in RequestState
    BY <2>0, <2>k, UnsentTyped DEF RequestState, Phase, Answer, Time, TypeOK
  <2>2. requests' = [requests EXCEPT ![r] = q]
    BY <1>2 DEF SendRequest, Sent, known
  <2>3. Others(r) /\ requests'[r] = q
    BY <1>0, <2>1, <2>2, Put
  <2>4. /\ q.phase = "gateway" /\ q.answer = None /\ q.read = 0 /\ q.bearer = bearer
        /\ q.known \subseteq Answered /\ q.kind \notin {"register", "login", "delete_api_key"}
    BY <2>0 DEF Unsent, NoHandler
  <2> HIDE DEF q
  <2> QED
    BY <1>2, <2>3, <2>4 DEF Sends, SendRequest, Sent, rows
<1>3. ASSUME NEW bearer \in DOMAIN tokens, NEW asked \in Asked, SendCreate(r, bearer, asked)
      PROVE  Goal
  <2> DEFINE q == [Unsent EXCEPT !.phase = "gateway", !.kind = "create_api_key",
                         !.bearer = bearer, !.asked = asked]
  <2>1. q \in RequestState
    BY UnsentTyped DEF RequestState, Phase, NoText, Answer, Time, Handlers, KeyHandlers, TypeOK
  <2>2. requests' = [requests EXCEPT ![r] = q]
    BY <1>3 DEF SendCreate, Sent
  <2>3. Others(r) /\ requests'[r] = q
    BY <1>0, <2>1, <2>2, Put
  <2>4. /\ q.phase = "gateway" /\ q.answer = None /\ q.read = 0 /\ q.bearer = bearer
        /\ q.known = {} /\ q.kind = "create_api_key"
    BY DEF Unsent
  <2> HIDE DEF q
  <2> QED
    BY <1>3, <2>3, <2>4 DEF Sends, SendCreate, Sent, rows
<1>4. ASSUME NEW bearer \in DOMAIN tokens, NEW key \in DOMAIN keys, SendDelete(r, bearer, key)
      PROVE  Goal
  <2> DEFINE q == [Unsent EXCEPT !.phase = "gateway", !.kind = "delete_api_key",
                         !.bearer = bearer, !.key = key]
  <2>1. q \in RequestState
    BY UnsentTyped DEF RequestState, Phase, NoText, Answer, Time, Handlers, KeyHandlers, TypeOK
  <2>2. requests' = [requests EXCEPT ![r] = q]
    BY <1>4 DEF SendDelete, Sent
  <2>3. Others(r) /\ requests'[r] = q
    BY <1>0, <2>1, <2>2, Put
  <2>4. /\ q.phase = "gateway" /\ q.answer = None /\ q.read = 0 /\ q.bearer = bearer
        /\ q.known = {} /\ q.kind = "delete_api_key" /\ q.key = key
    BY DEF Unsent
  <2> HIDE DEF q
  <2> QED
    BY <1>4, <2>3, <2>4 DEF Sends, SendDelete, Sent, rows
<1> QED
  BY <1>1, <1>2, <1>3, <1>4 DEF Send

LEMMA PhaseMoves ==
  ASSUME TypedRequests, NEW r \in Request, NEW p \in Phase,
         requests' = [requests EXCEPT ![r].phase = p]
  PROVE  Becomes(r, p, requests[r].user, requests[r].read, requests[r].answer)
<1> DEFINE q == requests[r]
           z == [q EXCEPT !.phase = p]
<1>1. q \in RequestState
  BY DEF TypedRequests
<1>2. z \in RequestState
  BY <1>1 DEF RequestState
<1>3. Others(r) /\ requests'[r] = z
  <2>1. requests' = [requests EXCEPT ![r] = z]
    OBVIOUS
  <2> QED
    BY <1>2, <2>1, Put
<1>4. /\ Carried(z, q)
      /\ z.phase = p /\ z.user = q.user /\ z.read = q.read /\ z.answer = q.answer
  BY <1>1 DEF RequestState, Carried
<1> HIDE DEF z
<1> QED
  BY <1>3, <1>4 DEF Becomes

LEMMA PhaseEnds ==
  ASSUME TypedRequests, NEW r \in Request, NEW a \in Answer,
         requests' = [requests EXCEPT ![r].phase = "answered", ![r].answer = a]
  PROVE  Becomes(r, "answered", requests[r].user, requests[r].read, a)
<1> DEFINE q == requests[r]
           z == [q EXCEPT !.phase = "answered", !.answer = a]
<1>1. q \in RequestState
  BY DEF TypedRequests
<1>2. z \in RequestState
  BY <1>1 DEF RequestState, Phase
<1>3. Others(r) /\ requests'[r] = z
  <2>1. requests' = [requests EXCEPT ![r] = z]
    OBVIOUS
  <2> QED
    BY <1>2, <2>1, Put
<1>4. /\ Carried(z, q)
      /\ z.phase = "answered" /\ z.user = q.user /\ z.read = q.read /\ z.answer = a
  BY <1>1 DEF RequestState, Carried
<1> HIDE DEF z
<1> QED
  BY <1>3, <1>4 DEF Becomes

LEMMA UserMoves ==
  ASSUME TypedRequests, NEW r \in Request, NEW u \in Request \cup {None},
         requests' = [requests EXCEPT ![r].phase = "handler", ![r].user = u]
  PROVE  Becomes(r, "handler", u, requests[r].read, requests[r].answer)
<1> DEFINE q == requests[r]
           z == [q EXCEPT !.phase = "handler", !.user = u]
<1>1. q \in RequestState
  BY DEF TypedRequests
<1>2. z \in RequestState
  BY <1>1 DEF RequestState, Phase
<1>3. Others(r) /\ requests'[r] = z
  <2>1. requests' = [requests EXCEPT ![r] = z]
    OBVIOUS
  <2> QED
    BY <1>2, <2>1, Put
<1>4. /\ Carried(z, q)
      /\ z.phase = "handler" /\ z.user = u /\ z.read = q.read /\ z.answer = q.answer
  BY <1>1 DEF RequestState, Carried
<1> HIDE DEF z
<1> QED
  BY <1>3, <1>4 DEF Becomes

LEMMA RowMoves ==
  ASSUME TypedRequests, NEW r \in Request, NEW u \in Request, NEW t \in Time,
         requests' = [requests EXCEPT ![r].phase = "written", ![r].user = u, ![r].read = t]
  PROVE  Becomes(r, "written", u, t, requests[r].answer)
<1> DEFINE q == requests[r]
           z == [q EXCEPT !.phase = "written", !.user = u, !.read = t]
<1>1. q \in RequestState
  BY DEF TypedRequests
<1>2. z \in RequestState
  BY <1>1 DEF RequestState, Phase
<1>3. Others(r) /\ requests'[r] = z
  <2>1. requests' = [requests EXCEPT ![r] = z]
    OBVIOUS
  <2> QED
    BY <1>2, <2>1, Put
<1>4. /\ Carried(z, q)
      /\ z.phase = "written" /\ z.user = u /\ z.read = t /\ z.answer = q.answer
  BY <1>1 DEF RequestState, Carried
<1> HIDE DEF z
<1> QED
  BY <1>3, <1>4 DEF Becomes

LEMMA TokenMoves ==
  ASSUME TypedRequests, NEW r \in Request, NEW a \in Answer,
         requests' = [requests EXCEPT ![r].phase = "answered", ![r].read = 0, ![r].answer = a]
  PROVE  Becomes(r, "answered", requests[r].user, 0, a)
<1> DEFINE q == requests[r]
           z == [q EXCEPT !.phase = "answered", !.read = 0, !.answer = a]
<1>1. q \in RequestState
  BY DEF TypedRequests
<1>2. z \in RequestState
  <2>1. 0 \in Time
    BY DEF Time
  <2> QED
    BY <1>1, <2>1 DEF RequestState, Phase
<1>3. Others(r) /\ requests'[r] = z
  <2>1. requests' = [requests EXCEPT ![r] = z]
    OBVIOUS
  <2> QED
    BY <1>2, <2>1, Put
<1>4. /\ Carried(z, q)
      /\ z.phase = "answered" /\ z.user = q.user /\ z.read = 0 /\ z.answer = a
  BY <1>1 DEF RequestState, Carried
<1> HIDE DEF z
<1> QED
  BY <1>3, <1>4 DEF Becomes

LEMMA ListMoves ==
  ASSUME TypedRequests, NEW r \in Request, NEW l \in SUBSET Request,
         requests' = [requests EXCEPT ![r].phase = "written", ![r].listed = l]
  PROVE  Becomes(r, "written", requests[r].user, requests[r].read, requests[r].answer)
<1> DEFINE q == requests[r]
           z == [q EXCEPT !.phase = "written", !.listed = l]
<1>1. q \in RequestState
  BY DEF TypedRequests
<1>2. z \in RequestState
  BY <1>1 DEF RequestState, Phase
<1>3. Others(r) /\ requests'[r] = z
  <2>1. requests' = [requests EXCEPT ![r] = z]
    OBVIOUS
  <2> QED
    BY <1>2, <2>1, Put
<1>4. /\ Carried(z, q)
      /\ z.phase = "written" /\ z.user = q.user /\ z.read = q.read /\ z.answer = q.answer
  BY <1>1 DEF RequestState, Carried
<1> HIDE DEF z
<1> QED
  BY <1>3, <1>4 DEF Becomes

LEMMA Drops ==
  ASSUME TypedRequests, NEW r \in Request, NEW a \in {"Failed", "Ok"}, Dropped(r, a)
  PROVE  Forgets(r)
<1> DEFINE z == [Unsent EXCEPT !.phase = "answered", !.answer = a]
<1>1. z \in RequestState
  BY UnsentTyped DEF RequestState, Phase, Answer
<1>2. Others(r) /\ requests'[r] = z
  BY <1>1, Put DEF Dropped
<1>3. /\ z.phase = "answered" /\ z.kind = None /\ z.bearer = None
      /\ z.known = {} /\ z.read = 0 /\ z.answer \in {"Failed", "Ok"}
  BY DEF Unsent
<1> HIDE DEF z
<1> QED
  BY <1>2, <1>3 DEF Forgets

-----------------------------------------------------------------------------
(* The steps that write neither a row nor a token. *)

Still == UNCHANGED <<now, users, keys, tokens, changes>>

Same(r, phase) == Becomes(r, phase, requests[r].user, requests[r].read, requests[r].answer)
Answers(r, answer) == Becomes(r, "answered", requests[r].user, requests[r].read, answer)

Passes(r) ==
  /\ requests[r].phase = "gateway" /\ Same(r, "service")
  /\ RouteOf(requests[r].kind) \in GatewayPublic \/ Valid(requests[r].bearer)

Enters(r) ==
  /\ requests[r].phase = "service"
  /\ \E u \in Request \cup {None} :
       /\ Becomes(r, "handler", u, requests[r].read, requests[r].answer)
       /\ requests[r].kind \in KeyHandlers =>
            requests[r].bearer \in DOMAIN tokens /\ u = tokens[requests[r].bearer].sub
  /\ OpenAtService(requests[r].kind) \/ Valid(requests[r].bearer)

Works(r) ==
  /\ requests[r].phase = "handler"
  /\ requests[r].kind \notin {"register", "login", "create_api_key", "delete_api_key"}
  /\ Same(r, "written")

Refuses(r) ==
  /\ \/ requests[r].phase \in {"gateway", "service", "handler"}
     \/ requests[r].phase = "written" /\ requests[r].kind \notin KeyHandlers
  /\ Forgets(r)

Turns(r) ==
  \/ /\ requests[r].phase = "service" /\ Answers(r, "Unauthorized")
     /\ ~OpenAtService(requests[r].kind) /\ ~Valid(requests[r].bearer)
  \/ /\ requests[r].phase = "handler" /\ requests[r].kind = "login"
     /\ Answers(r, "InvalidCredentials")
     /\ \A u \in DOMAIN users : ~MayLogIn(r, u)

Replies(r) ==
  /\ requests[r].phase = "written" /\ requests[r].kind \in KeyHandlers
  /\ \E a \in {"Created", "Deleted", "Ok", "Failed"} :
       /\ Answers(r, a)
       /\ a = "Created" <=> requests[r].kind = "create_api_key" /\ a # "Failed"
       /\ a = "Deleted" <=> requests[r].kind = "delete_api_key" /\ a # "Failed"

Quietly(r) == Still /\ (Passes(r) \/ Enters(r) \/ Works(r) \/ Refuses(r) \/ Turns(r) \/ Replies(r))

\* The routes of keys are open nowhere.
LEMMA KeysAreClosed == \A kind \in KeyHandlers : ~OpenAtService(kind)
<1> TAKE kind \in KeyHandlers
<1>1. RouteOf(kind) = "auth/api-keys"
  BY DEF RouteOf, KeyHandlers
<1>2. ServiceOf("auth/api-keys") = "auth"
  <2>1. DOMAIN Proxied = {"auth", "order", "wallet", "market_data"}
    BY DEF Proxied
  <2>2. \A s \in DOMAIN Proxied : "auth/api-keys" \in Proxied[s] <=> s = "auth"
    BY <2>1 DEF Proxied
  <2> QED
    BY <2>1, <2>2 DEF ServiceOf
<1>3. \A method : ~OpenAt("auth", "auth/api-keys", method)
  BY DEF OpenAt, AuthPublic
<1> QED
  BY <1>1, <1>2, <1>3 DEF OpenAtService

LEMMA CheckDoes ==
  ASSUME TypeOK, RequestsOK, NEW r \in Request, Check(r)
  PROVE  Quietly(r)
<1>0. TypedRequests /\ requests[r] \in RequestState
  BY DEF TypeOK, TypedRequests
<1>1. CASE PassGateway(r)
  <2>1. /\ Moved(r, "service") /\ Still /\ requests[r].phase = "gateway"
        /\ RouteOf(requests[r].kind) \in GatewayPublic \/ Valid(requests[r].bearer)
    BY <1>1 DEF PassGateway, Still, rows
  <2> QED
    BY <1>0, <2>1, PhaseMoves DEF Moved, Phase, Quietly, Passes, Same
<1>2. CASE RefuseAtGateway(r) \/ Throttle(r)
  BY <1>0, <1>2, Drops DEF RefuseAtGateway, Throttle, Quietly, Refuses, Still, rows
<1>3. CASE PassService(r)
  <2> DEFINE u == IF OpenAtService(requests[r].kind) THEN None ELSE tokens[requests[r].bearer].sub
  <2>1. /\ requests' = [requests EXCEPT ![r].phase = "handler", ![r].user = u]
        /\ Still /\ requests[r].phase = "service"
        /\ OpenAtService(requests[r].kind) \/ Valid(requests[r].bearer)
    BY <1>3 DEF PassService, Still, rows
  <2>2. ~OpenAtService(requests[r].kind) =>
          requests[r].bearer \in DOMAIN tokens /\ u = tokens[requests[r].bearer].sub
    BY <2>1 DEF RequestsOK, Valid
  <2>3. u \in Request \cup {None}
    BY <2>2 DEF TypeOK, Claims
  <2> HIDE DEF u
  <2>4. Becomes(r, "handler", u, requests[r].read, requests[r].answer)
    BY <1>0, <2>1, <2>3, UserMoves
  <2> QED
    BY <2>1, <2>2, <2>3, <2>4, KeysAreClosed DEF Quietly, Enters
<1>4. CASE RefuseAtService(r)
  <2>1. /\ Ended(r, "Unauthorized") /\ Still /\ requests[r].phase = "service"
        /\ ~OpenAtService(requests[r].kind) /\ ~Valid(requests[r].bearer)
    BY <1>4 DEF RefuseAtService, Still, rows
  <2> QED
    BY <1>0, <2>1, PhaseEnds DEF Ended, Answer, Quietly, Turns, Answers
<1> QED
  BY <1>1, <1>2, <1>3, <1>4 DEF Check

LEMMA FailDoes ==
  ASSUME TypeOK, NEW r \in Request, Fail(r)
  PROVE  Quietly(r)
<1>0. TypedRequests /\ requests[r] \in RequestState
  BY DEF TypeOK, TypedRequests
<1>1. CASE requests[r].phase = "written" /\ requests[r].kind \in KeyHandlers
  <2>1. Ended(r, "Failed") /\ Still
    BY <1>1 DEF Fail, KeyHandlers, Still, rows
  <2> QED
    BY <1>0, <1>1, <2>1, PhaseEnds DEF Ended, Answer, Quietly, Replies, Answers
<1>2. CASE ~(requests[r].phase = "written" /\ requests[r].kind \in KeyHandlers)
  <2>1. Forgets(r) /\ Still /\ requests[r].phase \notin {"unsent", "answered"}
    BY <1>0, <1>2, Drops DEF Fail, InFlight, Still, rows
  <2>2. requests[r].phase \in Phase
    BY <1>0 DEF RequestState
  <2> QED
    BY <1>2, <2>1, <2>2 DEF Phase, Quietly, Refuses
<1> QED
  BY <1>1, <1>2

\* The steps of handlers that write a row or a token have lemmas of their own below.
Writes(r) ==
  InsertUser(r) \/ SelectUser(r) \/ IssueToken(r) \/ InsertKey(r) \/ DeleteKey(r)

LEMMA HandleDoes ==
  ASSUME TypeOK, NEW r \in Request, Handle(r), ~Writes(r)
  PROVE  Quietly(r)
<1>0. TypedRequests /\ requests[r] \in RequestState
  BY DEF TypeOK, TypedRequests
<1>1. CASE RefuseCredentials(r) \/ EmailTaken(r) \/ RefusePermission(r) \/ KeyNotFound(r)
  <2>1. requests[r].phase = "handler" /\ Dropped(r, "Failed") /\ Still
    BY <1>1 DEF RefuseCredentials, EmailTaken, RefusePermission, KeyNotFound, Calls, Still, rows
  <2> QED
    BY <1>0, <2>1, Drops DEF Quietly, Refuses
<1>2. CASE RefuseLogin(r)
  <2>1. /\ Ended(r, "InvalidCredentials") /\ Still /\ requests[r].phase = "handler"
        /\ requests[r].kind = "login" /\ \A u \in DOMAIN users : ~MayLogIn(r, u)
    BY <1>2 DEF RefuseLogin, Calls, Still, rows
  <2> QED
    BY <1>0, <2>1, PhaseEnds DEF Ended, Answer, Quietly, Turns, Answers
<1>3. CASE ListKeys(r)
  <2>1. /\ requests' = [requests EXCEPT ![r].phase = "written", ![r].listed = KeysOf(requests[r].user)]
        /\ Still /\ requests[r].phase = "handler" /\ requests[r].kind = "list_api_keys"
    BY <1>3 DEF ListKeys, Calls, Still, rows
  <2>2. KeysOf(requests[r].user) \in SUBSET Request
    BY DEF KeysOf, TypeOK
  <2> QED
    BY <1>0, <2>1, <2>2, ListMoves DEF Quietly, Works, Same
<1>4. CASE Serve(r)
  <2>1. /\ Moved(r, "written") /\ Still /\ requests[r].phase = "handler"
        /\ requests[r].kind \in {"me", "place_order", "get_depth"}
    BY <1>4 DEF Serve, Still, rows
  <2> QED
    BY <1>0, <2>1, PhaseMoves DEF Moved, Phase, Quietly, Works, Same
<1>5. CASE Reply(r)
  <2>1. requests[r].phase = "written" /\ requests[r].kind \notin {"register", "login"} /\ Still
    BY <1>5 DEF Reply, Still, rows
  <2>2. CASE requests[r].kind \in KeyHandlers
    <3>1. \E a \in {"Created", "Deleted", "Ok"} :
            /\ Ended(r, a)
            /\ a = "Created" <=> requests[r].kind = "create_api_key"
            /\ a = "Deleted" <=> requests[r].kind = "delete_api_key"
      BY <1>5, <2>2 DEF Reply, KeyHandlers
    <3> QED
      BY <1>0, <2>1, <2>2, <3>1, PhaseEnds DEF Ended, Answer, Quietly, Replies, Answers
  <2>3. CASE requests[r].kind \notin KeyHandlers
    <3>1. Dropped(r, "Ok")
      BY <1>5, <2>3 DEF Reply, KeyHandlers
    <3> QED
      BY <1>0, <2>1, <2>3, <3>1, Drops DEF Quietly, Refuses
  <2> QED
    BY <2>2, <2>3
<1>6. CASE NotFound(r)
  <2>1. requests[r].phase = "handler" /\ Dropped(r, "Failed") /\ Still
    BY <1>6 DEF NotFound, Still, rows
  <2> QED
    BY <1>0, <2>1, Drops DEF Quietly, Refuses
<1> QED
  BY <1>1, <1>2, <1>3, <1>4, <1>5, <1>6 DEF Handle, Writes

\* What the others do to the request.
LEMMA WriteDoes ==
  ASSUME TypeOK, UsersOK, RequestsOK, NEW r \in Request
  PROVE  /\ InsertUser(r) => Becomes(r, "written", r, now, requests[r].answer)
         /\ SelectUser(r) => \E u \in DOMAIN users :
              MayLogIn(r, u) /\ Becomes(r, "written", u, now, requests[r].answer)
         /\ IssueToken(r) =>
              \E a \in {"Created", "Ok"} : Becomes(r, "answered", requests[r].user, 0, a)
         /\ InsertKey(r) \/ DeleteKey(r) => Same(r, "written")
<1>0. TypedRequests /\ now \in Time
  BY DEF TypeOK, TypedRequests
<1>1. ASSUME InsertUser(r) PROVE Becomes(r, "written", r, now, requests[r].answer)
  BY <1>0, <1>1, RowMoves DEF InsertUser
<1>2. ASSUME SelectUser(r)
      PROVE  \E u \in DOMAIN users : MayLogIn(r, u) /\ Becomes(r, "written", u, now, requests[r].answer)
  BY <1>0, <1>2, RowMoves DEF SelectUser, TypeOK
<1>3. ASSUME IssueToken(r)
      PROVE  \E a \in {"Created", "Ok"} : Becomes(r, "answered", requests[r].user, 0, a)
  <2> DEFINE a == IF requests[r].kind = "register" THEN "Created" ELSE "Ok"
  <2>1. requests' = [requests EXCEPT ![r].phase = "answered", ![r].read = 0, ![r].answer = a]
    BY <1>3 DEF IssueToken
  <2>2. a \in Answer /\ a \in {"Created", "Ok"}
    BY DEF Answer
  <2> HIDE DEF a
  <2> QED
    BY <1>0, <2>1, <2>2, TokenMoves
<1>4. ASSUME InsertKey(r) \/ DeleteKey(r) PROVE Same(r, "written")
  BY <1>0, <1>4, PhaseMoves DEF InsertKey, DeleteKey, Moved, Phase, Same
<1> QED
  BY <1>1, <1>2, <1>3, <1>4

-----------------------------------------------------------------------------
(* The invariant at the start, and after a request is sent. *)

LEMMA InitOK == Init => AccessOK
<1> SUFFICES ASSUME Init PROVE AccessOK
  OBVIOUS
<1>1. \A r \in Request : requests[r] = Unsent
  BY DEF Init
<1>2. DOMAIN users = {} /\ DOMAIN keys = {} /\ DOMAIN tokens = {} /\ now = 0
  BY DEF Init
<1>3. TypeOK
  <2>1. /\ requests \in [Request -> RequestState]
        /\ now \in Time /\ changes \in 0 .. MaxChanges
    BY UnsentTyped DEF Init, Time
  <2>2. users \in [DOMAIN users -> User] /\ keys \in [DOMAIN keys -> ApiKey] /\ tokens \in [DOMAIN tokens -> Claims]
    BY DEF Init
  <2> QED
    BY <1>2, <2>1, <2>2 DEF TypeOK
<1>4. /\ Unsent.phase = "unsent" /\ Unsent.kind = None /\ Unsent.bearer = None
      /\ Unsent.read = 0 /\ Unsent.known = {} /\ Unsent.answer = None
  BY DEF Unsent
<1>5. RequestsOK
  BY <1>1, <1>2, <1>4 DEF RequestsOK, None, KeyHandlers
<1>6. UsersOK /\ TokensOK /\ StatusOK
  BY <1>1, <1>2, <1>4 DEF UsersOK, TokensOK, StatusOK
<1>7. RegisteredOK /\ BearersOK /\ KeysOK
  BY <1>1, <1>2, <1>4 DEF RegisteredOK, BearersOK, KeysOK, Done, Deletes, None, KeyHandlers
<1> QED
  BY <1>3, <1>5, <1>6, <1>7 DEF AccessOK

LEMMA SendKeeps ==
  ASSUME AccessOK, NEW r \in Request, Sends(r), Still
  PROVE  AccessOK'
<1> USE DEF Still
<1>1. TypeOK'
  BY DEF AccessOK, TypeOK, Sends, Others, TypedRequests
<1>2. /\ TypeOK /\ RequestsOK /\ UsersOK /\ TokensOK /\ StatusOK /\ RegisteredOK /\ BearersOK /\ KeysOK
      /\ requests[r].phase = "unsent" /\ \A s \in Request \ {r} : requests'[s] = requests[s]
      /\ requests'[r].phase = "gateway" /\ requests'[r].answer = None /\ requests'[r].read = 0
      /\ requests'[r].known \subseteq Answered
      /\ requests'[r].bearer # None => requests'[r].bearer \in DOMAIN tokens
      /\ requests'[r].kind \in {"register", "login"} => requests'[r].text \in Text /\ requests'[r].password \in Password
      /\ requests'[r].kind = "delete_api_key" => requests'[r].key \in DOMAIN keys
  BY DEF AccessOK, Sends, Others
<1>3. /\ now \in Nat /\ DOMAIN users \subseteq Request /\ DOMAIN tokens \subseteq Request /\ DOMAIN keys \subseteq Request
      /\ \A s \in Request : requests[s].known \subseteq Request
  BY <1>2 DEF TypeOK, Time, RequestState
<1>4. RequestsOK'
  BY <1>2, <1>3 DEF RequestsOK, None
<1>5. UsersOK'
  BY <1>2, <1>3 DEF UsersOK, Knows
<1>6. TokensOK'
  BY <1>2, <1>3 DEF TokensOK, Knows
<1>7. StatusOK'
  BY <1>2, <1>3 DEF StatusOK, Seen
<1>8. RegisteredOK'
  BY <1>2, <1>3 DEF RegisteredOK, Answered, None
<1>9. BearersOK'
  BY <1>2, <1>3 DEF BearersOK
<1>10. KeysOK'
  <2>1. /\ ~Done(r)' /\ r \notin DOMAIN keys
        /\ \A s \in Request \ {r} : Done(s)' = Done(s) /\ requests'[s] = requests[s]
    BY <1>2 DEF Done, None, KeysOK
  <2> QED
    BY <1>2, <1>3, <2>1 DEF KeysOK, Deletes, Deleted, KeysOf
<1> QED
  BY <1>1, <1>4, <1>5, <1>6, <1>7, <1>8, <1>9, <1>10 DEF AccessOK
-----------------------------------------------------------------------------
(* After a step that writes neither a row nor a token. *)

\* What such a step leaves of a request.
LEMMA QuietlyLeaves ==
  ASSUME AccessOK, NEW r \in Request, Quietly(r)
  PROVE  LET q == requests[r]
             z == requests'[r]
         IN  /\ q.phase \in {"gateway", "service", "handler", "written"} /\ q.answer = None
             /\ z.phase \in {"service", "handler", "written", "answered"}
             /\ z.phase = "written" => z.kind \notin {"register", "login"}
             /\ q.phase = "written" => z.phase = "answered"
             /\ z.read \in {0, q.read}
             /\ z.answer = "Created" => z.kind = "create_api_key"
             /\ z.answer = "Deleted" => z.kind = "delete_api_key"
             /\ z.answer # None => z.phase = "answered"
             /\ \/ Carried(z, q)
                \/ z.kind = None /\ z.bearer = None /\ z.known = {}
             /\ z.kind \in KeyHandlers /\ z.phase \in {"handler", "written", "answered"} /\ z.answer # "Unauthorized"
                  => z.bearer \in DOMAIN tokens /\ z.user = tokens[z.bearer].sub
             /\ z.kind \in {"create_api_key", "delete_api_key"} /\ Done(r)' => Done(r)
             /\ q.phase = "written" /\ q.kind \in KeyHandlers => Carried(z, q) /\ z.user = q.user
<1> DEFINE q == requests[r]
           z == requests'[r]
<1>1. /\ q.phase # "answered" => q.answer = None
      /\ q.kind \in KeyHandlers /\ q.phase \in {"handler", "written", "answered"} /\ q.answer # "Unauthorized"
          => q.bearer \in DOMAIN tokens /\ q.user = tokens[q.bearer].sub
  BY DEF AccessOK, RequestsOK, BearersOK
<1>2. CASE Passes(r)
  BY <1>1, <1>2 DEF Passes, Same, Becomes, Carried, Done, None
<1>3. CASE Enters(r)
  BY <1>1, <1>3 DEF Enters, Becomes, Carried, Done, None
<1>4. CASE Works(r)
  BY <1>1, <1>4 DEF Works, Same, Becomes, Carried, Done, None
<1>5. CASE Refuses(r)
  BY <1>1, <1>5 DEF Refuses, Forgets, Done, None, KeyHandlers
<1>6. CASE Turns(r)
  BY <1>1, <1>6 DEF Turns, Answers, Becomes, Carried, Done, None, KeyHandlers
<1>7. CASE Replies(r)
  BY <1>1, <1>7 DEF Replies, Answers, Becomes, Carried, Done, None, KeyHandlers
<1> QED
  BY <1>2, <1>3, <1>4, <1>5, <1>6, <1>7 DEF Quietly

LEMMA QuietKeeps ==
  ASSUME AccessOK, NEW r \in Request, Quietly(r)
  PROVE  AccessOK'
<1> DEFINE q == requests[r]
           z == requests'[r]
<1>0. Others(r) /\ Still
  BY DEF Quietly, Passes, Enters, Works, Refuses, Turns, Replies, Same, Answers, Becomes, Forgets
<1>1. TypeOK'
  BY <1>0 DEF AccessOK, TypeOK, Others, TypedRequests, Still
<1>2. /\ TypeOK /\ RequestsOK /\ UsersOK /\ TokensOK /\ StatusOK /\ RegisteredOK /\ BearersOK /\ KeysOK
      /\ \A s \in Request \ {r} : requests'[s] = requests[s]
      /\ UNCHANGED <<now, users, keys, tokens, changes>>
  BY <1>0 DEF AccessOK, Others, Still
<1>3. /\ now \in Nat /\ DOMAIN users \subseteq Request /\ DOMAIN tokens \subseteq Request /\ DOMAIN keys \subseteq Request
      /\ \A s \in Request : requests[s].known \subseteq Request /\ requests'[s] \in RequestState
  BY <1>0, <1>1, <1>2 DEF TypeOK, Time, RequestState
<1>4. /\ q.phase \in {"gateway", "service", "handler", "written"} /\ q.answer = None
      /\ z.phase \in {"service", "handler", "written", "answered"}
      /\ z.phase = "written" => z.kind \notin {"register", "login"}
      /\ q.phase = "written" => z.phase = "answered"
      /\ z.read \in {0, q.read}
      /\ z.answer = "Created" => z.kind = "create_api_key"
      /\ z.answer = "Deleted" => z.kind = "delete_api_key"
      /\ z.answer # None => z.phase = "answered"
      /\ \/ Carried(z, q)
         \/ z.kind = None /\ z.bearer = None /\ z.known = {}
      /\ z.kind \in KeyHandlers /\ z.phase \in {"handler", "written", "answered"} /\ z.answer # "Unauthorized"
           => z.bearer \in DOMAIN tokens /\ z.user = tokens[z.bearer].sub
      /\ z.kind \in {"create_api_key", "delete_api_key"} /\ Done(r)' => Done(r)
      /\ q.phase = "written" /\ q.kind \in KeyHandlers => Carried(z, q) /\ z.user = q.user
  BY QuietlyLeaves
<1> HIDE DEF q, z
<1>5. RequestsOK'
  <2>1. /\ z.kind \in {"register", "login"} => z.text \in Text /\ z.password \in Password
        /\ z.bearer # None => z.bearer \in DOMAIN tokens
        /\ z.read <= now
        /\ z.kind = "delete_api_key" => z.key \in Request
    BY <1>2, <1>3, <1>4 DEF RequestsOK, Carried, None, q
  <2>2. z.phase \in {"handler", "written"} /\ z.kind \in KeyHandlers => z.user \in Request
    BY <1>2, <1>4 DEF TypeOK, Claims, None
  <2> QED
    BY <1>2, <1>4, <2>1, <2>2 DEF RequestsOK, None, z
<1>6. UsersOK'
  BY <1>2, <1>3, <1>4 DEF UsersOK, Knows, q, z
<1>7. TokensOK'
  BY <1>2, <1>3, <1>4 DEF TokensOK, Knows, q
<1>8. StatusOK'
  BY <1>2, <1>3, <1>4 DEF StatusOK, Seen, q, z
<1>9. RegisteredOK'
  BY <1>2, <1>3, <1>4 DEF RegisteredOK, Carried, q, z
<1>10. BearersOK'
  BY <1>2, <1>3, <1>4 DEF BearersOK, z
<1>11. KeysOK'
  <2>1. \A s \in Request : Done(s)' /\ requests'[s].kind \in {"create_api_key", "delete_api_key"} =>
           Done(s) /\ requests'[s].user = requests[s].user /\ Carried(requests'[s], requests[s])
    <3>1. Done(r) => q.phase = "written"
      BY <1>4 DEF Done, None, q
    <3>2. Done(r)' /\ z.kind \in {"create_api_key", "delete_api_key"} =>
             Done(r) /\ z.user = q.user /\ Carried(z, q)
      BY <1>4, <3>1 DEF Carried, None, KeyHandlers
    <3> QED
      BY <1>2, <3>2 DEF Done, Carried, q, z
  <2>2. \A s \in Request : requests[s].phase \in {"written", "answered"} => requests'[s].phase \in {"written", "answered"}
    BY <1>2, <1>4 DEF q, z
  <2>3. \A s \in Request : requests[s].phase \in {"written", "answered"} /\ requests[s].kind \in KeyHandlers =>
           requests'[s].user = requests[s].user /\ Carried(requests'[s], requests[s])
    BY <1>2, <1>4 DEF Carried, q, z
  <2>4. \A k \in DOMAIN keys : requests'[k].phase \in {"written", "answered"}
    BY <1>2, <1>3, <2>2 DEF KeysOK
  <2>5. ASSUME NEW k \in Request, requests'[k].kind = "create_api_key", Done(k)'
        PROVE  (\/ k \in KeysOf(requests[k].user) /\ keys[k].permissions = Granted(requests[k].asked)
                \/ Deleted(k))'
    <3>1. /\ Done(k) /\ requests[k].kind = "create_api_key" /\ requests'[k].user = requests[k].user
          /\ requests'[k].asked = requests[k].asked
      BY <2>1, <2>5 DEF Carried
    <3>2. CASE Deleted(k)
      <4>1. PICK d \in Request : /\ Deletes(d, k) /\ requests[d].user = requests[k].user
                                 /\ requests[d].phase \in {"written", "answered"}
        BY <3>2 DEF Deleted
      <4>2. /\ Carried(requests'[d], requests[d]) /\ requests'[d].user = requests[d].user
            /\ requests'[d].phase \in {"written", "answered"}
        BY <2>2, <2>3, <4>1 DEF Deletes, KeyHandlers
      <4> QED
        BY <3>1, <4>1, <4>2 DEF Deleted, Deletes, Carried
    <3>3. CASE k \in KeysOf(requests[k].user) /\ keys[k].permissions = Granted(requests[k].asked)
      BY <1>2, <3>1, <3>3 DEF KeysOf
    <3>4. Deleted(k) \/ (k \in KeysOf(requests[k].user) /\ keys[k].permissions = Granted(requests[k].asked))
      BY <1>2, <3>1 DEF KeysOK
    <3> QED
      BY <3>2, <3>3, <3>4
  <2>6. \A d, k \in Request : Deletes(d, k)' /\ Done(d)' => Deletes(d, k) /\ Done(d)
    BY <2>1 DEF Deletes, Carried
  <2>7. \A d, k \in Request : Deletes(d, k)' /\ Done(d)' =>
           k \notin DOMAIN keys /\ requests'[k].phase \in {"written", "answered"}
    BY <1>2, <2>2, <2>6 DEF KeysOK
  <2>8. \A d, e, k \in Request : Deletes(d, k)' /\ Done(d)' /\ Deletes(e, k)' /\ Done(e)' => e = d
    BY <1>2, <2>6 DEF KeysOK
  <2>9. UNCHANGED keys
    BY <1>2
  <2> HIDE DEF q, z
  <2> QED
    BY <2>4, <2>5, <2>7, <2>8, <2>9 DEF KeysOK
<1> QED
  BY <1>1, <1>5, <1>6, <1>7, <1>8, <1>9, <1>10, <1>11 DEF AccessOK
-----------------------------------------------------------------------------
(* After a step that writes a row or a token. *)

\* A step of another handler leaves the keys and what is known of them.
LEMMA KeysStay ==
  ASSUME AccessOK, NEW r \in Request, Others(r), UNCHANGED keys,
         Carried(requests'[r], requests[r]), requests[r].kind \in {"register", "login"},
         requests'[r].phase \in {"written", "answered"}
  PROVE  KeysOK'
<1>1. /\ KeysOK /\ DOMAIN keys \subseteq Request
      /\ \A s \in Request \ {r} : requests'[s] = requests[s] /\ Done(s)' = Done(s)
  BY DEF AccessOK, TypeOK, Others, Done
<1>2. /\ requests'[r].kind \notin {"create_api_key", "delete_api_key"}
      /\ requests[r].kind \notin {"create_api_key", "delete_api_key"}
  BY DEF Carried
<1> QED
  BY <1>1, <1>2 DEF KeysOK, Deletes, Deleted, KeysOf

LEMMA InsertUserKeeps ==
  ASSUME AccessOK, NEW r \in Request, InsertUser(r)
  PROVE  AccessOK'
<1> DEFINE q == requests[r]
           z == requests'[r]
           row == [email |-> Normal(q.text), password_hash |-> q.password,
                   status |-> "ACTIVE", since |-> now, changed |-> FALSE]
<1>1. /\ TypeOK /\ RequestsOK /\ UsersOK /\ TokensOK /\ StatusOK /\ RegisteredOK /\ BearersOK /\ KeysOK
      /\ UNCHANGED <<now, keys, tokens, changes>>
  BY DEF AccessOK, InsertUser
<1>2. /\ now \in Time /\ now \in Nat
      /\ DOMAIN users \subseteq Request /\ DOMAIN tokens \subseteq Request /\ DOMAIN keys \subseteq Request
      /\ \A s \in Request : requests[s].known \subseteq Request
      /\ users \in [DOMAIN users -> User]
  BY <1>1 DEF TypeOK, Time, RequestState
<1>3. /\ q.phase = "handler" /\ q.kind = "register" /\ q.answer = None
      /\ q.text \in Text /\ q.password \in Password
      /\ users' = With(users, r, row) /\ UsersOf(Normal(q.text)) = {}
  BY <1>1 DEF InsertUser, Calls, RequestsOK
<1>4. /\ \A s \in Request \ {r} : requests'[s] = requests[s]
      /\ Carried(z, q) /\ z.phase = "written" /\ z.user = r /\ z.read = now /\ z.answer = None
      /\ Others(r)
  BY <1>1, <1>3, WriteDoes DEF Becomes, Others
<1>5. row \in User /\ row.email = Normal(q.text) /\ row.password_hash = q.password
      /\ row.status = "ACTIVE" /\ row.changed = FALSE
  BY <1>2, <1>3 DEF User, Text, Normal
<1> HIDE DEF q, z, row
<1>6. /\ DOMAIN users' = DOMAIN users \cup {r} /\ users'[r] = row
      /\ \A u \in DOMAIN users : u # r /\ users'[u] = users[u] /\ users[u].email # row.email
      /\ users' \in [DOMAIN users' -> User]
  <2>1. \A u \in DOMAIN users : u # r /\ users[u].email # row.email
    BY <1>1, <1>3, <1>5 DEF UsersOK, UsersOf, q
  <2>2. DOMAIN users' = DOMAIN users \cup {r}
    BY <1>3 DEF With
  <2>3. users'[r] = row /\ \A u \in DOMAIN users : users'[u] = users[u]
    BY <1>3, <2>1 DEF With
  <2>4. users' \in [DOMAIN users' -> User]
    BY <1>2, <1>3, <1>5 DEF With
  <2> QED
    BY <2>1, <2>2, <2>3, <2>4
<1>7. TypeOK'
  BY <1>1, <1>2, <1>4, <1>6 DEF TypeOK, Others, TypedRequests
<1>8. RequestsOK'
  BY <1>1, <1>2, <1>3, <1>4 DEF RequestsOK, Carried, None, KeyHandlers, q, z
<1>9. UsersOK'
  <2>1. Knows(r)'
    BY <1>4, <1>5, <1>6 DEF Knows, Carried, q, z
  <2>2. \A s \in Request \ {r} : Knows(s) => Knows(s)'
    BY <1>4, <1>6 DEF Knows
  <2> QED
    BY <1>1, <1>2, <1>4, <1>6, <2>1, <2>2 DEF UsersOK, z
<1>10. TokensOK'
  BY <1>1, <1>2, <1>3, <1>4, <1>6 DEF TokensOK, Knows, q
<1>11. StatusOK'
  <2>1. \A s \in Request \ {r} : Knows(s) /\ Seen(requests[s].user, requests[s].read)
          => Seen(requests[s].user, requests[s].read)'
    BY <1>1, <1>4, <1>6 DEF Knows, Seen
  <2>2. \A t \in DOMAIN tokens : Seen(tokens[t].sub, tokens[t].read)'
    BY <1>1, <1>6 DEF TokensOK, Knows, StatusOK, Seen
  <2>3. Seen(requests[r].user, requests[r].read)'
    BY <1>1, <1>2, <1>4, <1>5, <1>6 DEF Seen, z
  <2>4. \A u \in DOMAIN users' : ~users'[u].changed => users'[u].status = "ACTIVE"
    BY <1>1, <1>5, <1>6 DEF StatusOK
  <2> QED
    BY <1>1, <1>4, <2>1, <2>2, <2>3, <2>4 DEF StatusOK, UsersOK
<1>12. RegisteredOK'
  BY <1>1, <1>2, <1>3, <1>4 DEF RegisteredOK, Carried, None, q, z
<1>13. BearersOK'
  BY <1>1, <1>3, <1>4 DEF BearersOK, Carried, KeyHandlers, q, z
<1>14. KeysOK'
  BY <1>1, <1>3, <1>4, KeysStay DEF q, z
<1> QED
  BY <1>7, <1>8, <1>9, <1>10, <1>11, <1>12, <1>13, <1>14 DEF AccessOK

LEMMA SelectUserKeeps ==
  ASSUME AccessOK, NEW r \in Request, SelectUser(r)
  PROVE  AccessOK'
<1> DEFINE q == requests[r]
           z == requests'[r]
<1>1. /\ TypeOK /\ RequestsOK /\ UsersOK /\ TokensOK /\ StatusOK /\ RegisteredOK /\ BearersOK /\ KeysOK
      /\ UNCHANGED <<now, users, keys, tokens, changes>>
  BY DEF AccessOK, SelectUser, rows
<1>2. /\ now \in Nat
      /\ DOMAIN users \subseteq Request /\ DOMAIN tokens \subseteq Request /\ DOMAIN keys \subseteq Request
      /\ \A s \in Request : requests[s].known \subseteq Request
  BY <1>1 DEF TypeOK, Time, RequestState
<1>3. q.phase = "handler" /\ q.kind = "login" /\ q.answer = None
  BY <1>1 DEF SelectUser, Calls, RequestsOK
<1>4. PICK u \in DOMAIN users :
      /\ users[u].email = Normal(q.text) /\ users[u].password_hash = q.password
      /\ users[u].status = "ACTIVE"
      /\ Others(r) /\ Carried(z, q) /\ z.phase = "written" /\ z.user = u /\ z.read = now /\ z.answer = None
  BY <1>1, <1>3, WriteDoes DEF Becomes, MayLogIn
<1>5. \A s \in Request \ {r} : requests'[s] = requests[s]
  BY <1>4 DEF Others
<1> HIDE DEF q, z
<1>6. TypeOK'
  BY <1>1, <1>4 DEF TypeOK, Others, TypedRequests
<1>7. RequestsOK'
  BY <1>1, <1>2, <1>3, <1>4, <1>5 DEF RequestsOK, Carried, None, KeyHandlers, q, z
<1>8. UsersOK'
  <2>1. Knows(r)'
    BY <1>1, <1>3, <1>4 DEF Knows, Carried, q, z
  <2> QED
    BY <1>1, <1>2, <1>3, <1>4, <1>5, <2>1 DEF UsersOK, Knows, q, z
<1>9. TokensOK'
  BY <1>1, <1>2, <1>3, <1>5 DEF TokensOK, Knows, q
<1>10. StatusOK'
  BY <1>1, <1>2, <1>4, <1>5 DEF StatusOK, Seen, z
<1>11. RegisteredOK'
  BY <1>1, <1>2, <1>3, <1>4, <1>5 DEF RegisteredOK, Carried, None, q, z
<1>12. BearersOK'
  BY <1>1, <1>3, <1>4, <1>5 DEF BearersOK, Carried, KeyHandlers, q, z
<1>13. KeysOK'
  BY <1>1, <1>3, <1>4, KeysStay DEF q, z
<1> QED
  BY <1>6, <1>7, <1>8, <1>9, <1>10, <1>11, <1>12, <1>13 DEF AccessOK

LEMMA IssueTokenKeeps ==
  ASSUME AccessOK, NEW r \in Request, IssueToken(r)
  PROVE  AccessOK'
<1> DEFINE q == requests[r]
           z == requests'[r]
           token == [sub |-> q.user, email |-> Normal(q.text), iat |-> now,
                     exp |-> now + jwt_expiration_secs, read |-> q.read]
<1>1. /\ TypeOK /\ RequestsOK /\ UsersOK /\ TokensOK /\ StatusOK /\ RegisteredOK /\ BearersOK /\ KeysOK
      /\ UNCHANGED <<now, users, keys, changes>>
  BY DEF AccessOK, IssueToken, rows
<1>2. /\ now \in Nat /\ now \in Time
      /\ DOMAIN users \subseteq Request /\ DOMAIN tokens \subseteq Request /\ DOMAIN keys \subseteq Request
      /\ \A s \in Request : requests[s].known \subseteq Request
      /\ tokens \in [DOMAIN tokens -> Claims] /\ q.read \in Time
  BY <1>1 DEF TypeOK, Time, RequestState
<1>3. /\ q.phase = "written" /\ q.kind \in {"register", "login"} /\ q.answer = None
      /\ tokens' = With(tokens, r, token) /\ q.text \in Text
  BY <1>1 DEF IssueToken, RequestsOK
<1>4. PICK a \in {"Created", "Ok"} :
      Others(r) /\ Carried(z, q) /\ z.phase = "answered" /\ z.user = q.user /\ z.read = 0 /\ z.answer = a
  BY <1>1, WriteDoes DEF Becomes
<1>5. \A s \in Request \ {r} : requests'[s] = requests[s]
  BY <1>4 DEF Others
<1>6. /\ q.user \in DOMAIN users /\ users[q.user].email = Normal(q.text)
      /\ users[q.user].password_hash = q.password /\ (q.kind = "register" => q.user = r)
      /\ Seen(q.user, q.read)
  BY <1>1, <1>3 DEF UsersOK, Knows, StatusOK
<1>7. token \in Claims /\ token.sub = q.user /\ token.email = Normal(q.text)
      /\ token.read = q.read /\ token.exp = token.iat + jwt_expiration_secs
  <2>1. Normal(q.text) \in Text
    BY <1>3 DEF Text, Normal
  <2>2. now + jwt_expiration_secs \in Nat /\ q.user \in Request
    BY <1>2, <1>6
  <2> QED
    BY <1>2, <2>1, <2>2 DEF Claims
<1> HIDE DEF q, z, token
<1>8. /\ DOMAIN tokens' = DOMAIN tokens \cup {r} /\ tokens'[r] = token
      /\ \A t \in DOMAIN tokens : t # r /\ tokens'[t] = tokens[t]
      /\ tokens' \in [DOMAIN tokens' -> Claims]
  <2>1. \A t \in DOMAIN tokens : t # r
    BY <1>1, <1>3 DEF TokensOK, q
  <2>2. DOMAIN tokens' = DOMAIN tokens \cup {r}
    BY <1>3 DEF With
  <2>3. tokens'[r] = token /\ \A t \in DOMAIN tokens : tokens'[t] = tokens[t]
    BY <1>3, <2>1 DEF With
  <2>4. tokens' \in [DOMAIN tokens' -> Claims]
    BY <1>2, <1>3, <1>7 DEF With
  <2> QED
    BY <2>1, <2>2, <2>3, <2>4
<1>9. TypeOK'
  BY <1>1, <1>2, <1>4, <1>8 DEF TypeOK, Others, TypedRequests
<1>10. RequestsOK'
  BY <1>1, <1>2, <1>3, <1>4, <1>5, <1>8 DEF RequestsOK, Carried, None, KeyHandlers, q, z
<1>11. UsersOK'
  BY <1>1, <1>2, <1>3, <1>4, <1>5 DEF UsersOK, Knows, q, z
<1>12. TokensOK'
  <2>1. \A t \in DOMAIN tokens : requests'[t] = requests[t] /\ (Knows(t) => Knows(t)')
    BY <1>1, <1>2, <1>5, <1>8 DEF Knows
  <2>2. Knows(r)'
    BY <1>1, <1>4, <1>6 DEF Knows, Carried, q, z
  <2> QED
    BY <1>1, <1>3, <1>4, <1>7, <1>8, <2>1, <2>2 DEF TokensOK, Carried, z
<1>13. StatusOK'
  <2>1. \A t \in DOMAIN tokens' : Seen(tokens[t].sub, tokens[t].read)'
    BY <1>1, <1>6, <1>7, <1>8 DEF StatusOK, Seen
  <2> QED
    BY <1>1, <1>4, <1>5, <2>1 DEF StatusOK, Seen, z
<1>14. RegisteredOK'
  BY <1>1, <1>2, <1>3, <1>4, <1>5, <1>8 DEF RegisteredOK, Carried, q, z
<1>15. BearersOK'
  BY <1>1, <1>3, <1>4, <1>5, <1>8 DEF BearersOK, Carried, KeyHandlers, q, z
<1>16. KeysOK'
  BY <1>1, <1>3, <1>4, KeysStay DEF q, z
<1> QED
  BY <1>9, <1>10, <1>11, <1>12, <1>13, <1>14, <1>15, <1>16 DEF AccessOK
\* A step that changes only the keys, and where its request has got.
LEMMA KeysWritten ==
  ASSUME AccessOK, NEW r \in Request, Others(r), Carried(requests'[r], requests[r]),
         requests[r].phase = "handler", requests'[r].phase = "written",
         requests[r].kind \in {"create_api_key", "delete_api_key"},
         requests'[r].user = requests[r].user, requests'[r].read = requests[r].read,
         requests'[r].answer = requests[r].answer,
         UNCHANGED <<now, users, tokens, changes>>
  PROVE  /\ RequestsOK' /\ UsersOK' /\ TokensOK' /\ StatusOK' /\ RegisteredOK' /\ BearersOK'
         /\ \A s \in Request \ {r} : requests'[s] = requests[s] /\ Done(s)' = Done(s)
         /\ ~Done(r) /\ Done(r)'
<1> DEFINE q == requests[r]
           z == requests'[r]
<1>1. /\ RequestsOK /\ UsersOK /\ TokensOK /\ StatusOK /\ RegisteredOK /\ BearersOK
      /\ \A s \in Request \ {r} : requests'[s] = requests[s]
  BY DEF AccessOK, Others
<1>2. /\ now \in Nat
      /\ DOMAIN users \subseteq Request /\ DOMAIN tokens \subseteq Request
      /\ \A s \in Request : requests[s].known \subseteq Request
  BY DEF AccessOK, TypeOK, Time, RequestState
<1>3. /\ q.phase = "handler" /\ z.phase = "written" /\ z.user = q.user /\ z.read = q.read
      /\ q.answer = None /\ z.answer = None /\ Carried(z, q)
      /\ q.kind \in {"create_api_key", "delete_api_key"}
  BY <1>1 DEF RequestsOK
<1> HIDE DEF q, z
<1>4. RequestsOK'
  BY <1>1, <1>2, <1>3 DEF RequestsOK, Carried, None, q, z
<1>5. UsersOK' /\ TokensOK'
  BY <1>1, <1>2, <1>3 DEF UsersOK, TokensOK, Knows, Carried, q, z
<1>6. StatusOK'
  BY <1>1, <1>2, <1>3 DEF StatusOK, Seen, Carried, q, z
<1>7. RegisteredOK'
  BY <1>1, <1>2, <1>3 DEF RegisteredOK, Carried, q, z
<1>8. BearersOK'
  BY <1>1, <1>3 DEF BearersOK, Carried, q, z
<1> QED
  BY <1>1, <1>3, <1>4, <1>5, <1>6, <1>7, <1>8 DEF Done, None, q, z

LEMMA InsertKeyKeeps ==
  ASSUME AccessOK, NEW r \in Request, InsertKey(r)
  PROVE  AccessOK'
<1> DEFINE q == requests[r]
           z == requests'[r]
           key == [user_id |-> q.user, permissions |-> Granted(q.asked)]
<1>1. /\ TypeOK /\ RequestsOK /\ UsersOK /\ KeysOK
      /\ q.phase = "handler" /\ q.kind = "create_api_key" /\ Granted(q.asked) \subseteq Permissions
      /\ keys' = With(keys, r, key) /\ UNCHANGED <<now, users, tokens, changes>>
  BY DEF AccessOK, InsertKey, Calls
<1>2. /\ Others(r) /\ Carried(z, q) /\ z.phase = "written" /\ z.user = q.user
      /\ z.read = q.read /\ z.answer = q.answer
  BY <1>1, WriteDoes DEF Same, Becomes
<1>3. key \in ApiKey /\ key.user_id = q.user /\ key.permissions = Granted(q.asked)
  BY <1>1 DEF RequestsOK, KeyHandlers, ApiKey
<1>4. /\ RequestsOK' /\ UsersOK' /\ TokensOK' /\ StatusOK' /\ RegisteredOK' /\ BearersOK'
      /\ \A s \in Request \ {r} : requests'[s] = requests[s] /\ Done(s)' = Done(s)
      /\ ~Done(r)
  BY <1>1, <1>2, KeysWritten
<1> HIDE DEF q, z, key
<1>5. r \notin DOMAIN keys /\ DOMAIN keys \subseteq Request /\ keys \in [DOMAIN keys -> ApiKey]
  BY <1>1 DEF KeysOK, TypeOK, q
<1>6. DOMAIN keys' = DOMAIN keys \cup {r}
  BY <1>1 DEF With
<1>7. keys'[r] = key /\ \A k \in DOMAIN keys : keys'[k] = keys[k]
  BY <1>1, <1>5 DEF With
<1>8. keys' \in [DOMAIN keys' -> ApiKey]
  BY <1>1, <1>3, <1>5 DEF With
<1>9. TypeOK'
  BY <1>1, <1>2, <1>5, <1>6, <1>8 DEF TypeOK, Others, TypedRequests
<1>10. KeysOK'
  <2>1. \A k \in DOMAIN keys' : requests'[k].phase \in {"written", "answered"}
    BY <1>1, <1>2, <1>4, <1>5, <1>6 DEF KeysOK, z
  <2>2. ASSUME NEW k \in Request, requests'[k].kind = "create_api_key", Done(k)'
        PROVE  (\/ k \in KeysOf(requests[k].user) /\ keys[k].permissions = Granted(requests[k].asked)
                \/ Deleted(k))'
    <3>1. CASE k = r
      BY <1>2, <1>3, <1>6, <1>7, <3>1 DEF KeysOf, Carried, z
    <3>2. CASE k # r
      <4>1. \/ k \in KeysOf(requests[k].user) /\ keys[k].permissions = Granted(requests[k].asked)
            \/ Deleted(k)
        BY <1>1, <1>4, <2>2, <3>2 DEF KeysOK
      <4>2. Deleted(k) => Deleted(k)'
        BY <1>1, <1>4, <3>2 DEF Deleted, Deletes, q
      <4> QED
        BY <1>4, <1>6, <1>7, <3>2, <4>1, <4>2 DEF KeysOf
    <3> QED
      BY <3>1, <3>2
  <2>3. \A d, k \in Request : Deletes(d, k)' /\ Done(d)' => d # r /\ Deletes(d, k) /\ Done(d)
    BY <1>1, <1>2, <1>4 DEF Deletes, Carried, z
  <2>4. \A d, k \in Request : Deletes(d, k)' /\ Done(d)' =>
           k \notin DOMAIN keys' /\ requests'[k].phase \in {"written", "answered"}
    BY <1>1, <1>2, <1>4, <1>6, <2>3 DEF KeysOK, q, z
  <2>5. \A d, e, k \in Request : Deletes(d, k)' /\ Done(d)' /\ Deletes(e, k)' /\ Done(e)' => e = d
    BY <1>1, <2>3 DEF KeysOK
  <2> QED
    BY <2>1, <2>2, <2>4, <2>5 DEF KeysOK
<1> QED
  BY <1>4, <1>9, <1>10 DEF AccessOK

LEMMA DeleteKeyKeeps ==
  ASSUME AccessOK, NEW r \in Request, DeleteKey(r)
  PROVE  AccessOK'
<1> DEFINE q == requests[r]
           z == requests'[r]
           x == q.key
<1>1. /\ TypeOK /\ RequestsOK /\ UsersOK /\ KeysOK
      /\ q.phase = "handler" /\ q.kind = "delete_api_key"
      /\ x \in DOMAIN keys /\ keys[x].user_id = q.user
      /\ keys' = [k \in DOMAIN keys \ {x} |-> keys[k]] /\ UNCHANGED <<now, users, tokens, changes>>
  BY DEF AccessOK, DeleteKey, Calls, KeysOf
<1>2. /\ Others(r) /\ Carried(z, q) /\ z.phase = "written" /\ z.user = q.user
      /\ z.read = q.read /\ z.answer = q.answer
  BY <1>1, WriteDoes DEF Same, Becomes
<1>3. /\ RequestsOK' /\ UsersOK' /\ TokensOK' /\ StatusOK' /\ RegisteredOK' /\ BearersOK'
      /\ \A s \in Request \ {r} : requests'[s] = requests[s] /\ Done(s)' = Done(s)
      /\ ~Done(r) /\ Done(r)'
  BY <1>1, <1>2, KeysWritten
<1>4. /\ DOMAIN keys \subseteq Request /\ keys \in [DOMAIN keys -> ApiKey] /\ x \in Request
      /\ requests[x].phase \in {"written", "answered"} /\ x # r
  BY <1>1 DEF KeysOK, TypeOK
<1> HIDE DEF q, z, x
<1>5. /\ DOMAIN keys' = DOMAIN keys \ {x} /\ \A k \in DOMAIN keys' : keys'[k] = keys[k]
      /\ keys' \in [DOMAIN keys' -> ApiKey]
  BY <1>1, <1>4
<1>6. TypeOK'
  BY <1>1, <1>2, <1>4, <1>5 DEF TypeOK, Others, TypedRequests
<1>7. KeysOK'
  <2>1. \A k \in DOMAIN keys' : requests'[k].phase \in {"written", "answered"}
    BY <1>1, <1>2, <1>3, <1>4, <1>5 DEF KeysOK, z
  <2>2. ASSUME NEW k \in Request, requests'[k].kind = "create_api_key", Done(k)'
        PROVE  (\/ k \in KeysOf(requests[k].user) /\ keys[k].permissions = Granted(requests[k].asked)
                \/ Deleted(k))'
    <3>0. k # r
      BY <1>1, <1>2, <2>2 DEF Carried, z
    <3>1. \/ k \in KeysOf(requests[k].user) /\ keys[k].permissions = Granted(requests[k].asked)
          \/ Deleted(k)
      BY <1>1, <1>3, <2>2, <3>0 DEF KeysOK
    <3>2. CASE Deleted(k)
      <4>1. PICK d \in Request : /\ Deletes(d, k) /\ requests[d].user = requests[k].user
                                 /\ requests[d].phase \in {"written", "answered"}
        BY <3>2 DEF Deleted
      <4>2. d # r
        BY <1>1, <4>1 DEF q
      <4> QED
        BY <1>3, <3>0, <4>1, <4>2 DEF Deleted, Deletes
    <3>3. CASE k \in KeysOf(requests[k].user) /\ keys[k].permissions = Granted(requests[k].asked) /\ k = x
      <4>1. requests[k].user = q.user
        BY <1>1, <3>3 DEF KeysOf
      <4>2. Deletes(r, k)' /\ requests'[r].user = requests'[k].user /\ requests'[r].phase = "written"
        BY <1>1, <1>2, <1>3, <3>0, <3>3, <4>1 DEF Deletes, Carried, q, z, x
      <4> QED
        BY <4>2 DEF Deleted
    <3>4. CASE k \in KeysOf(requests[k].user) /\ keys[k].permissions = Granted(requests[k].asked) /\ k # x
      BY <1>3, <1>5, <3>0, <3>4 DEF KeysOf
    <3> QED
      BY <3>1, <3>2, <3>3, <3>4
  <2>3. \A d, k \in Request : Deletes(d, k)' /\ Done(d)' =>
           (d = r /\ k = x) \/ (d # r /\ Deletes(d, k) /\ Done(d))
    BY <1>1, <1>2, <1>3 DEF Deletes, Carried, q, z, x
  <2>4. \A d \in Request : ~(Deletes(d, x) /\ Done(d))
    BY <1>1, <1>4 DEF KeysOK
  <2>5. \A d, k \in Request : Deletes(d, k)' /\ Done(d)' =>
           k \notin DOMAIN keys' /\ requests'[k].phase \in {"written", "answered"}
    BY <1>1, <1>2, <1>3, <1>4, <1>5, <2>3 DEF KeysOK, q, z
  <2>6. \A d, e, k \in Request : Deletes(d, k)' /\ Done(d)' /\ Deletes(e, k)' /\ Done(e)' => e = d
    BY <1>1, <2>3, <2>4 DEF KeysOK
  <2> QED
    BY <2>1, <2>2, <2>5, <2>6 DEF KeysOK
<1> QED
  BY <1>3, <1>6, <1>7 DEF AccessOK

LEMMA SetStatusKeeps ==
  ASSUME AccessOK, NEW u \in DOMAIN users, NEW status \in UserStatus, SetStatus(u, status)
  PROVE  AccessOK'
<1> DEFINE since == IF users[u].status = "ACTIVE" THEN now ELSE users[u].since
           row == [users[u] EXCEPT !.status = status, !.changed = TRUE, !.since = since]
<1>1. /\ TypeOK /\ RequestsOK /\ UsersOK /\ TokensOK /\ StatusOK /\ RegisteredOK /\ BearersOK /\ KeysOK
      /\ users' = [users EXCEPT ![u].status = status, ![u].changed = TRUE, ![u].since = since]
      /\ changes < MaxChanges /\ changes' = changes + 1 /\ UNCHANGED <<now, keys, tokens, requests>>
  BY DEF AccessOK, SetStatus
<1>2. now \in Time /\ users \in [DOMAIN users -> User] /\ changes \in 0 .. MaxChanges
  BY <1>1 DEF TypeOK
<1>3. /\ DOMAIN users' = DOMAIN users
      /\ \A v \in DOMAIN users : users'[v].email = users[v].email /\ users'[v].password_hash = users[v].password_hash
      /\ \A v \in DOMAIN users \ {u} : users'[v] = users[v]
      /\ users'[u].status = status /\ users'[u].changed = TRUE /\ users'[u].since = since
      /\ users' \in [DOMAIN users' -> User]
  <2>1. users' = [users EXCEPT ![u] = row]
    BY <1>1
  <2>2. users[u] \in User /\ since \in Time
    BY <1>2 DEF User
  <2>3. row \in User
    BY <2>2 DEF User
  <2>4. /\ row.email = users[u].email /\ row.password_hash = users[u].password_hash
        /\ row.status = status /\ row.changed = TRUE /\ row.since = since
    BY <2>2 DEF User
  <2> HIDE DEF row
  <2> QED
    BY <1>2, <2>1, <2>3, <2>4
<1>4. now \in Int /\ users[u].since \in Int /\ \A t \in DOMAIN tokens : tokens[t].read \in Int
  BY <1>1 DEF TypeOK, User, Claims, Time
<1>5. \A r \in Request : requests[r].read \in Int
  BY <1>1 DEF TypeOK, RequestState, Time
<1>6. \A read \in Int : \A v \in DOMAIN users : Seen(v, read) => Seen(v, read)'
  BY <1>1, <1>3, <1>4 DEF Seen
<1>7. TypeOK'
  BY <1>1, <1>2, <1>3 DEF TypeOK
<1>8. RequestsOK' /\ RegisteredOK' /\ BearersOK' /\ KeysOK'
  BY <1>1 DEF RequestsOK, RegisteredOK, BearersOK, KeysOK, Done, Deletes, Deleted, KeysOf
<1>9. UsersOK'
  BY <1>1, <1>3 DEF UsersOK, Knows
<1>10. TokensOK'
  BY <1>1, <1>3 DEF TokensOK, Knows
<1>11. StatusOK'
  <2>1. \A r \in Request :
          requests'[r].phase = "written" /\ requests'[r].kind \in {"register", "login"}
            => Seen(requests[r].user, requests[r].read)'
    BY <1>1, <1>5, <1>6 DEF StatusOK, UsersOK, Knows
  <2>2. \A t \in DOMAIN tokens : Seen(tokens[t].sub, tokens[t].read)'
    BY <1>1, <1>4, <1>6 DEF StatusOK, TokensOK, Knows
  <2>3. \A v \in DOMAIN users' : ~users'[v].changed => users'[v].status = "ACTIVE"
    BY <1>1, <1>3 DEF StatusOK
  <2> QED
    BY <1>1, <2>1, <2>2, <2>3 DEF StatusOK
<1> QED
  BY <1>7, <1>8, <1>9, <1>10, <1>11 DEF AccessOK

LEMMA TickKeeps ==
  ASSUME AccessOK, Tick
  PROVE  AccessOK'
<1>1. /\ TypeOK /\ RequestsOK /\ UsersOK /\ TokensOK /\ StatusOK /\ RegisteredOK /\ BearersOK /\ KeysOK
      /\ now' = now + 1 /\ now < MaxTime /\ UNCHANGED <<users, keys, tokens, requests, changes>>
  BY DEF AccessOK, Tick, rows
<1>2. now \in Int /\ (\A t \in DOMAIN tokens : tokens[t].read \in Int) /\ \A r \in Request : requests[r].read \in Int
  BY <1>1 DEF TypeOK, RequestState, Claims, Time
<1>3. TypeOK' /\ RequestsOK'
  BY <1>1, <1>2 DEF TypeOK, RequestsOK, Time
<1>4. UsersOK' /\ TokensOK' /\ RegisteredOK' /\ BearersOK' /\ KeysOK'
  BY <1>1 DEF UsersOK, TokensOK, Knows, RegisteredOK, BearersOK, KeysOK, Done, Deletes, Deleted, KeysOf
<1>5. StatusOK'
  BY <1>1, <1>2 DEF StatusOK, Seen
<1> QED
  BY <1>3, <1>4, <1>5 DEF AccessOK

LEMMA StutterKeeps ==
  ASSUME AccessOK, UNCHANGED vars
  PROVE  AccessOK'
<1>1. UNCHANGED <<now, users, keys, tokens, requests, changes>>
  BY DEF vars
<1> QED
  BY <1>1 DEF AccessOK, TypeOK, RequestsOK, UsersOK, TokensOK, StatusOK, Seen, Knows, RegisteredOK,
              BearersOK, KeysOK, Done, Deletes, Deleted, KeysOf
-----------------------------------------------------------------------------
(* The invariant, and what follows from it. *)

\* A step is a client's, a handler's, or of nobody's request.
LEMMA StepDoes ==
  ASSUME AccessOK, [Next]_vars
  PROVE  \/ \E r \in Request : (Sends(r) /\ Still) \/ Quietly(r) \/ Writes(r)
         \/ \E u \in DOMAIN users, status \in UserStatus : SetStatus(u, status) /\ requests' = requests
         \/ Tick /\ requests' = requests /\ users' = users
         \/ UNCHANGED vars /\ requests' = requests /\ users' = users
<1>0. TypeOK /\ RequestsOK
  BY DEF AccessOK
<1>1. ASSUME NEW r \in Request, Send(r) \/ Check(r) \/ Handle(r) \/ Fail(r)
      PROVE  (Sends(r) /\ Still) \/ Quietly(r) \/ Writes(r)
  BY <1>0, <1>1, SendDoes, CheckDoes, HandleDoes, FailDoes DEF Still
<1>2. \A u \in DOMAIN users, status \in UserStatus : SetStatus(u, status) => requests' = requests
  BY DEF SetStatus
<1>3. Tick => requests' = requests /\ users' = users
  BY DEF Tick, rows
<1>4. UNCHANGED vars => requests' = requests /\ users' = users
  BY DEF vars
<1> QED
  BY <1>1, <1>2, <1>3, <1>4 DEF Next, Quiet

\* The step of a request leaves the others, and finds it unanswered.
LEMMA StepIsOfOne ==
  ASSUME AccessOK, NEW r \in Request, (Sends(r) /\ Still) \/ Quietly(r) \/ Writes(r)
  PROVE  Others(r) /\ requests[r].phase # "answered"
<1>1. TypeOK /\ RequestsOK /\ UsersOK
  BY DEF AccessOK
<1>2. CASE Sends(r)
  BY <1>2 DEF Sends
<1>3. CASE Quietly(r)
  BY <1>3, QuietlyLeaves
     DEF Quietly, Passes, Enters, Works, Refuses, Turns, Replies, Same, Answers, Becomes, Forgets
<1>4. CASE Writes(r)
  BY <1>1, <1>4, WriteDoes
     DEF Writes, Same, Becomes, InsertUser, SelectUser, IssueToken, InsertKey, DeleteKey, Calls
<1> QED
  BY <1>2, <1>3, <1>4

\* What brings a request to its handler, and what turns credentials away.
LEMMA OnlyEnters ==
  ASSUME AccessOK, NEW r \in Request, (Sends(r) /\ Still) \/ Quietly(r) \/ Writes(r),
         requests'[r].phase = "handler"
  PROVE  Enters(r)
<1>1. TypeOK /\ RequestsOK /\ UsersOK
  BY DEF AccessOK
<1>2. ~Sends(r)
  BY DEF Sends
<1>3. ~Writes(r)
  BY <1>1, WriteDoes DEF Writes, Same, Becomes
<1> QED
  BY <1>2, <1>3 DEF Quietly, Passes, Works, Refuses, Turns, Replies, Same, Answers, Becomes, Forgets

LEMMA OnlyTurns ==
  ASSUME AccessOK, NEW r \in Request, (Sends(r) /\ Still) \/ Quietly(r) \/ Writes(r),
         requests'[r].answer = "InvalidCredentials"
  PROVE  Still /\ Carried(requests'[r], requests[r]) /\ \A u \in DOMAIN users : ~MayLogIn(r, u)
<1>1. TypeOK /\ RequestsOK /\ UsersOK
  BY DEF AccessOK
<1>2. ~Sends(r)
  BY DEF Sends, None
<1>3. requests[r].answer # "InvalidCredentials"
  BY <1>1, <1>2, StepIsOfOne DEF RequestsOK, None
<1>4. ~Writes(r)
  BY <1>1, <1>3, WriteDoes DEF Writes, Same, Becomes
<1> QED
  BY <1>2, <1>3, <1>4 DEF Quietly, Passes, Enters, Works, Refuses, Turns, Replies, Same, Answers, Becomes, Forgets

LEMMA StepKeeps ==
  ASSUME AccessOK, [Next]_vars
  PROVE  AccessOK'
<1>1. ASSUME NEW r \in Request, Writes(r) PROVE AccessOK'
  BY <1>1, InsertUserKeeps, SelectUserKeeps, IssueTokenKeeps, InsertKeyKeeps, DeleteKeyKeeps DEF Writes
<1> QED
  BY <1>1, StepDoes, SendKeeps, QuietKeeps, SetStatusKeeps, TickKeeps, StutterKeeps

THEOREM Invariant == Spec => []AccessOK
<1>1. AccessOK /\ [Next]_vars => AccessOK'
  BY StepKeeps
<1> QED
  BY InitOK, <1>1, PTL DEF Spec

\* Whatever requests are under way, every row, token and request has its type.
THEOREM Typed == Spec => []TypeOK
<1>1. AccessOK => TypeOK
  BY DEF AccessOK
<1> QED
  BY Invariant, <1>1, PTL

\* A token (services/auth, register and login) names a user that exists, by the address
\* and for the password in the user's row, and no two registrations of one address get
\* tokens, in whatever spelling and order they arrive.
THEOREM EarnedTokens == Spec => []TokensAreEarned
<1>1. ASSUME AccessOK PROVE TokensAreEarned
  <2>1. TokensOK /\ UsersOK /\ DOMAIN tokens \subseteq Request
    BY <1>1 DEF AccessOK, TypeOK
  <2>2. ASSUME NEW t \in DOMAIN tokens, NEW u \in DOMAIN tokens,
               requests[t].kind = "register", requests[u].kind = "register",
               tokens[t].email = tokens[u].email
        PROVE  t = u
    <3>1. requests[t].user = t /\ requests[u].user = u
      BY <2>1, <2>2 DEF TokensOK, Knows
    <3>2. users[t].email = users[u].email /\ t \in DOMAIN users /\ u \in DOMAIN users
      BY <2>1, <2>2, <3>1 DEF TokensOK, Knows
    <3> QED
      BY <2>1, <3>2 DEF UsersOK
  <2> QED
    BY <2>1, <2>2 DEF TokensAreEarned, TokensOK, Knows
<1> QED
  BY Invariant, <1>1, PTL

\* An API key (handlers/api_keys.rs) whose creation was answered is there until its
\* owner deletes it; a deletion that was answered is final, and answered once.
THEOREM AccountedKeys == Spec => []KeysAccounted
<1>1. ASSUME AccessOK PROVE KeysAccounted
  <2>1. KeysOK /\ BearersOK /\ RequestsOK
    BY <1>1 DEF AccessOK
  <2>2. ASSUME NEW k \in Request, requests[k].kind = "create_api_key", requests[k].answer = "Created"
        PROVE  \/ /\ k \in KeysOf(tokens[requests[k].bearer].sub)
                  /\ keys[k].permissions = Granted(requests[k].asked)
               \/ \E d \in Request : Deletes(d, k) /\ requests[d].user = requests[k].user
    <3>1. Done(k) /\ requests[k].phase = "answered"
      BY <2>1, <2>2 DEF Done, RequestsOK
    <3>2. requests[k].user = tokens[requests[k].bearer].sub
      BY <2>1, <2>2, <3>1 DEF BearersOK, KeyHandlers
    <3> QED
      BY <2>1, <2>2, <3>1, <3>2 DEF KeysOK, Deleted
  <2>3. ASSUME NEW d \in Request, requests[d].answer = "Deleted"
        PROVE  /\ requests[d].key \notin DOMAIN keys
               /\ \A e \in Request :
                    Deletes(e, requests[d].key) /\ requests[e].answer = "Deleted" => e = d
    <3>1. Deletes(d, requests[d].key) /\ requests[d].key \in Request
      BY <2>1, <2>3 DEF RequestsOK, Deletes
    <3> QED
      BY <2>1, <2>3, <3>1 DEF KeysOK, Done
  <2> QED
    BY <2>2, <2>3 DEF KeysAccounted
<1> QED
  BY Invariant, <1>1, PTL
\* The second check (common/src/auth.rs) lets a token of somebody who is not ACTIVE any
\* more through no later than a token's life, the leeway and the time of the login allow,
\* although nobody looks at the status again.
THEOREM SuspendedOut == Spec => SuspendedLoseAccess
<1>1. ASSUME AccessOK, [Next]_vars, NEW r \in Request,
             requests[r].phase = "service", requests'[r].phase = "handler", Protected(r)
      PROVE  LET token == tokens[requests[r].bearer]
                 user  == users[token.sub]
             IN  user.status # "ACTIVE" =>
                   now <= user.since + (token.iat - token.read) + jwt_expiration_secs + leeway
  <2> DEFINE t == requests[r].bearer
  <2>1. TypeOK /\ RequestsOK /\ TokensOK /\ StatusOK
    BY <1>1 DEF AccessOK
  <2>2. PICK s \in Request : (Sends(s) /\ Still) \/ Quietly(s) \/ Writes(s)
    BY <1>1, StepDoes
  <2>3. s = r
    BY <1>1, <2>2, StepIsOfOne DEF Others
  <2>4. Enters(r)
    BY <1>1, <2>1, <2>2, <2>3, OnlyEnters
  <2>5. Valid(t)
    BY <1>1, <2>4 DEF Enters, Protected
  <2>6. t \in DOMAIN tokens /\ now <= tokens[t].exp + leeway
    BY <2>1, <2>5 DEF Valid, RequestsOK
  <2>7. /\ tokens[t].exp = tokens[t].iat + jwt_expiration_secs
        /\ users[tokens[t].sub].status # "ACTIVE" => users[tokens[t].sub].since >= tokens[t].read
        /\ tokens[t].sub \in DOMAIN users
    BY <2>1, <2>6 DEF TokensOK, Knows, StatusOK, Seen
  <2>8. now \in Int /\ tokens[t].iat \in Int /\ tokens[t].read \in Int /\ users[tokens[t].sub].since \in Int
    BY <2>1, <2>6, <2>7 DEF TypeOK, Claims, User, Time
  <2> HIDE DEF t
  <2>9. users[tokens[t].sub].status # "ACTIVE" =>
          now <= users[tokens[t].sub].since + (tokens[t].iat - tokens[t].read) + jwt_expiration_secs + leeway
    BY <2>6, <2>7, <2>8
  <2> QED
    BY <2>9 DEF t
<1>2. AccessOK /\ [Next]_vars =>
        \A r \in Request :
          requests[r].phase = "service" /\ requests'[r].phase = "handler" /\ Protected(r)
            => LET token == tokens[requests[r].bearer]
                   user  == users[token.sub]
               IN  user.status # "ACTIVE" =>
                     now <= user.since + (token.iat - token.read) + jwt_expiration_secs + leeway
  BY <1>1
<1> QED
  BY Invariant, <1>2, PTL DEF Spec, SuspendedLoseAccess

-----------------------------------------------------------------------------
(* Logins after a registration, and the two checks. *)

LEMMA ChangedStays ==
  ASSUME AccessOK, [Next]_vars, NEW g \in DOMAIN users, users[g].changed
  PROVE  g \in DOMAIN users' /\ users'[g].changed
<1>1. TypeOK /\ UsersOK
  BY DEF AccessOK
<1>2. CASE \E r \in Request : InsertUser(r)
  <2>1. PICK r \in Request : InsertUser(r)
    BY <1>2
  <2>2. g # r
    BY <1>1, <2>1 DEF UsersOK, InsertUser, Calls
  <2> QED
    BY <2>1, <2>2 DEF InsertUser, With
<1>3. CASE \E u \in DOMAIN users, status \in UserStatus : SetStatus(u, status)
  BY <1>1, <1>3 DEF SetStatus, TypeOK, User
<1>4. CASE UNCHANGED users
  BY <1>4
<1>5. \A r \in Request : Quietly(r) => UNCHANGED users
  BY DEF Quietly, Still
<1>6. \A r \in Request : Writes(r) /\ ~InsertUser(r) => UNCHANGED users
  BY DEF Writes, SelectUser, IssueToken, InsertKey, DeleteKey, rows
<1> QED
  BY <1>2, <1>3, <1>4, <1>5, <1>6, StepDoes DEF Still

\* Once an account was created (services/auth/src/handlers/auth.rs), a later login with
\* its password is turned away only if somebody has changed the status.
THEOREM RegisteredLogIn == Spec => []RegisteredCanLogIn
<1>1. Init => RegisteredCanLogIn
  BY DEF Init, Unsent, RegisteredCanLogIn
<1>2. ASSUME AccessOK, AccessOK', RegisteredCanLogIn, [Next]_vars
      PROVE  RegisteredCanLogIn'
  <2>0. TypeOK /\ RegisteredOK /\ TokensOK /\ StatusOK
    BY <1>2 DEF AccessOK
  <2> SUFFICES ASSUME NEW r \in Request, NEW g \in requests'[r].known,
                      requests'[r].answer = "InvalidCredentials",
                      requests'[g].kind = "register", requests'[g].answer = "Created",
                      Normal(requests'[g].text) = Normal(requests'[r].text),
                      requests'[g].password = requests'[r].password
               PROVE  users'[g].changed
    BY DEF RegisteredCanLogIn
  <2>1. g \in Request /\ \A s \in Request : requests[s].known \subseteq Request
    BY <1>2, <2>0 DEF AccessOK, TypeOK, RequestState
  <2>2. CASE requests' = requests
    <3>1. users[g].changed
      BY <1>2, <2>1, <2>2 DEF RegisteredCanLogIn
    <3>2. g \in DOMAIN users
      BY <2>0, <2>1, <2>2 DEF RegisteredOK, TokensOK, Knows
    <3> QED
      BY <1>2, <3>1, <3>2, ChangedStays
  <2>3. CASE \E s \in Request : (Sends(s) /\ Still) \/ Quietly(s) \/ Writes(s)
    <3>1. PICK s \in Request : (Sends(s) /\ Still) \/ Quietly(s) \/ Writes(s)
      BY <2>3
    <3>2. Others(s) /\ requests[s].phase # "answered"
      BY <1>2, <3>1, StepIsOfOne
    <3>3. CASE s # r
      <4>1. requests'[r] = requests[r]
        BY <3>2, <3>3 DEF Others
      <4>2. requests'[g] = requests[g]
        BY <2>0, <2>1, <3>2, <4>1 DEF Others, RegisteredOK
      <4>3. users[g].changed
        BY <1>2, <4>1, <4>2 DEF RegisteredCanLogIn
      <4>4. g \in DOMAIN users
        BY <2>0, <2>1, <4>2 DEF RegisteredOK, TokensOK, Knows
      <4> QED
        BY <1>2, <4>3, <4>4, ChangedStays
    <3>4. CASE s = r
      <4>1. Still /\ Carried(requests'[r], requests[r]) /\ \A u \in DOMAIN users : ~MayLogIn(r, u)
        BY <1>2, <3>1, <3>4, OnlyTurns
      <4>2. requests'[g] = requests[g]
        BY <2>0, <2>1, <3>2, <3>4, <4>1 DEF Others, RegisteredOK, Carried
      <4>3. /\ g \in DOMAIN users /\ users[g].email = Normal(requests[r].text)
            /\ users[g].password_hash = requests[r].password
        BY <2>0, <2>1, <4>1, <4>2 DEF RegisteredOK, TokensOK, Knows, Carried
      <4>4. users[g].status # "ACTIVE" /\ users'[g] = users[g] /\ users[g].changed \in BOOLEAN
        BY <2>0, <4>1, <4>3 DEF MayLogIn, Still, TypeOK, User
      <4> QED
        BY <2>0, <4>3, <4>4 DEF StatusOK
    <3> QED
      BY <3>3, <3>4
  <2> QED
    BY <1>2, <2>2, <2>3, StepDoes
<1> QED
  BY Invariant, <1>1, <1>2, PTL DEF Spec
\* What the gateway lets through without a token is open at its service, or has no
\* handler there.
LEMMA RoutesAgree ==
  \A kind : RouteOf(kind) \in GatewayPublic => OpenAtService(kind) \/ kind \in NoHandler
<1> DEFINE D == {"auth", "order", "wallet", "market_data"}
<1>1. D = DOMAIN Proxied
  BY DEF Proxied
<1>2. ASSUME NEW route \in {"auth/register", "auth/login"}
      PROVE  ServiceOf(route) = "auth"
  <2>1. \A s \in D : route \in Proxied[s] <=> s = "auth"
    BY DEF Proxied
  <2> QED
    BY <1>1, <2>1 DEF ServiceOf
<1>3. ServiceOf("depth") = "order"
  <2>1. \A s \in D : "depth" \in Proxied[s] <=> s = "order"
    BY DEF Proxied
  <2> QED
    BY <1>1, <2>1 DEF ServiceOf
<1> HIDE DEF D
<1>4. ASSUME NEW kind, RouteOf(kind) \in GatewayPublic
      PROVE  kind \in {"register", "login", "get_depth"} \cup NoHandler
  <2>1. "auth/me" \notin GatewayPublic /\ "order" \notin GatewayPublic /\ "auth/api-keys" \notin GatewayPublic
    BY DEF GatewayPublic
  <2> QED
    BY <1>4, <2>1 DEF RouteOf, NoHandler
<1>5. OpenAtService("register")
  <2>1. RouteOf("register") = "auth/register" /\ MethodOf("register") = "POST"
    BY DEF RouteOf, MethodOf
  <2> QED
    BY <1>2, <2>1 DEF OpenAtService, OpenAt, AuthPublic
<1>6. OpenAtService("login")
  <2>1. RouteOf("login") = "auth/login" /\ MethodOf("login") = "POST"
    BY DEF RouteOf, MethodOf
  <2> QED
    BY <1>2, <2>1 DEF OpenAtService, OpenAt, AuthPublic
<1>7. OpenAtService("get_depth")
  <2>1. RouteOf("get_depth") = "depth"
    BY DEF RouteOf
  <2> QED
    BY <1>3, <2>1 DEF OpenAtService, OpenAt, OrderPublic
<1> QED
  BY <1>4, <1>5, <1>6, <1>7

LEMMA ListsAgree ==
  \A s \in DOMAIN Proxied : \A route \in Proxied[s], method \in Method :
    OpenAt(s, route, method) <=> route \in GatewayPublic /\ ~Misdirected(route, method)
<1>1. DOMAIN Proxied = {"auth", "order", "wallet", "market_data"}
  BY DEF Proxied
<1>2. ASSUME NEW route \in Proxied["auth"], NEW method \in Method
      PROVE  OpenAt("auth", route, method) <=> route \in GatewayPublic /\ ~Misdirected(route, method)
  <2>1. route \in GatewayPublic <=> route \in {"auth/register", "auth/login"}
    BY DEF Proxied, GatewayPublic
  <2>2. OpenAt("auth", route, method) <=> route \in {"auth/register", "auth/login"} /\ method = "POST"
    BY DEF Proxied, OpenAt, AuthPublic
  <2> QED
    BY <2>1, <2>2 DEF Misdirected
<1>3. ASSUME NEW route \in Proxied["order"], NEW method \in Method
      PROVE  OpenAt("order", route, method) <=> route \in GatewayPublic /\ ~Misdirected(route, method)
  BY DEF Proxied, GatewayPublic, OpenAt, OrderPublic, Misdirected
<1>4. ASSUME NEW route \in Proxied["wallet"], NEW method \in Method
      PROVE  OpenAt("wallet", route, method) <=> route \in GatewayPublic /\ ~Misdirected(route, method)
  BY DEF Proxied, GatewayPublic, OpenAt, WalletPublic, Misdirected
<1>5. ASSUME NEW route \in Proxied["market_data"], NEW method \in Method
      PROVE  OpenAt("market_data", route, method) <=> route \in GatewayPublic /\ ~Misdirected(route, method)
  BY DEF Proxied, GatewayPublic, OpenAt, MarketDataPublic, Misdirected
<1> QED
  BY <1>1, <1>2, <1>3, <1>4, <1>5

\* What the first check leaves for the second to find.
CheckedOK ==
  \A r \in Request :
    requests[r].kind \notin NoHandler =>
      /\ requests[r].phase = "service" /\ ~OpenAtService(requests[r].kind) => requests[r].bearer # None
      /\ requests[r].answer = "Unauthorized" =>
           requests[r].bearer # None /\ tokens[requests[r].bearer].exp + leeway < now

\* Gateway (jwt.rs) and services (common/src/auth.rs, middleware.rs of the auth service)
\* have the same routes open, up to the methods on auth/register and auth/login that have
\* no handler; and a service refuses another request that the gateway let through only
\* when its token has run out meanwhile.
THEOREM AgreeingChecks == Spec => []ChecksAgree
<1>1. Init => CheckedOK
  BY DEF Init, Unsent, CheckedOK, None
<1>2. ASSUME AccessOK, CheckedOK, [Next]_vars
      PROVE  CheckedOK'
  <2>0. TypeOK /\ RequestsOK /\ UsersOK /\ TokensOK
    BY <1>2 DEF AccessOK
  <2>1. /\ \A t \in DOMAIN tokens : t \in DOMAIN tokens' /\ tokens'[t] = tokens[t] /\ tokens[t].exp \in Int
        /\ now \in Int /\ now' \in Int /\ now <= now'
    <3>1. now \in Int /\ \A t \in DOMAIN tokens : tokens[t].exp \in Int
      BY <2>0 DEF TypeOK, Time, Claims
    <3>2. CASE UNCHANGED <<now, tokens>>
      BY <3>1, <3>2
    <3>3. CASE \E r \in Request : IssueToken(r)
      <4>1. PICK r \in Request : IssueToken(r)
        BY <3>3
      <4>2. r \notin DOMAIN tokens
        BY <2>0, <4>1 DEF TokensOK, IssueToken
      <4> QED
        BY <3>1, <4>1, <4>2 DEF IssueToken, With
    <3>4. CASE Tick
      BY <3>1, <3>4 DEF Tick
    <3>5. \A r \in Request : Writes(r) /\ ~IssueToken(r) => UNCHANGED <<now, tokens>>
      BY DEF Writes, InsertUser, SelectUser, InsertKey, DeleteKey
    <3> QED
      BY <1>2, <3>2, <3>3, <3>4, <3>5, StepDoes DEF Quietly, Still, SetStatus, vars
  <2>2. ASSUME NEW r \in Request, requests'[r] = requests[r]
        PROVE  requests'[r].kind \notin NoHandler =>
                 /\ requests'[r].phase = "service" /\ ~OpenAtService(requests'[r].kind) => requests'[r].bearer # None
                 /\ requests'[r].answer = "Unauthorized" =>
                      requests'[r].bearer # None /\ tokens'[requests'[r].bearer].exp + leeway < now'
    <3>1. requests[r].kind \notin NoHandler /\ requests[r].answer = "Unauthorized" =>
            requests[r].bearer \in DOMAIN tokens
      BY <1>2, <2>0 DEF CheckedOK, RequestsOK
    <3> QED
      BY <1>2, <2>1, <2>2, <3>1 DEF CheckedOK
  <2>3. ASSUME NEW r \in Request, (Sends(r) /\ Still) \/ Quietly(r) \/ Writes(r)
        PROVE  requests'[r].kind \notin NoHandler =>
                 /\ requests'[r].phase = "service" /\ ~OpenAtService(requests'[r].kind) => requests'[r].bearer # None
                 /\ requests'[r].answer = "Unauthorized" =>
                      requests'[r].bearer # None /\ tokens'[requests'[r].bearer].exp + leeway < now'
    <3>0. requests[r].answer # "Unauthorized"
      BY <1>2, <2>0, <2>3, StepIsOfOne DEF RequestsOK, None
    <3>1. CASE Sends(r)
      BY <3>1 DEF Sends, None
    <3>2. CASE Writes(r)
      BY <2>0, <3>0, <3>2, WriteDoes DEF Writes, Same, Becomes
    <3>3. CASE Quietly(r) /\ Passes(r)
      BY <3>0, <3>3, RoutesAgree DEF Passes, Same, Becomes, Carried, Valid
    <3>4. CASE Quietly(r) /\ (Enters(r) \/ Works(r) \/ Refuses(r) \/ Replies(r))
      BY <3>0, <3>4 DEF Enters, Works, Refuses, Replies, Same, Answers, Becomes, Forgets
    <3>5. CASE Quietly(r) /\ Turns(r)
      <4>1. CASE requests'[r].answer = "Unauthorized" /\ requests'[r].kind \notin NoHandler
        <5>1. /\ requests[r].phase = "service" /\ ~OpenAtService(requests[r].kind)
              /\ ~Valid(requests[r].bearer) /\ Carried(requests'[r], requests[r])
              /\ requests'[r].phase = "answered" /\ UNCHANGED <<now, tokens>>
          BY <3>5, <4>1 DEF Turns, Answers, Becomes, Quietly, Still
        <5>2. requests[r].bearer # None /\ requests[r].bearer \in DOMAIN tokens
          BY <1>2, <2>0, <4>1, <5>1 DEF CheckedOK, RequestsOK, Carried
        <5> QED
          BY <2>1, <5>1, <5>2 DEF Valid, Carried
      <4> QED
        BY <3>5, <4>1 DEF Turns, Answers, Becomes
    <3> QED
      BY <2>3, <3>1, <3>2, <3>3, <3>4, <3>5 DEF Quietly
  <2> QED
    BY <1>2, <2>2, <2>3, StepDoes, StepIsOfOne DEF CheckedOK, Others
<1>3. CheckedOK => ChecksAgree
  BY ListsAgree DEF CheckedOK, ChecksAgree
<1> QED
  BY Invariant, <1>1, <1>2, <1>3, PTL DEF Spec
-----------------------------------------------------------------------------
(* Lists of keys: what a list speaks of is over, since a key that is listed had been *)
(* written, and what the client knew had been answered.                              *)

\* A row of api_keys is of the user whose request inserted it.
OwnersOK ==
  \A k \in DOMAIN keys : requests[k].kind = "create_api_key" /\ keys[k].user_id = requests[k].user

Listed(r) ==
  requests[r].kind = "list_api_keys" /\ (requests[r].phase = "written" \/ requests[r].answer = "Ok")

ShownOK(q) ==
  \A k \in q.listed :
    /\ requests[k].kind = "create_api_key" /\ requests[k].phase \in {"written", "answered"}
    /\ requests[k].user = q.user
    /\ \A d \in q.known : Deletes(d, k) => requests[d].answer # "Deleted"

FoundOK(q) ==
  \A k \in q.known :
    /\ requests[k].kind = "create_api_key" /\ requests[k].answer = "Created"
    /\ requests[k].user = q.user
    => k \in q.listed \/ Deleted(k)

ListsOK == \A r \in Request : Listed(r) => ShownOK(requests[r]) /\ FoundOK(requests[r])

\* What a handler of keys has written, it keeps.
LEMMA WrittenStay ==
  ASSUME AccessOK, [Next]_vars, NEW k \in Request,
         requests[k].kind \in KeyHandlers, requests[k].phase \in {"written", "answered"}
  PROVE  /\ requests'[k].kind = requests[k].kind /\ requests'[k].user = requests[k].user
         /\ requests'[k].key = requests[k].key
         /\ requests'[k].phase \in {"written", "answered"}
<1>0. TypeOK /\ RequestsOK /\ UsersOK
  BY DEF AccessOK
<1>1. CASE requests' = requests
  BY <1>1
<1>2. CASE \E r \in Request : (Sends(r) /\ Still) \/ Quietly(r) \/ Writes(r)
  <2>1. PICK r \in Request : (Sends(r) /\ Still) \/ Quietly(r) \/ Writes(r)
    BY <1>2
  <2>2. Others(r) /\ requests[r].phase # "answered"
    BY <2>1, StepIsOfOne
  <2>3. CASE r # k
    BY <2>2, <2>3 DEF Others
  <2>4. CASE r = k /\ requests[k].phase = "written"
    <3>1. ~Sends(r)
      BY <2>4 DEF Sends
    <3>2. ~Writes(r)
      BY <1>0, <2>4 DEF Writes, InsertUser, SelectUser, IssueToken, InsertKey, DeleteKey, Calls, KeyHandlers
    <3>3. Replies(r)
      BY <2>1, <2>4, <3>1, <3>2 DEF Quietly, Passes, Enters, Works, Refuses, Turns
    <3> QED
      BY <2>4, <3>3 DEF Replies, Answers, Becomes, Carried
  <2> QED
    BY <2>2, <2>3, <2>4
<1> QED
  BY <1>1, <1>2, StepDoes

\* What was answered is over.
LEMMA AnsweredStay ==
  ASSUME AccessOK, [Next]_vars, NEW k \in Request, requests[k].phase = "answered"
  PROVE  requests'[k] = requests[k]
  BY StepDoes, StepIsOfOne DEF Others

LEMMA DeletedStays ==
  ASSUME AccessOK, [Next]_vars, NEW k \in Request,
         requests[k].kind = "create_api_key", requests[k].phase \in {"written", "answered"}, Deleted(k)
  PROVE  Deleted(k)'
<1>1. PICK d \in Request : /\ Deletes(d, k) /\ requests[d].user = requests[k].user
                           /\ requests[d].phase \in {"written", "answered"}
  BY DEF Deleted
<1>2. requests[d].kind \in KeyHandlers /\ requests[k].kind \in KeyHandlers
  BY <1>1 DEF Deletes, KeyHandlers
<1>3. /\ requests'[d].kind = requests[d].kind /\ requests'[d].user = requests[d].user
      /\ requests'[d].key = requests[d].key /\ requests'[d].phase \in {"written", "answered"}
  BY <1>1, <1>2, WrittenStay
<1>4. requests'[k].user = requests[k].user
  BY <1>2, WrittenStay
<1> QED
  BY <1>1, <1>3, <1>4 DEF Deleted, Deletes

LEMMA OwnersKept ==
  ASSUME AccessOK, OwnersOK, [Next]_vars
  PROVE  OwnersOK'
<1>0. TypeOK /\ KeysOK
  BY DEF AccessOK
<1>1. ASSUME NEW k \in DOMAIN keys
      PROVE  requests'[k].kind = "create_api_key" /\ keys[k].user_id = requests'[k].user
  <2>1. k \in Request /\ requests[k].phase \in {"written", "answered"}
    BY <1>0 DEF TypeOK, KeysOK
  <2>2. requests[k].kind = "create_api_key" /\ keys[k].user_id = requests[k].user
    BY DEF OwnersOK
  <2> QED
    BY <2>1, <2>2, WrittenStay DEF KeyHandlers
<1>2. CASE UNCHANGED keys
  BY <1>1, <1>2 DEF OwnersOK
<1>3. CASE \E r \in Request : InsertKey(r)
  <2>1. PICK r \in Request : InsertKey(r)
    BY <1>3
  <2>2. Same(r, "written")
    BY <1>0, <2>1, PhaseMoves DEF InsertKey, Moved, Same, TypeOK, TypedRequests, Phase
  <2>3. requests[r].kind = "create_api_key" /\ requests'[r].kind = requests[r].kind /\ requests'[r].user = requests[r].user
    BY <2>1, <2>2 DEF InsertKey, Calls, Same, Becomes, Carried
  <2>4. /\ DOMAIN keys' = DOMAIN keys \cup {r}
        /\ keys'[r].user_id = requests[r].user
        /\ \A k \in DOMAIN keys \ {r} : keys'[k] = keys[k]
    BY <2>1 DEF InsertKey, With
  <2> QED
    BY <1>1, <2>3, <2>4 DEF OwnersOK
<1>4. CASE \E r \in Request : DeleteKey(r)
  <2>1. PICK r \in Request : DeleteKey(r)
    BY <1>4
  <2>2. DOMAIN keys' \subseteq DOMAIN keys /\ \A k \in DOMAIN keys' : keys'[k] = keys[k]
    BY <2>1 DEF DeleteKey
  <2> QED
    BY <1>1, <2>2 DEF OwnersOK
<1>5. \A r \in Request : Writes(r) => UNCHANGED keys \/ InsertKey(r) \/ DeleteKey(r)
  BY DEF Writes, InsertUser, SelectUser, IssueToken, rows
<1>6. [Next]_vars => UNCHANGED keys \/ \E r \in Request : InsertKey(r) \/ DeleteKey(r)
  BY <1>5, StepDoes DEF Quietly, Still, SetStatus, Tick, rows, vars
<1> QED
  BY <1>2, <1>3, <1>4, <1>6

\* A list comes of the SELECT, and an answer carries what was selected.
LEMMA OnlyLists ==
  ASSUME TypeOK, RequestsOK, UsersOK, NEW r \in Request,
         Send(r) \/ Check(r) \/ Handle(r) \/ Fail(r), Listed(r)'
  PROVE  \/ ListKeys(r) /\ requests'[r].listed = KeysOf(requests[r].user) /\ requests'[r].user = requests[r].user
            /\ requests'[r].known = requests[r].known /\ keys' = keys
         \/ /\ Listed(r) /\ requests'[r].listed = requests[r].listed /\ requests'[r].user = requests[r].user
            /\ requests'[r].known = requests[r].known
<1>0. requests \in [Request -> RequestState] /\ requests[r] \in RequestState /\ TypedRequests
  BY DEF TypeOK, TypedRequests
<1>a. requests'[r].kind = "list_api_keys" /\ (requests'[r].phase = "written" \/ requests'[r].answer = "Ok")
  BY DEF Listed
<1>1. ~Send(r)
  BY <1>a, SendDoes DEF Sends, None
<1>b. requests[r].answer # "Ok" \/ requests[r].phase = "answered"
  BY DEF RequestsOK
<1>2. ~Check(r)
  <2>1. ~Forgets(r)
    BY <1>a DEF Forgets, None
  <2> QED
    BY <1>0, <1>a, <1>b, <2>1, Drops
       DEF Check, PassGateway, RefuseAtGateway, Throttle, PassService, RefuseAtService, Moved, Ended, RequestState
<1>c. \A a \in {"Failed", "Ok"} : ~Dropped(r, a)
  BY <1>0, <1>a, Drops DEF Forgets, None
<1>3. CASE ListKeys(r)
  BY <1>0, <1>3 DEF ListKeys, RequestState, rows
<1>4. CASE Reply(r)
  <2>1. requests[r].kind \in KeyHandlers
    BY <1>4, <1>c DEF Reply, KeyHandlers
  <2>2. Ended(r, "Created") \/ Ended(r, "Deleted") \/ Ended(r, "Ok")
    BY <1>4, <2>1 DEF Reply, KeyHandlers
  <2>3. /\ requests'[r].kind = requests[r].kind /\ requests'[r].listed = requests[r].listed
        /\ requests'[r].user = requests[r].user /\ requests'[r].known = requests[r].known
    BY <1>0, <2>2 DEF Ended, RequestState
  <2> QED
    BY <1>4, <1>a, <2>3 DEF Reply, Listed
<1>5. ~Fail(r)
  BY <1>0, <1>a, <1>c DEF Fail, Ended, RequestState
<1>6. ~Writes(r)
  <2>1. Writes(r) => requests'[r].kind = requests[r].kind
    BY WriteDoes DEF Writes, Same, Becomes, Carried
  <2>2. Writes(r) => requests[r].kind # "list_api_keys"
    BY DEF Writes, InsertUser, SelectUser, IssueToken, InsertKey, DeleteKey, Calls
  <2> QED
    BY <1>a, <2>1, <2>2
<1>7. ~(RefuseCredentials(r) \/ EmailTaken(r) \/ RefusePermission(r) \/ KeyNotFound(r))
  BY <1>c DEF RefuseCredentials, EmailTaken, RefusePermission, KeyNotFound
<1>8. ~RefuseLogin(r) /\ ~Serve(r)
  BY <1>0, <1>a DEF RefuseLogin, Serve, Calls, Ended, Moved, RequestState
<1>9. ~NotFound(r)
  BY <1>c DEF NotFound
<1> QED
  BY <1>1, <1>2, <1>3, <1>4, <1>5, <1>6, <1>7, <1>8, <1>9 DEF Handle, Writes

\* A list that stays as it is stays right.
LEMMA ListKept ==
  ASSUME AccessOK, [Next]_vars, NEW r \in Request, Listed(r),
         ShownOK(requests[r]), FoundOK(requests[r]),
         requests'[r].listed = requests[r].listed, requests'[r].user = requests[r].user,
         requests'[r].known = requests[r].known
  PROVE  ShownOK(requests[r])' /\ FoundOK(requests[r])'
<1>0. TypeOK /\ RegisteredOK /\ RequestsOK
  BY DEF AccessOK
<1>1. requests[r].listed \subseteq Request /\ requests[r].known \subseteq Request
  BY <1>0 DEF TypeOK, RequestState
<1>2. ASSUME NEW k \in requests[r].listed
      PROVE  /\ requests'[k].kind = "create_api_key" /\ requests'[k].phase \in {"written", "answered"}
             /\ requests'[k].user = requests[r].user
             /\ \A d \in requests[r].known : requests'[d].kind = "delete_api_key" /\ requests'[d].key = k
                  => requests'[d].answer # "Deleted"
  <2>1. /\ k \in Request /\ requests[k].kind = "create_api_key"
        /\ requests[k].phase \in {"written", "answered"} /\ requests[k].user = requests[r].user
    BY <1>1 DEF ShownOK
  <2>2. /\ requests'[k].kind = requests[k].kind /\ requests'[k].user = requests[k].user
        /\ requests'[k].phase \in {"written", "answered"}
    BY <2>1, WrittenStay DEF KeyHandlers
  <2>3. \A d \in requests[r].known : requests'[d] = requests[d]
    BY <1>0, <1>1, AnsweredStay DEF RegisteredOK
  <2>4. \A d \in requests[r].known : requests[d].kind = "delete_api_key" /\ requests[d].key = k
                  => requests[d].answer # "Deleted"
    BY DEF ShownOK, Deletes
  <2> QED
    BY <2>1, <2>2, <2>3, <2>4
<1>3. ASSUME NEW k \in requests[r].known,
             requests'[k].kind = "create_api_key", requests'[k].answer = "Created",
             requests'[k].user = requests[r].user
      PROVE  k \in requests[r].listed \/ Deleted(k)'
  <2>1. requests[k].phase = "answered" /\ k \in Request
    BY <1>0, <1>1 DEF RegisteredOK
  <2>2. requests'[k] = requests[k]
    BY <2>1, AnsweredStay
  <2>3. k \in requests[r].listed \/ Deleted(k)
    BY <1>3, <2>2 DEF FoundOK
  <2> QED
    BY <1>3, <2>1, <2>2, <2>3, DeletedStays
<1>4. ShownOK(requests[r])'
  BY <1>2 DEF ShownOK, Deletes
<1>5. FoundOK(requests[r])'
  BY <1>3 DEF FoundOK
<1> QED
  BY <1>4, <1>5

\* The SELECT finds the keys of its user as they are.
LEMMA ListMade ==
  ASSUME AccessOK, OwnersOK, NEW r \in Request, Others(r), requests[r].phase # "answered",
         requests[r].kind = "list_api_keys", requests'[r].kind = "list_api_keys",
         requests'[r].listed = KeysOf(requests[r].user), requests'[r].user = requests[r].user,
         requests'[r].known = requests[r].known
  PROVE  ShownOK(requests[r])' /\ FoundOK(requests[r])'
<1>0. TypeOK /\ RegisteredOK /\ KeysOK
  BY DEF AccessOK
<1>1. DOMAIN keys \subseteq Request /\ requests[r].known \subseteq Request \ {r}
  BY <1>0 DEF TypeOK, RequestState, RegisteredOK
<1>2. \A d \in requests[r].known : requests'[d] = requests[d]
  BY <1>1 DEF Others
<1>3. ASSUME NEW k \in KeysOf(requests[r].user)
      PROVE  /\ requests'[k].kind = "create_api_key" /\ requests'[k].phase \in {"written", "answered"}
             /\ requests'[k].user = requests[r].user
             /\ \A d \in requests[r].known : requests'[d].kind = "delete_api_key" /\ requests'[d].key = k
                  => requests'[d].answer # "Deleted"
  <2>1. k \in DOMAIN keys /\ keys[k].user_id = requests[r].user
    BY DEF KeysOf
  <2>2. /\ requests[k].kind = "create_api_key" /\ requests[k].user = requests[r].user
        /\ requests[k].phase \in {"written", "answered"}
    BY <1>0, <2>1 DEF OwnersOK, KeysOK
  <2>3. requests'[k] = requests[k]
    BY <1>1, <2>1, <2>2 DEF Others
  <2>4. ASSUME NEW d \in requests[r].known, requests[d].kind = "delete_api_key", requests[d].key = k,
               requests[d].answer = "Deleted"
        PROVE  FALSE
    <3>1. Deletes(d, k) /\ Done(d) /\ d \in Request /\ k \in Request
      BY <1>1, <2>1, <2>4 DEF Deletes, Done
    <3> QED
      BY <1>0, <2>1, <3>1 DEF KeysOK
  <2> QED
    BY <1>2, <2>2, <2>3, <2>4
<1>4. ASSUME NEW k \in requests[r].known,
             requests'[k].kind = "create_api_key", requests'[k].answer = "Created",
             requests'[k].user = requests[r].user
      PROVE  k \in KeysOf(requests[r].user) \/ Deleted(k)'
  <2>1. k \in Request /\ requests'[k] = requests[k] /\ Done(k)
    BY <1>1, <1>2, <1>4 DEF Done
  <2>2. k \in KeysOf(requests[r].user) \/ Deleted(k)
    BY <1>0, <1>4, <2>1 DEF KeysOK
  <2>3. Deleted(k) => Deleted(k)'
    BY <2>1 DEF Deleted, Deletes, Others
  <2> QED
    BY <2>2, <2>3
<1>5. ShownOK(requests[r])'
  BY <1>3 DEF ShownOK, Deletes
<1>6. FoundOK(requests[r])'
  BY <1>4 DEF FoundOK
<1> QED
  BY <1>5, <1>6

LEMMA ListsKept ==
  ASSUME AccessOK, OwnersOK, ListsOK, [Next]_vars
  PROVE  ListsOK'
<1>0. TypeOK /\ RequestsOK /\ UsersOK
  BY DEF AccessOK
<1> SUFFICES ASSUME NEW r \in Request, Listed(r)'
             PROVE  ShownOK(requests[r])' /\ FoundOK(requests[r])'
  BY DEF ListsOK
<1>1. CASE requests'[r] = requests[r]
  <2>1. Listed(r)
    BY <1>1 DEF Listed
  <2> QED
    BY <1>1, <2>1, ListKept DEF ListsOK
<1>2. CASE requests'[r] # requests[r]
  <2>1. PICK s \in Request : Send(s) \/ Check(s) \/ Handle(s) \/ Fail(s)
    BY <1>2 DEF Next, SetStatus, Tick, Quiet, vars
  <2>2. (Sends(s) /\ Still) \/ Quietly(s) \/ Writes(s)
    BY <1>0, <2>1, SendDoes, CheckDoes, HandleDoes, FailDoes DEF Still
  <2>3. Others(s) /\ requests[s].phase # "answered"
    BY <2>2, StepIsOfOne
  <2>4. s = r
    BY <1>2, <2>3 DEF Others
  <2>5. CASE ListKeys(r) /\ requests'[r].listed = KeysOf(requests[r].user)
             /\ requests'[r].user = requests[r].user /\ requests'[r].known = requests[r].known
    <3>1. requests[r].kind = "list_api_keys" /\ requests'[r].kind = "list_api_keys"
      BY <2>5 DEF ListKeys, Calls, Listed
    <3> QED
      BY <2>3, <2>4, <2>5, <3>1, ListMade
  <2>6. CASE Listed(r) /\ requests'[r].listed = requests[r].listed
             /\ requests'[r].user = requests[r].user /\ requests'[r].known = requests[r].known
    BY <2>6, ListKept DEF ListsOK
  <2> QED
    BY <1>0, <2>1, <2>4, <2>5, <2>6, OnlyLists
<1> QED
  BY <1>1, <1>2

\* A list of keys (handlers/api_keys.rs) shows its user's keys and no others: all whose
\* creation had been answered when it was asked for, unless somebody has deleted them,
\* and none whose deletion had been answered by then.
THEOREM CurrentLists == Spec => []ListsAreCurrent
<1>1. Init => OwnersOK /\ ListsOK
  BY DEF Init, Unsent, OwnersOK, ListsOK, Listed, None
<1>2. AccessOK /\ OwnersOK /\ ListsOK /\ [Next]_vars => OwnersOK' /\ ListsOK'
  BY OwnersKept, ListsKept
<1>3. OwnersOK /\ ListsOK => ListsAreCurrent
  BY DEF ListsOK, Listed, ShownOK, FoundOK, Deleted, ListsAreCurrent
<1> QED
  BY Invariant, <1>1, <1>2, <1>3, PTL DEF Spec
=============================================================================
