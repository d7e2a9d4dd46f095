------------------------------- MODULE Access -------------------------------
(***************************************************************************)
(* Who may do what: accounts, tokens and API keys (services/auth), and the  *)
(* two checks that a request passes, at the gateway and again at the        *)
(* service it is forwarded to (services/gateway/src/middleware/jwt.rs and   *)
(* main.rs, common/src/auth.rs, services/auth/src/middleware.rs).           *)
(*                                                                          *)
(* A token says who its bearer is and until when; nobody looks at the       *)
(* user's row again.  A step below is one check, one SQL statement as the   *)
(* database commits it, or the code from one await to the next.  A request  *)
(* may end in an error at each of them, and what it has written stays.      *)
(*                                                                          *)
(* Ids are fresh UUIDs: a user or key is named by the request that inserted *)
(* it, a token by the request it answered.  All machines read one clock.    *)
(***************************************************************************)
EXTENDS Integers, FiniteSets

CONSTANTS
  Request,             \* requests of clients
  Address,             \* e-mail addresses
  Password,
  Weak,                \* passwords of less than 8 bytes
  Credential,          \* pairs of an address as it was typed and a password
  UserStatus,          \* ACTIVE, SUSPENDED, CLOSED
  Asked,               \* sets of permissions that clients ask for
  Kind,                \* the kinds of requests that clients send
  jwt_expiration_secs,
  leeway,              \* Validation::default: 60 seconds
  MaxTime,             \* bound: the clock stops here
  MaxInFlight,         \* bound: requests under way at once
  MaxChanges           \* bound: how often the status of a user is changed

ASSUME AccessAssumption ==
  /\ "ACTIVE" \in UserStatus
  /\ jwt_expiration_secs \in Nat /\ leeway \in Nat
  /\ MaxTime \in Nat /\ MaxChanges \in Nat /\ MaxInFlight \in Nat

Time == 0 .. MaxTime

\* Routes of the gateway, by the service they are proxied to.
Proxied ==
  [auth        |-> {"auth/register", "auth/login", "auth/me", "auth/api-keys"},
   order       |-> {"order", "allOrders", "myTrades", "depth", "ticker/bookTicker"},
   wallet      |-> {"account", "balance"},
   market_data |-> {"exchangeInfo", "trades", "ticker/24hr", "ticker/price", "klines",
                    "historicalTrades"}]

\* The routes that start with one of the gateway's public_prefixes.
GatewayPublic ==
  {"ping", "time", "exchangeInfo", "depth", "trades", "historicalTrades", "klines",
   "ticker/24hr", "ticker/price", "ticker/bookTicker", "auth/register", "auth/login"}

\* What is open at the services; only the list of the auth service names methods.
AuthPublic ==
  {<<"auth/register", "POST">>, <<"auth/login", "POST">>, <<"ping", "GET">>, <<"time", "GET">>}
OrderPublic == {"ping", "time", "depth", "ticker/bookTicker", "ws"}
WalletPublic == {"ping", "time", "balance/reserve", "balance/release"}
MarketDataPublic ==
  {"ping", "time", "exchangeInfo", "trades", "historicalTrades", "klines",
   "ticker/24hr", "ticker/price", "ticker/bookTicker"}

\* The methods that routes take; the checks treat another one as one that does not fit.
Method == {"GET", "POST", "DELETE"}

OpenAt(service, route, method) ==
  CASE service = "auth"        -> <<route, method>> \in AuthPublic
    [] service = "order"       -> route \in OrderPublic
    [] service = "wallet"      -> route \in WalletPublic
    [] service = "market_data" -> route \in MarketDataPublic

ServiceOf(route) == CHOOSE s \in DOMAIN Proxied : route \in Proxied[s]

\* The handlers of the auth service, and one of each sort of the others; and the two
\* requests that the gateway lets through to the auth service, which has no handler for
\* them: GET on the routes that take POST.
KeyHandlers == {"create_api_key", "list_api_keys", "delete_api_key"}
Handlers == KeyHandlers \cup {"register", "login", "me", "place_order", "get_depth"}
NoHandler == {"get_register", "get_login"}

ASSUME KindAssumption == Kind \subseteq Handlers \cup NoHandler

RouteOf(kind) ==
  CASE kind \in {"register", "get_register"} -> "auth/register"
    [] kind \in {"login", "get_login"}       -> "auth/login"
    [] kind = "me"                           -> "auth/me"
    [] kind = "place_order"                  -> "order"
    [] kind = "get_depth"                    -> "depth"
    [] OTHER                                 -> "auth/api-keys"

MethodOf(kind) ==
  CASE kind \in {"register", "login", "create_api_key", "place_order"} -> "POST"
    [] kind = "delete_api_key"                                         -> "DELETE"
    [] OTHER                                                           -> "GET"

VARIABLES
  now,      \* the clock
  users,    \* rows of the users table: id -> row
  keys,     \* rows of the api_keys table: id -> row
  tokens,   \* the tokens that clients have got: request -> claims
  requests, \* request -> its state
  changes   \* how often a status was changed

vars == <<now, users, keys, tokens, requests, changes>>

None == "none"

\* An address as it was typed; `plain` if it is trimmed and in lower case.
Text == [address: Address, plain: BOOLEAN]
NoText == [address |-> None, plain |-> TRUE]

ASSUME CredentialAssumption == Credential \subseteq Text \X Password
Normal(text) == [text EXCEPT !.plain = TRUE]

\* `since` is when the user was last ACTIVE, if it is not now; `changed` tells whether
\* the status was ever changed.
User == [email: Text, password_hash: Password, status: UserStatus,
         since: Time, changed: BOOLEAN]

Permissions == {"READ", "TRADE", "WITHDRAW"}
ApiKey == [user_id: Request, permissions: SUBSET Permissions]

\* `read` is when the user's row was read or written.
Claims == [sub: Request, email: Text, iat: Time, exp: Nat, read: Time]

Phase == {"unsent", "gateway", "service", "handler", "written", "answered"}

\* "Failed" stands for the errors that no property tells apart.
Answer == {None, "Created", "Ok", "Deleted", "InvalidCredentials", "Unauthorized", "Failed"}

\* `known` are the requests that had been answered when a login or list was sent.
RequestState ==
  [phase: Phase, kind: Handlers \cup NoHandler \cup {None}, text: Text \cup {NoText},
   password: Password \cup {None}, bearer: Request \cup {None}, key: Request \cup {None},
   asked: Asked \cup {{}}, known: SUBSET Request, user: Request \cup {None}, read: Time,
   listed: SUBSET Request, answer: Answer]

TypeOK ==
  /\ now \in Time
  /\ DOMAIN users \subseteq Request /\ users \in [DOMAIN users -> User]
  /\ DOMAIN keys \subseteq Request /\ keys \in [DOMAIN keys -> ApiKey]
  /\ DOMAIN tokens \subseteq Request /\ tokens \in [DOMAIN tokens -> Claims]
  /\ requests \in [Request -> RequestState]
  /\ changes \in 0 .. MaxChanges

With(f, x, v) == [y \in DOMAIN f \cup {x} |-> IF y = x THEN v ELSE f[y]]

Unsent == [phase |-> "unsent", kind |-> None, text |-> NoText, password |-> None,
           bearer |-> None, key |-> None, asked |-> {}, known |-> {}, user |-> None,
           read |-> 0, listed |-> {}, answer |-> None]

Init ==
  /\ now = 0
  /\ users = [u \in {} |-> None]
  /\ keys = [k \in {} |-> None]
  /\ tokens = [t \in {} |-> None]
  /\ requests = [r \in Request |-> Unsent]
  /\ changes = 0

-----------------------------------------------------------------------------
(* Clients *)

rows == <<users, keys>>

Answered == {r \in Request : requests[r].phase = "answered"}
InFlight == {r \in Request : requests[r].phase \notin {"unsent", "answered"}}

Sent(r, fields) ==
  /\ requests[r].phase = "unsent"
  /\ Cardinality(InFlight) < MaxInFlight
  /\ requests' = [requests EXCEPT ![r] = fields]
  /\ UNCHANGED <<now, rows, tokens, changes>>

SendCredentials(r, kind, text, password) ==
  Sent(r, [Unsent EXCEPT !.phase = "gateway", !.kind = kind, !.text = text,
                         !.password = password,
                         !.known = IF kind = "login" THEN Answered ELSE {}])

\* Other requests, with or without a token that the client has been given.
SendRequest(r, kind, bearer) ==
  /\ bearer \in DOMAIN tokens \cup {None}
  /\ Sent(r, [Unsent EXCEPT !.phase = "gateway", !.kind = kind, !.bearer = bearer,
                            !.known = IF kind = "list_api_keys" THEN Answered ELSE {}])

SendCreate(r, bearer, asked) ==
  Sent(r, [Unsent EXCEPT !.phase = "gateway", !.kind = "create_api_key",
                         !.bearer = bearer, !.asked = asked])

\* The id of a key is found in an answer or in a list.
SendDelete(r, bearer, key) ==
  Sent(r, [Unsent EXCEPT !.phase = "gateway", !.kind = "delete_api_key",
                         !.bearer = bearer, !.key = key])

-----------------------------------------------------------------------------
(* The two checks *)

\* jsonwebtoken, decode: the signature is right, and `exp` not less than now - leeway.
Valid(bearer) == bearer # None /\ now <= tokens[bearer].exp + leeway

Moved(r, phase) == requests' = [requests EXCEPT ![r].phase = phase]
Ended(r, answer) ==
  requests' = [requests EXCEPT ![r].phase = "answered", ![r].answer = answer]
\* An answer after which nothing more is asked about the request.
Dropped(r, answer) ==
  requests' = [requests EXCEPT ![r] = [Unsent EXCEPT !.phase = "answered", !.answer = answer]]

\* Mutant: a request without a token is left to its service.
PassGatewayBare(r) ==
  /\ requests[r].phase = "gateway"
  /\ \/ RouteOf(requests[r].kind) \in GatewayPublic
     \/ requests[r].bearer = None \/ Valid(requests[r].bearer)
  /\ Moved(r, "service")
  /\ UNCHANGED <<now, rows, tokens, changes>>

\* JwtAuthMiddleware of the gateway; then the proxy sends the request on, headers
\* included.
PassGateway(r) ==
  /\ requests[r].phase = "gateway"
  /\ RouteOf(requests[r].kind) \in GatewayPublic \/ Valid(requests[r].bearer)
  /\ Moved(r, "service")
  /\ UNCHANGED <<now, rows, tokens, changes>>

RefuseAtGateway(r) ==
  /\ requests[r].phase = "gateway"
  /\ RouteOf(requests[r].kind) \notin GatewayPublic /\ ~Valid(requests[r].bearer)
  /\ Dropped(r, "Failed")
  /\ UNCHANGED <<now, rows, tokens, changes>>

\* The limiter comes after the first check (RateLimiter says when it refuses).
Throttle(r) ==
  /\ requests[r].phase = "gateway"
  /\ RouteOf(requests[r].kind) \in GatewayPublic \/ Valid(requests[r].bearer)
  /\ Dropped(r, "Failed")
  /\ UNCHANGED <<now, rows, tokens, changes>>

OpenAtService(kind) == OpenAt(ServiceOf(RouteOf(kind)), RouteOf(kind), MethodOf(kind))

\* The middleware of the service; the handler gets the token's subject.
PassService(r) ==
  LET q == requests[r]
  IN  /\ q.phase = "service"
      /\ OpenAtService(q.kind) \/ Valid(q.bearer)
      /\ requests' = [requests EXCEPT
                        ![r].phase = "handler",
                        ![r].user = IF OpenAtService(q.kind) THEN None
                                    ELSE tokens[q.bearer].sub]
      /\ UNCHANGED <<now, rows, tokens, changes>>

RefuseAtService(r) ==
  /\ requests[r].phase = "service"
  /\ ~OpenAtService(requests[r].kind) /\ ~Valid(requests[r].bearer)
  /\ Ended(r, "Unauthorized")
  /\ UNCHANGED <<now, rows, tokens, changes>>

-----------------------------------------------------------------------------
(* register and login *)

Calls(r, kind) == requests[r].phase = "handler" /\ requests[r].kind = kind

UsersOf(email) == {u \in DOMAIN users : users[u].email = email}

\* Mutant: the address is stored as it was typed.
InsertUserAsTyped(r) ==
  LET email == requests[r].text
  IN  /\ Calls(r, "register")
      /\ requests[r].password \notin Weak
      /\ UsersOf(email) = {}
      /\ users' = With(users, r, [email |-> email, password_hash |-> requests[r].password,
                                  status |-> "ACTIVE", since |-> now, changed |-> FALSE])
      /\ requests' = [requests EXCEPT ![r].phase = "written", ![r].user = r, ![r].read = now]
      /\ UNCHANGED <<now, keys, tokens, changes>>

\* Mutant: an address that is taken gets the password of the second comer.
InsertUserOrUpdate(r) ==
  LET email == Normal(requests[r].text)
      u     == IF UsersOf(email) = {} THEN r ELSE CHOOSE v \in UsersOf(email) : TRUE
  IN  /\ Calls(r, "register")
      /\ requests[r].password \notin Weak
      /\ users' = With(users, u, [email |-> email, password_hash |-> requests[r].password,
                                  status |-> "ACTIVE", since |-> now, changed |-> FALSE])
      /\ requests' = [requests EXCEPT ![r].phase = "written", ![r].user = u, ![r].read = now]
      /\ UNCHANGED <<now, keys, tokens, changes>>

RefuseCredentials(r) ==
  /\ Calls(r, "register")
  /\ requests[r].password \in Weak
  /\ Dropped(r, "Failed")
  /\ UNCHANGED <<now, rows, tokens, changes>>

\* create_user: the INSERT takes the address, which nobody may have.
InsertUser(r) ==
  LET email == Normal(requests[r].text)
  IN  /\ Calls(r, "register")
      /\ requests[r].password \notin Weak
      /\ UsersOf(email) = {}
      /\ users' = With(users, r, [email |-> email, password_hash |-> requests[r].password,
                                  status |-> "ACTIVE", since |-> now, changed |-> FALSE])
      /\ requests' = [requests EXCEPT ![r].phase = "written", ![r].user = r, ![r].read = now]
      /\ UNCHANGED <<now, keys, tokens, changes>>

EmailTaken(r) ==
  /\ Calls(r, "register")
  /\ requests[r].password \notin Weak
  /\ UsersOf(Normal(requests[r].text)) # {}
  /\ Dropped(r, "Failed")
  /\ UNCHANGED <<now, rows, tokens, changes>>

\* Mutant: the status is not looked at.
MayLogInAlways(r, u) ==
  /\ users[u].email = Normal(requests[r].text)
  /\ users[u].password_hash = requests[r].password

MayLogIn(r, u) ==
  /\ users[u].email = Normal(requests[r].text)
  /\ users[u].status = "ACTIVE"
  /\ users[u].password_hash = requests[r].password

\* find_user_by_email; status and password are checked on the row as it was read.
SelectUser(r) ==
  /\ Calls(r, "login")
  /\ \E u \in DOMAIN users :
       /\ MayLogIn(r, u)
       /\ requests' = [requests EXCEPT ![r].phase = "written", ![r].user = u, ![r].read = now]
  /\ UNCHANGED <<now, rows, tokens, changes>>

RefuseLogin(r) ==
  /\ Calls(r, "login")
  /\ \A u \in DOMAIN users : ~MayLogIn(r, u)
  /\ Ended(r, "InvalidCredentials")
  /\ UNCHANGED <<now, rows, tokens, changes>>

\* After the hash was verified, or the row written: the token, from now on.
IssueToken(r) ==
  LET q == requests[r]
  IN  /\ q.phase = "written" /\ q.kind \in {"register", "login"}
      /\ tokens' = With(tokens, r, [sub |-> q.user, email |-> Normal(q.text), iat |-> now,
                                    exp |-> now + jwt_expiration_secs, read |-> q.read])
      /\ requests' = [requests EXCEPT
                        ![r].phase = "answered", ![r].read = 0,
                        ![r].answer = IF q.kind = "register" THEN "Created" ELSE "Ok"]
      /\ UNCHANGED <<now, rows, changes>>

-----------------------------------------------------------------------------
(* The handlers behind a token *)

\* What a key may do: READ if nothing was asked for.
Granted(asked) == IF asked = {} THEN {"READ"} ELSE asked

InsertKey(r) ==
  /\ Calls(r, "create_api_key")
  /\ Granted(requests[r].asked) \subseteq Permissions
  /\ keys' = With(keys, r, [user_id |-> requests[r].user,
                            permissions |-> Granted(requests[r].asked)])
  /\ Moved(r, "written")
  /\ UNCHANGED <<now, users, tokens, changes>>

RefusePermission(r) ==
  /\ Calls(r, "create_api_key")
  /\ ~(Granted(requests[r].asked) \subseteq Permissions)
  /\ Dropped(r, "Failed")
  /\ UNCHANGED <<now, rows, tokens, changes>>

KeysOf(u) == {k \in DOMAIN keys : keys[k].user_id = u}

\* Mutant: every user's keys are listed.
ListKeysOfAll(r) ==
  /\ Calls(r, "list_api_keys")
  /\ requests' = [requests EXCEPT ![r].phase = "written", ![r].listed = DOMAIN keys]
  /\ UNCHANGED <<now, rows, tokens, changes>>

ListKeys(r) ==
  /\ Calls(r, "list_api_keys")
  /\ requests' = [requests EXCEPT ![r].phase = "written",
                                  ![r].listed = KeysOf(requests[r].user)]
  /\ UNCHANGED <<now, rows, tokens, changes>>

\* Mutant: the owner is not looked at.
DeleteAnyKey(r) ==
  LET k == requests[r].key
  IN  /\ Calls(r, "delete_api_key")
      /\ k \in DOMAIN keys
      /\ keys' = [q \in DOMAIN keys \ {k} |-> keys[q]]
      /\ Moved(r, "written")
      /\ UNCHANGED <<now, users, tokens, changes>>

\* DELETE ... WHERE id AND user_id
DeleteKey(r) ==
  LET k == requests[r].key
  IN  /\ Calls(r, "delete_api_key")
      /\ k \in KeysOf(requests[r].user)
      /\ keys' = [q \in DOMAIN keys \ {k} |-> keys[q]]
      /\ Moved(r, "written")
      /\ UNCHANGED <<now, users, tokens, changes>>

\* No row was deleted: ApiKeyNotFound, which has no answer of its own.
KeyNotFound(r) ==
  /\ Calls(r, "delete_api_key")
  /\ requests[r].key \notin KeysOf(requests[r].user)
  /\ Dropped(r, "Failed")
  /\ UNCHANGED <<now, rows, tokens, changes>>

\* me, which reads the user's row and shows it whatever its status is, and the
\* handlers of other services.
Serve(r) ==
  /\ requests[r].phase = "handler"
  /\ requests[r].kind \in {"me", "place_order", "get_depth"}
  /\ requests[r].kind = "me" => requests[r].user \in DOMAIN users
  /\ Moved(r, "written")
  /\ UNCHANGED <<now, rows, tokens, changes>>

\* The router of the auth service comes after its middleware.
NotFound(r) ==
  /\ requests[r].phase = "handler" /\ requests[r].kind \in NoHandler
  /\ Dropped(r, "Failed")
  /\ UNCHANGED <<now, rows, tokens, changes>>

Reply(r) ==
  LET kind == requests[r].kind
  IN  /\ requests[r].phase = "written" /\ kind \notin {"register", "login"}
      /\ CASE kind = "create_api_key" -> Ended(r, "Created")
           [] kind = "delete_api_key" -> Ended(r, "Deleted")
           [] kind = "list_api_keys"  -> Ended(r, "Ok")
           [] OTHER                   -> Dropped(r, "Ok")
      /\ UNCHANGED <<now, rows, tokens, changes>>

\* A statement or a call fails, an answer is lost, or the client goes away.
Fail(r) ==
  /\ r \in InFlight
  /\ IF requests[r].phase = "written" /\ requests[r].kind \in KeyHandlers
     THEN Ended(r, "Failed") ELSE Dropped(r, "Failed")
  /\ UNCHANGED <<now, rows, tokens, changes>>

-----------------------------------------------------------------------------
\* The code has no handler that does it: an operator changes a status in the table.
SetStatus(u, status) ==
  /\ changes < MaxChanges
  /\ users[u].status # status
  /\ users' = [users EXCEPT ![u].status = status, ![u].changed = TRUE,
                              ![u].since = IF users[u].status = "ACTIVE" THEN now ELSE @]
  /\ changes' = changes + 1
  /\ UNCHANGED <<now, keys, tokens, requests>>

Tick ==
  /\ now < MaxTime
  /\ now' = now + 1
  /\ UNCHANGED <<rows, tokens, requests, changes>>

\* All requests have been answered.
Quiet ==
  /\ Answered = Request
  /\ UNCHANGED vars

Send(r) ==
  \/ \E kind \in Kind \cap {"register", "login"}, credential \in Credential :
       SendCredentials(r, kind, credential[1], credential[2])
  \/ \E kind \in Kind \cap ({"me", "list_api_keys", "place_order", "get_depth"} \cup NoHandler),
        bearer \in DOMAIN tokens \cup {None} : SendRequest(r, kind, bearer)
  \/ /\ "create_api_key" \in Kind
     /\ \E bearer \in DOMAIN tokens, asked \in Asked : SendCreate(r, bearer, asked)
  \/ /\ "delete_api_key" \in Kind
     /\ \E bearer \in DOMAIN tokens, key \in DOMAIN keys : SendDelete(r, bearer, key)

Check(r) == PassGateway(r) \/ RefuseAtGateway(r) \/ Throttle(r) \/ PassService(r) \/ RefuseAtService(r)

Handle(r) ==
  \/ RefuseCredentials(r) \/ InsertUser(r) \/ EmailTaken(r) \/ SelectUser(r) \/ RefuseLogin(r) \/ IssueToken(r)
  \/ InsertKey(r) \/ RefusePermission(r) \/ ListKeys(r) \/ DeleteKey(r) \/ KeyNotFound(r)
  \/ Serve(r) \/ NotFound(r) \/ Reply(r)

Next ==
  \/ \E r \in Request : Send(r) \/ Check(r) \/ Handle(r) \/ Fail(r)
  \/ \E u \in DOMAIN users, status \in UserStatus : SetStatus(u, status)
  \/ Tick
  \/ Quiet

Spec == Init /\ [][Next]_vars

-----------------------------------------------------------------------------
(* Properties *)

\* A token names a user that exists, by the address in its row; whoever got it has
\* given the password that is stored; and of all registrations of one address, at
\* any time and in any spelling, one at most was given a token.
TokensAreEarned ==
  /\ \A t \in DOMAIN tokens :
       /\ tokens[t].sub \in DOMAIN users
       /\ users[tokens[t].sub].email = tokens[t].email
       /\ users[tokens[t].sub].password_hash = requests[t].password
  /\ \A t, u \in DOMAIN tokens :
       /\ requests[t].kind = "register" /\ requests[u].kind = "register"
       /\ tokens[t].email = tokens[u].email
       => t = u

\* Whoever was told that an account was created can log in from then on, in any
\* spelling of the address, as long as nobody changes the status.
RegisteredCanLogIn ==
  \A r \in Request : \A g \in requests[r].known :
    /\ requests[r].answer = "InvalidCredentials"
    /\ requests[g].kind = "register" /\ requests[g].answer = "Created"
    /\ Normal(requests[g].text) = Normal(requests[r].text)
    /\ requests[g].password = requests[r].password
    => users[g].changed

Protected(r) == ~OpenAtService(requests[r].kind)

\* A user who is not ACTIVE any more gets no further than the life of a token from
\* then on, with the leeway, and with the time that the login took whose SELECT still
\* found the user ACTIVE.
SuspendedLoseAccess ==
  [][\A r \in Request :
       requests[r].phase = "service" /\ requests'[r].phase = "handler" /\ Protected(r)
         => LET token == tokens[requests[r].bearer]
                user  == users[token.sub]
            IN  user.status # "ACTIVE" =>
                  now <= user.since + (token.iat - token.read) + jwt_expiration_secs + leeway]_vars

\* A method that the auth service does not take on a route that is open to another.
Misdirected(route, method) == route \in {"auth/register", "auth/login"} /\ method # "POST"

\* The two checks come to one verdict.  A route that the gateway proxies is open at both
\* or at neither, except for misdirected requests, which the gateway alone lets through;
\* and what the gateway has let through its service refuses only if the token has run
\* out in between, or if it has no handler for the request.
ChecksAgree ==
  /\ \A s \in DOMAIN Proxied : \A route \in Proxied[s], method \in Method :
       OpenAt(s, route, method) <=> route \in GatewayPublic /\ ~Misdirected(route, method)
  /\ \A r \in Request :
       requests[r].answer = "Unauthorized" =>
         \/ requests[r].kind \in NoHandler
         \/ /\ requests[r].bearer # None
            /\ tokens[requests[r].bearer].exp + leeway < now

Deletes(d, k) == requests[d].kind = "delete_api_key" /\ requests[d].key = k

\* A key whose creation was answered is there until its owner deletes it, with what was
\* asked for; a deletion that was answered is final, and answered once.
KeysAccounted ==
  /\ \A k \in Request :
       requests[k].kind = "create_api_key" /\ requests[k].answer = "Created" =>
         \/ /\ k \in KeysOf(tokens[requests[k].bearer].sub)
            /\ keys[k].permissions = Granted(requests[k].asked)
         \/ \E d \in Request : Deletes(d, k) /\ requests[d].user = requests[k].user
  /\ \A d \in Request : requests[d].answer = "Deleted" =>
       /\ requests[d].key \notin DOMAIN keys
       /\ \A e \in Request :
            Deletes(e, requests[d].key) /\ requests[e].answer = "Deleted" => e = d

\* A list shows the bearer's keys and no others: all whose creation had been answered
\* before, unless deleted, and none whose deletion had been answered before.
ListsAreCurrent ==
  \A r \in Request :
    LET q == requests[r]
    IN  q.kind = "list_api_keys" /\ q.answer = "Ok" =>
          /\ \A k \in q.listed :
               /\ requests[k].user = q.user
               /\ \A d \in q.known : Deletes(d, k) => requests[d].answer # "Deleted"
          /\ \A k \in q.known :
               /\ requests[k].kind = "create_api_key" /\ requests[k].answer = "Created"
               /\ requests[k].user = q.user
               => k \in q.listed \/ \E d \in Request : Deletes(d, k)
=============================================================================
