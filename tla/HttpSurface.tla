----------------------------- MODULE HttpSurface -----------------------------
(***************************************************************************)
(* What an HTTP request of kyc-node and kyc-service comes to before a      *)
(* session is read or a provider is called: its route, its caller, the     *)
(* checks of its input and the status of what these refuse.                *)
(*                                                                         *)
(* A request is reduced to what the checks look at: a text is absent,      *)
(* blank, too long, of an odd shape or fine, or no text at all (a number,  *)
(* say); a bearer token is none, one that does not verify, or one that     *)
(* does.                                                                   *)
(***************************************************************************)

Text == {"absent", "blank", "long", "odd", "fine", "notText"}

Body == [json : {"absent", "invalid", "parsed"},   \* no body is fine, one that is not JSON is not
         platform : BOOLEAN,                       \* names a platform
         levelName : Text, locale : Text, sessionId : Text]

Operation == {"start", "refresh", "status", "latest"}

Presented == [bearer : {"none", "unverified", "verified"}, op : Operation, body : Body]

\* The host's level decision: none, a level, VALIDATION_ERROR, or a crash
LevelForHook == {"none", "picks", "refuses", "throws"}

-----------------------------------------------------------------------------
(* The caller *)

\* bearerToken: nothing, another scheme and a blank token are no token
HasToken(q) == q.bearer # "none"

\* session.ts: without verification the token is the user id; with it, whatever
\* is wrong with a token makes its bearer nobody
Authenticated(source, q) ==
  HasToken(q) /\ (source = "insecure" \/ (source # "none" /\ q.bearer = "verified"))

-----------------------------------------------------------------------------
(* Its input (validation.ts): OK, or the code of what is thrown.  A TypeError *)
(* has none and comes out as INTERNAL_ERROR.                                  *)

OK == "OK"

\* ... on what refreshSessionHttp makes of it: no text is ''
RequireId(id) == id \in {"long", "odd", "fine"}

\* Absent is fine; value.trim is no function of what is no text
OptionalText(text) ==
  CASE text \in {"blank", "long"} -> "VALIDATION_ERROR"
    [] text = "notText" -> "INTERNAL_ERROR"
    [] OTHER -> OK

LocaleText(text) == IF text = "odd" THEN "VALIDATION_ERROR" ELSE OptionalText(text)

\* The first of its checks that fails
ValidateStartInput(body) ==
  IF body.json # "parsed" \/ ~body.platform THEN "VALIDATION_ERROR"
  ELSE IF OptionalText(body.levelName) # OK THEN OptionalText(body.levelName)
  ELSE LocaleText(body.locale)

-----------------------------------------------------------------------------
(* What an operation refuses before it reads a session, by its code *)

\* createVerificationService: start, refresh, status, latestForUser
Refusal(op, user, body) ==
  CASE ~user -> "UNAUTHORIZED"
    [] user /\ op = "start" -> ValidateStartInput(body)
    [] user /\ op \in {"refresh", "status"} /\ ~RequireId(body.sessionId) -> "VALIDATION_ERROR"
    [] OTHER -> OK

\* mintAccessTokenHttp: start's checks, then the host's hook
MintRefusal(user, body, hook) ==
  LET code == Refusal("start", user, body) IN
  CASE code # OK -> code
    [] code = OK /\ hook = "refuses" -> "VALIDATION_ERROR"
    [] code = OK /\ hook = "throws" -> "INTERNAL_ERROR"
    [] OTHER -> OK

\* The level that is minted: the client's name for one is input, not a decision
LevelMinted(body, hook) == IF hook = "none" THEN body.levelName ELSE "fine"

\* STATUS_BY_CODE, and 500 for what is not coded
StatusByCode(code) ==
  CASE code = OK -> 200
    [] code = "UNAUTHORIZED" -> 401
    [] code = "VALIDATION_ERROR" -> 400
    [] code = "SESSION_NOT_FOUND" -> 404
    [] code \in {"SESSION_CREATION_FAILED", "PROVIDER_UNAVAILABLE"} -> 502
    [] OTHER -> 500

-----------------------------------------------------------------------------
(* Fetch handlers (handlers.ts) *)

\* readJson: a body that is not JSON is answered before the caller is known
Unreadable(body) == body.json = "invalid"

\* startSessionHttp, refreshSessionHttp
SessionHttp(op, user, body) == StatusByCode(Refusal(op, user, body))

\* createSessionStartHandler, createSessionRefreshHandler
SessionHandler(op, user, body) ==
  IF Unreadable(body) THEN 400 ELSE SessionHttp(op, user, body)

\* createAccessTokenApp: POST on its path
FetchToken(user, body, hook) ==
  IF Unreadable(body) THEN 400 ELSE StatusByCode(MintRefusal(user, body, hook))

AccessTokenRoute(method, path, cors, health) ==
  CASE cors /\ method = "OPTIONS" /\ path = "token" -> "preflight"
    [] method = "POST" /\ path = "token" -> "token"
    [] health /\ method = "GET" /\ path = "health" -> "health"
    [] OTHER -> "unknown"

-----------------------------------------------------------------------------
(* The Express routers (express.ts) *)

\* express.json reads what is typed as JSON and fits, and answers itself what
\* is too large or not JSON; what it does not read, the handler does not see
Unseen(body) == [body EXCEPT !.json = "absent"]

ExpressToken(user, body, hook, typed, fits) ==
  CASE typed /\ ~fits -> 413
    [] typed /\ fits -> FetchToken(user, body, hook)
    [] OTHER -> StatusByCode(MintRefusal(user, Unseen(body), hook))

KycRoute(method, path) ==
  CASE method = "GET" /\ path \in {"health", "hosted"} -> path
    [] method = "POST" /\ path = "webhook" -> path
    [] OTHER -> "unknown"

-----------------------------------------------------------------------------
(* kyc-service (app.ts) *)

\* The prefix alone routes a request
BugRoute(sessions, cors, method, path) ==
  CASE method = "OPTIONS" /\ path = "graphql" -> "preflight"
    [] method = "GET" /\ path = "health" -> "health"
    [] method = "POST" /\ path = "webhook" -> "webhook"
    [] path = "graphql" -> "graphql"
    [] method = "GET" /\ path = "hosted" -> "hosted"
    [] OTHER -> AccessTokenRoute(method, path, cors, FALSE)

\* createKycApp: the session routes of a deployment without sessions are
\* unknown
Route(sessions, cors, method, path) ==
  CASE method = "OPTIONS" /\ path = "graphql" -> "preflight"
    [] method = "GET" /\ path = "health" -> "health"
    [] sessions /\ method = "POST" /\ path = "webhook" -> "webhook"
    [] sessions /\ method # "OPTIONS" /\ path = "graphql" -> "graphql"
    [] sessions /\ method = "GET" /\ path = "hosted" -> "hosted"
    [] OTHER -> AccessTokenRoute(method, path, cors, FALSE)

Method == {"GET", "POST", "OPTIONS"}
Path == {"health", "token", "webhook", "graphql", "hosted", "elsewhere"}

-----------------------------------------------------------------------------
(* Who may read an answer in a browser: the CORS headers of both packages.  An *)
(* origin is the request's Origin or none, a policy the origins the host       *)
(* listed, and a response's headers name what it allows and whether it varies. *)

NoOrigin == "none"

Unmarked == [vary |-> FALSE, allow |-> NoOrigin]

\* The allowed origin echoed back, or *
Echoed(origins, origin) ==
  CASE origin = NoOrigin -> NoOrigin
    [] origin # NoOrigin /\ "*" \in origins -> "*"
    [] OTHER -> IF origin \in origins THEN origin ELSE NoOrigin

\* corsHeaders of handlers.ts, where the host configured a policy
PolicyHeaders(origins, origin) == [vary |-> TRUE, allow |-> Echoed(origins, origin)]

\* createAccessTokenApp marks its preflight and its mint, and nothing else
TokenHeaders(configured, origins, origin, method, path, health) ==
  IF configured /\ AccessTokenRoute(method, path, TRUE, health) \in {"preflight", "token"}
  THEN PolicyHeaders(origins, origin) ELSE Unmarked

\* corsHeaders of app.ts: an empty list is no policy
CorsHeaders(origins, origin) ==
  IF origins = {} THEN Unmarked ELSE PolicyHeaders(origins, origin)

\* withDefaults: what the response does not already say for itself
WithDefaults(response, headers) ==
  [vary  |-> response.vary \/ headers.vary,
   allow |-> IF response.allow = NoOrigin THEN headers.allow ELSE response.allow]

\* createKycApp's fetch: what the token app marked, then the service's own
KycHeaders(sessions, origins, origin, method, path) ==
  LET route == Route(sessions, origins # {}, method, path)
  IN  IF route = "preflight" /\ path = "graphql" THEN CorsHeaders(origins, origin)
      ELSE WithDefaults(IF route \in {"preflight", "token", "unknown"}
                        THEN TokenHeaders(origins # {}, origins, origin, method, path, FALSE)
                        ELSE Unmarked,
                        CorsHeaders(origins, origin))

\* server.ts: a request over its limit is answered before the app sees it
LimitedHeaders(origins, origin) == WithDefaults(Unmarked, CorsHeaders(origins, origin))
=============================================================================
