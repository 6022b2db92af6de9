------------------------------ MODULE KycService ------------------------------
(***************************************************************************)
(* The kyc-service process (kyc-service/src/app.ts, server.ts, sessions.ts) *)
(* around the verification service: boot guard, the session capability     *)
(* loaded once, requests in flight, the provider's posts and its retries,  *)
(* the retries of calls to the provider, SIGTERM and crashes.              *)
(*                                                                         *)
(* A request is abstracted to its route and to where it is in its handler; *)
(* what the verification service does inside is VerificationService.       *)
(***************************************************************************)
EXTENDS ServiceConfig, HttpSurface, FiniteSets

CONSTANTS Slot,         \* requests the process may have in flight
          Genuine,      \* notices the provider signed and keeps posting
          Forged,       \* ... whose signature the secret does not make
          Garbled,      \* ... signed, and not a payload the adapter reads
          Foreign,      \* ... posted to another provider's path
          Asked,        \* what requests carry
          Exercised,    \* environments whose traffic is explored
          MaxAttempts,  \* RETRY_CONFIG.maxAttempts
          MaxBoots      \* bound: times the process is started

Notice == Genuine \cup Forged \cup Garbled \cup Foreign
None   == "none"

ASSUME ServiceAssumption ==
  /\ MaxAttempts \in Nat \ {0} /\ MaxBoots \in Nat \ {0}
  /\ Exercised \subseteq Env /\ Asked \subseteq Presented /\ IsFiniteSet(Slot)
  /\ None \notin Notice /\ Genuine \cap Forged = {}

VARIABLES env, nodeTest,  \* the environment, and NODE_ENV=test in it
          phase,          \* of the process
          boots,
          capability,     \* the promise of app.ts, then Apollo behind it
          request,        \* Slot -> the request it holds
          handled,        \* notices handleWebhookEvent has returned an outcome for
          acked           \* notices the provider has a 200 for

vars == <<env, nodeTest, phase, boots, capability, request, handled, acked>>

Handler == {"token", "graphql", "hosted", "webhook"}

Idle == [at |-> "idle"]

Request == [at : {"entered", "calling", "working", "handled"}, route : Handler,
            notice : Notice \cup {None}, tries : 0..(MaxAttempts - 1), heard : BOOLEAN]

Busy == {s \in Slot : request[s] # Idle}

Init == /\ env \in Env /\ nodeTest \in IF env \in Exercised THEN BOOLEAN ELSE {FALSE}
        /\ phase = "down" /\ boots = 0 /\ capability = "off"
        /\ request = [s \in Slot |-> Idle]
        /\ handled = {} /\ acked = {}

-----------------------------------------------------------------------------
(* Starting *)

\* The container and Vercel entries bring a loader of the session module
Loadable(e) == e.target # "cloudflare"

Boot ==
  /\ phase = "down" /\ boots < MaxBoots
  /\ boots' = boots + 1
  /\ IF Errors(env) = {} /\ ~VerifierThrows(env) /\ (HasSessions(env) => Loadable(env))
       THEN /\ phase' = "serving"
            /\ capability' = IF HasSessions(env) THEN "loading" ELSE "off"
       ELSE phase' = "refused" /\ UNCHANGED capability
  /\ UNCHANGED <<env, nodeTest, request, handled, acked>>

\* createSessionCapability resolves, once; a failure is kept for good
Loads ==
  /\ capability = "loading" /\ env \in Exercised
  /\ capability' \in {"ready", "failed"}
  /\ UNCHANGED <<env, nodeTest, phase, boots, request, handled, acked>>

-----------------------------------------------------------------------------
(* Requests *)

\* The answer goes out.  A 200 on a notice the provider still waits for is
\* what stops its retries.
Replies(s, status) ==
  /\ request' = [request EXCEPT ![s] = Idle]
  /\ acked' = acked \cup {n \in Notice : /\ request[s].notice = n
                                         /\ request[s].heard /\ status = 200}
  /\ UNCHANGED <<env, nodeTest, phase, boots, capability, handled>>

Moves(s, r) ==
  /\ request' = [request EXCEPT ![s] = r]
  /\ UNCHANGED <<env, nodeTest, phase, boots, capability, handled, acked>>

\* server.ts and app.ts: over its limit a request is answered 429, and what no
\* handler takes (a health check, a preflight, an unknown path) at once; neither
\* is kept in a slot
Taken(handler) ==
  \E method \in Method, path \in Path, cors \in BOOLEAN :
    Route(capability # "off", cors, method, path) = handler

Arrives(s, handler, n) ==
  /\ phase = "serving" /\ env \in Exercised /\ request[s] = Idle
  /\ Taken(handler)
  /\ Moves(s, [at |-> "entered", route |-> handler, notice |-> n, tries |-> 0, heard |-> TRUE])

Asks(s, handler) == handler # "webhook" /\ Arrives(s, handler, None)

\* The provider posts what it has no 200 for, and does not post it twice at
\* a time while it waits
Posts(s, n) ==
  /\ n \notin acked
  /\ \A t \in Busy : ~(request[t].notice = n /\ request[t].heard)
  /\ Arrives(s, "webhook", n)

\* ... and stops waiting: the handler goes on
GivesUp(s) ==
  /\ s \in Busy /\ request[s].notice # None /\ request[s].heard
  /\ Moves(s, [request[s] EXCEPT !.heard = FALSE])

\* The handlers of sessions.ts are reached through the loaded capability
Reached(s) == request[s].at = "entered" /\ capability \in {"ready", "stopped"}

Unloaded(s) ==
  /\ request[s].at = "entered" /\ request[s].route # "token"
  /\ capability = "failed"
  /\ Replies(s, 500)

\* Takes a thrown verification for a pass
BugVerified(e, n) == TRUE

\* Deaf to what the boot guard lets a development service leave out
BugVerifiedBySecret(e, n) == WebhookSecret(e) /\ n \notin Forged

\* The mock's verifyWebhook: it has a secret, its own by default
MockVerified(n) == n \notin Forged

\* verifyHexDigest: without a secret only a development service takes a notice,
\* whatever its signature
HexVerified(e, n) == IF e.webhookSecret THEN n \notin Forged ELSE e.insecure

\* The adapter's verifyWebhook
Verified(e, n) == IF ProviderName(e) = "mock" THEN MockVerified(n) ELSE HexVerified(e, n)

\* parseWebhookEvent: null for what is no payload of the provider's
Parses(n) == n \notin Garbled

\* What a webhook is answered before it is processed, or 200
Admission(e, n) ==
  IF n \in Foreign THEN 404
  ELSE IF ~Verified(e, n) THEN 401 ELSE IF ~Parses(n) THEN 400 ELSE 200

WebhookEnters(s) ==
  /\ Reached(s) /\ request[s].route = "webhook"
  /\ LET status == Admission(env, request[s].notice)
     IN IF status = 200 THEN Moves(s, [request[s] EXCEPT !.at = "working"])
                        ELSE Replies(s, status)

\* handleWebhookEvent returns: its transaction committed (an update, or none to
\* make), or it set the notice aside without one, for naming no status or finding
\* no session.  The answer is a 200 all the same; what each leaves of the notice is
\* VerificationService's.
Concludes(s) ==
  /\ request[s].at = "working"
  /\ request' = [request EXCEPT ![s].at = "handled"]
  /\ handled' = handled \cup {request[s].notice}
  /\ UNCHANGED <<env, nodeTest, phase, boots, capability, acked>>

\* handleWebhookEvent throws: 500, and the provider posts it again
ProcessingFails(s) == request[s].at = "working" /\ Replies(s, 500)

\* The handler had nothing to wait for
BugAnswersFirst(s) == request[s].at \in {"working", "handled"} /\ Replies(s, 200)

Answers(s) == request[s].at = "handled" /\ Replies(s, 200)

Calls(s) == Moves(s, [request[s] EXCEPT !.at = "calling"])

Caller(q) == Authenticated(SessionSource(env), q)

\* mintAccessTokenHttp, without a hook: refused, or a mint
TokenEnters(s) ==
  /\ request[s].at = "entered" /\ request[s].route = "token"
  /\ \E q \in Asked :
       LET status == FetchToken(Caller(q), q.body, "none")
       IN IF status = 200 THEN Calls(s) ELSE Replies(s, status)

\* Apollo answers itself what is no operation of the schema, or whose variables
\* are not of its types.  An operation is answered 200, its errors in the body.
Executable(q) ==
  /\ q.body.json = "parsed"
  /\ q.op = "start" => q.body.platform /\ "notText" \notin {q.body.levelName, q.body.locale}
  /\ q.op \in {"refresh", "status"} => q.body.sessionId \notin {"absent", "notText"}

\* ... and an Apollo that was stopped refuses them all.  What a session's row
\* settles needs no call: one not found or terminal, or a stored status.
GraphqlEnters(s) ==
  /\ Reached(s) /\ request[s].route = "graphql"
  /\ \E q \in Asked :
       \/ capability = "stopped" /\ Replies(s, 500)
       \/ capability # "stopped" /\ ~Executable(q) /\ Replies(s, 400)
       \/ capability # "stopped" /\ Executable(q) /\ Replies(s, 200)
       \/ /\ capability # "stopped" /\ Executable(q)
          /\ Refusal(q.op, Caller(q), q.body) = OK /\ Calls(s)

\* The page of a live session needs a token of its own
HostedEnters(s) ==
  /\ Reached(s) /\ request[s].route = "hosted"
  /\ Replies(s, 404) \/ Replies(s, 500) \/ Calls(s)

-----------------------------------------------------------------------------
(* A call to the provider (http.ts, providers/sumsub) *)

\* What one attempt comes to: 2xx, 4xx, 404, 429, 5xx, no answer in time, or an
\* answer that is none of those: a 3xx, a body that is not JSON
Attempt == {"ok", "client", "notFound", "busy", "server", "network", "malformed"}

\* The mock mints in memory, for anyone
Attempts(e) == IF ProviderName(e) = "mock" THEN {"ok"} ELSE Attempt

IsClientError(a) == a \in {"client", "notFound"}

ShouldRetry(a) == a \in {"busy", "server", "network"}

\* The attempt is not counted
BugRetries(tries) == TRUE

Retries(tries) == tries + 1 < MaxAttempts

\* mintToken's errors
MintError(a) == IF IsClientError(a) THEN "SESSION_CREATION_FAILED" ELSE "PROVIDER_UNAVAILABLE"

\* handlers.ts; GraphQL puts the code in the body of a 200
StatusOf(route, code) ==
  IF route = "graphql" THEN 200 ELSE StatusByCode(code)

CallReturns(s) ==
  /\ request[s].at = "calling"
  /\ \E a \in Attempts(env) :
       \/ a = "ok" /\ Replies(s, 200)
       \/ /\ ShouldRetry(a) /\ Retries(request[s].tries)
          /\ Moves(s, [request[s] EXCEPT !.tries = (@ + 1) % MaxAttempts])
       \/ /\ a # "ok" /\ ~(ShouldRetry(a) /\ Retries(request[s].tries))
          /\ Replies(s, StatusOf(request[s].route, MintError(a)))

-----------------------------------------------------------------------------
(* Stopping *)

Down ==
  /\ phase' = "down" /\ capability' = "off" /\ request' = [s \in Slot |-> Idle]
  /\ UNCHANGED <<env, nodeTest, boots, handled, acked>>

\* Apollo's own listener: on by default, off under NODE_ENV=test
ApolloListens == capability = "ready" /\ ~nodeTest

\* The handler of startServer closes the listener.  Apollo's stops Apollo.
Sigterm ==
  /\ phase = "serving" /\ env \in Exercised /\ env.target = "container"
  /\ phase' = "closing"
  /\ capability' = IF ApolloListens THEN "stopped" ELSE capability
  /\ UNCHANGED <<env, nodeTest, boots, request, handled, acked>>

\* ... and then sends the process the signal again: process.once has removed
\* every other listener, so the process ends
Resignals ==
  /\ phase = "closing" /\ capability = "stopped" /\ ~nodeTest
  /\ Down

\* app.stop without waiting for server.close
BugClosed == phase = "closing"

\* server.close calls back
Closed == phase = "closing" /\ Busy = {}

\* app.stop waits for the capability, and stops it
Stops ==
  /\ Closed /\ capability = "ready"
  /\ capability' = "stopped"
  /\ UNCHANGED <<env, nodeTest, phase, boots, request, handled, acked>>

\* Nothing is left to run.  A capability that failed to load rejects app.stop,
\* which shutdown reports.
Exits ==
  /\ Closed /\ capability \in {"off", "stopped", "failed"}
  /\ Down

\* The container is killed, or the process crashes
Crash == phase \in {"serving", "closing"} /\ env \in Exercised /\ boots < MaxBoots /\ Down

-----------------------------------------------------------------------------
Handles(s) ==
  \/ Unloaded(s) \/ WebhookEnters(s) \/ Concludes(s) \/ ProcessingFails(s) \/ Answers(s)
  \/ TokenEnters(s) \/ GraphqlEnters(s) \/ HostedEnters(s) \/ CallReturns(s)

Next ==
  \/ Boot \/ Loads \/ Sigterm \/ Resignals \/ Stops \/ Exits \/ Crash
  \/ \E s \in Slot :
       \/ \E handler \in Handler : Asks(s, handler)
       \/ \E n \in Notice : Posts(s, n)
       \/ GivesUp(s) \/ Handles(s)

Heard(s, n) == s \in Busy /\ request[s].notice = n /\ request[s].heard

\* The event loop runs what can run.  The provider posts again what it has no
\* 200 for whenever a request can be taken, and of infinitely many deliveries
\* of a notice one is read, one is concluded and one is answered before the
\* provider gives up on it.
Fairness ==
  /\ WF_vars(Boot) /\ WF_vars(Loads) /\ WF_vars(Stops) /\ WF_vars(Exits) /\ WF_vars(Resignals)
  /\ \A s \in Slot : WF_vars(Handles(s))
  /\ \A n \in Genuine :
       /\ SF_vars(\E s \in Slot : Posts(s, n))
       /\ SF_vars(\E s \in Slot : Heard(s, n) /\ WebhookEnters(s))
       /\ SF_vars(\E s \in Slot : Heard(s, n) /\ Concludes(s))
       /\ SF_vars(\E s \in Slot : Heard(s, n) /\ Answers(s))

Spec == Init /\ [][Next]_vars /\ Fairness

-----------------------------------------------------------------------------
(* Properties *)

\* Every variable keeps its type: a request is nowhere else than in its
\* handler, a capability is stopped only by a process that is closing,
\* requests are held by a running process, and the session routes' only by
\* one that has sessions.
ServiceTypeOK ==
  /\ env \in Env /\ nodeTest \in BOOLEAN /\ boots \in 0..MaxBoots
  /\ phase \in {"down", "refused", "serving", "closing"}
  /\ capability \in {"off", "loading", "ready", "failed", "stopped"}
  /\ request \in [Slot -> Request \cup {Idle}]
  /\ handled \subseteq Notice /\ acked \subseteq Notice
  /\ capability = "stopped" => phase = "closing"
  /\ Busy # {} => phase \in {"serving", "closing"}
  /\ \A s \in Busy : request[s].route # "token" => capability # "off"

\* A notice the provider will not post again was handled to its end once,
\* whatever crash, timeout or failure came between its deliveries: no 200 goes
\* out for one whose handling only failed, was lost or was refused
\* (processWebhookHttp).  What a notice set aside may lose is
\* SetAsideHadNoSession of VerificationService.
AckMeansHandled == acked \subseteq handled

\* Nothing is handled that was posted to another provider's path, that the
\* adapter cannot read, or, by a deployment that has a secret, that was not
\* signed with it (processWebhookHttp, createSessionCapability).
OnlyAuthentic ==
  /\ handled \cap (Foreign \cup Garbled) = {}
  /\ WebhookSecret(env) => handled \cap Forged = {}

\* What the boot guard lets start can do what it promises: a deployment with
\* sessions can load them, verify its provider's notices and name the page's
\* URL, and one in production runs on live credentials (validateConfig
\* against app.ts, signature.ts and publicUrl.ts).
StartedCanServe ==
  phase = "serving" =>
    /\ HasSessions(env) =>
         /\ Loadable(env) /\ PublicBaseUrl(env) \in {"http", "local"}
         /\ \A n \in Genuine : Verified(env, n)
    /\ env.production /\ ~env.allowDemo =>
         ProviderName(env) = "sumsub" /\ env.appToken = "live"

\* A drain that Apollo's listener does not cut short stops the sessions, and
\* the process, only when nothing is in flight.  (A process that may be
\* started again may also crash: those are left out.)
OrderlyDrain ==
  [][/\ phase = "closing" /\ boots = MaxBoots /\ (nodeTest \/ capability # "stopped")
     /\ phase' = "down" \/ capability' = "stopped"
     => Busy = {}]_vars

\* A SIGTERM ends the process: retries, loads and answers all come to an end
\* (startServer's drain, withRetry).
DrainCompletes == (phase = "closing") ~> (phase = "down")

\* The longest way a request still has to its answer: a retry takes one of the
\* calls that are left.
Work(q) ==
  IF q = Idle THEN 0
  ELSE CASE q.at = "entered"   -> MaxAttempts + 2
         [] q.at = "calling"   -> MaxAttempts - q.tries
         [] q.at = "working"   -> 2
         [] q.at = "handled"   -> 1

\* A draining process takes nothing on: no request's way to its answer gets
\* longer, and every step of its handler, a retry of a failed call included,
\* makes it shorter (server.close, withRetry).
DrainShrinks ==
  [][phase = "closing" =>
       \A s \in Slot : /\ Work(request'[s]) <= Work(request[s])
                       /\ Handles(s) => Work(request'[s]) < Work(request[s])]_vars

\* ... and no request of it waits for anything but the sessions it has still to
\* load: neither a failed load nor a stopped Apollo leaves one unanswered.
CanMove(s) ==
  \/ request[s].at \in {"calling", "working", "handled"}
  \/ request[s].route = "token" \/ capability \in {"ready", "stopped", "failed"}

DrainGoesOn ==
  phase = "closing" =>
    /\ env \in Exercised
    /\ capability = "loading" \/ \A s \in Busy : CanMove(s)

\* A service that stays up, with its sessions loaded, has each notice of its
\* provider acknowledged in the end, the failures, the timeouts
\* and the crashes before notwithstanding (processWebhookHttp: "the provider
\* retries; the handler is idempotent").
NoticesArrive ==
  <>[](phase = "serving" /\ capability = "ready") => \A n \in Genuine : <>(n \in acked)
=============================================================================
