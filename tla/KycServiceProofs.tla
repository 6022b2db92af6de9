--------------------------- MODULE KycServiceProofs ---------------------------
(***************************************************************************)
(* The safety of the kyc-service process, for any number of requests in    *)
(* flight, any notices and any environment.                                *)
(***************************************************************************)
EXTENDS KycService, TLAPS

\* What a request in a slot is about, by where it is in its handler
Consistent(r) ==
  /\ r.notice # None <=> r.route = "webhook"
  /\ r.at = "calling" => r.route # "webhook"
  /\ r.at \in {"working", "handled"} => r.route = "webhook" /\ Admission(env, r.notice) = 200
  /\ r.at = "handled" => r.notice \in handled

RequestsConsistent == \A s \in Busy : Consistent(request[s])

HandledAreAdmitted == \A n \in handled : Admission(env, n) = 200

StartedWasChecked ==
  phase \in {"serving", "closing"} => Errors(env) = {} /\ (HasSessions(env) => Loadable(env))

\* A process that Apollo does not end stops its sessions last
StoppedIsDrained == capability = "stopped" /\ nodeTest => Busy = {}

Inv == /\ ServiceTypeOK /\ RequestsConsistent /\ HandledAreAdmitted /\ AckMeansHandled
       /\ StartedWasChecked /\ StoppedIsDrained

-----------------------------------------------------------------------------
(* Facts of the requests *)

LEMMA IdleIsNoRequest == Idle \notin Request
  BY DEF Idle, Request

LEMMA BusyHolds ==
  ASSUME ServiceTypeOK, NEW s \in Slot
  PROVE  /\ request[s] # Idle => request[s] \in Request /\ s \in Busy
         /\ request[s] = Idle => s \notin Busy
  BY DEF ServiceTypeOK, Busy

LEMMA AtIsBusy ==
  ASSUME ServiceTypeOK, NEW s \in Slot, request[s].at \in {"entered", "calling", "working", "handled"}
  PROVE  s \in Busy /\ request[s] \in Request
  BY BusyHolds DEF Idle

\* A request that moves on in its handler keeps what it is about
LEMMA MovesKeeps ==
  ASSUME Inv, NEW s \in Slot, NEW r \in Request, Consistent(r), Moves(s, r),
         phase \in {"serving", "closing"},
         r.route # "token" => capability # "off",
         capability = "stopped" => ~nodeTest
  PROVE  Inv'
<1>1. request' \in [Slot -> Request \cup {Idle}] /\ request' = [request EXCEPT ![s] = r]
  BY DEF Inv, ServiceTypeOK, Moves
<1>2. Busy' = Busy \cup {s}
  BY <1>1, IdleIsNoRequest DEF Inv, ServiceTypeOK, Busy
<1>3. UNCHANGED <<env, nodeTest, phase, boots, capability, handled, acked>>
  BY DEF Moves
<1>4. \A t \in Busy' : IF t = s THEN request'[t] = r ELSE t \in Busy /\ request'[t] = request[t]
  BY <1>1, <1>2 DEF Inv, ServiceTypeOK, Busy
<1>5. ServiceTypeOK'
  BY <1>1, <1>3, <1>4 DEF Inv, ServiceTypeOK
<1>6. RequestsConsistent'
  BY <1>3, <1>4 DEF Inv, RequestsConsistent, Consistent, Admission, Verified, HexVerified
<1> QED
  BY <1>3, <1>5, <1>6 DEF Inv, HandledAreAdmitted, AckMeansHandled, StartedWasChecked,
       StoppedIsDrained, Admission, Verified, HexVerified

\* An answer frees the slot; a 200 to the provider is for a notice handled
LEMMA RepliesKeeps ==
  ASSUME Inv, NEW s \in Busy, NEW status, Replies(s, status),
         status = 200 => request[s].route # "webhook" \/ request[s].at = "handled"
  PROVE  Inv'
<1>1. s \in Slot /\ request[s] \in Request /\ Consistent(request[s])
  BY DEF Inv, RequestsConsistent, ServiceTypeOK, Busy
<1>2. request' \in [Slot -> Request \cup {Idle}] /\ request' = [request EXCEPT ![s] = Idle]
  BY <1>1 DEF Inv, ServiceTypeOK, Replies
<1>3. Busy' = Busy \ {s} /\ \A t \in Busy' : request'[t] = request[t]
  BY <1>1, <1>2 DEF Inv, ServiceTypeOK, Busy
<1>4. UNCHANGED <<env, nodeTest, phase, boots, capability, handled>>
  BY DEF Replies
<1>5. acked' \subseteq handled' /\ acked' \subseteq Notice
  BY <1>1, <1>4, ServiceAssumption
     DEF Inv, AckMeansHandled, ServiceTypeOK, Consistent, Replies
<1>6. ServiceTypeOK'
  BY <1>2, <1>3, <1>4, <1>5 DEF Inv, ServiceTypeOK
<1>7. RequestsConsistent'
  BY <1>3, <1>4 DEF Inv, RequestsConsistent, Consistent, Admission, Verified, HexVerified
<1> QED
  BY <1>3, <1>4, <1>5, <1>6, <1>7 DEF Inv, HandledAreAdmitted, AckMeansHandled,
       StartedWasChecked, StoppedIsDrained, Admission, Verified, HexVerified

\* Every request lost with the process
LEMMA DownKeeps ==
  ASSUME Inv, Down
  PROVE  Inv'
<1>1. Busy' = {}
  BY DEF Down, Busy
<1>2. request' \in [Slot -> Request \cup {Idle}]
  BY DEF Down
<1> QED
  BY <1>1, <1>2 DEF Inv, Down, ServiceTypeOK, RequestsConsistent, HandledAreAdmitted,
       AckMeansHandled, StartedWasChecked, StoppedIsDrained, Admission, Verified, HexVerified

-----------------------------------------------------------------------------
(* The invariant *)

LEMMA InitHolds == Init => Inv
<1> SUFFICES ASSUME Init PROVE Inv
  OBVIOUS
<1>1. Busy = {}
  BY DEF Init, Busy
<1>2. request \in [Slot -> Request \cup {Idle}] /\ boots \in 0..MaxBoots /\ nodeTest \in BOOLEAN
  <2>1. request \in [Slot -> Request \cup {Idle}]
    BY DEF Init
  <2>2. boots \in 0..MaxBoots
    BY ServiceAssumption DEF Init
  <2>3. nodeTest \in BOOLEAN
    <3>1. CASE env \in Exercised
      BY <3>1 DEF Init
    <3>2. CASE env \notin Exercised
      BY <3>2 DEF Init
    <3> QED
      BY <3>1, <3>2
  <2> QED
    BY <2>1, <2>2, <2>3
<1>3. ServiceTypeOK
  BY <1>1, <1>2 DEF Init, ServiceTypeOK
<1> QED
  BY <1>1, <1>3 DEF Init, Inv, RequestsConsistent, HandledAreAdmitted, AckMeansHandled,
       StartedWasChecked, StoppedIsDrained

\* Steps of the process leave the requests alone, or lose them all
LEMMA ProcessSteps ==
  ASSUME Inv, Boot \/ Loads \/ Sigterm \/ Resignals \/ Stops \/ Exits \/ Crash
  PROVE  Inv'
<1> USE DEF Inv, RequestsConsistent, Consistent, HandledAreAdmitted, AckMeansHandled,
        StartedWasChecked, StoppedIsDrained, Admission, Verified, HexVerified
<1>1. CASE Boot
  BY <1>1, ServiceAssumption DEF Boot, ServiceTypeOK, Busy
<1>2. CASE Loads
  BY <1>2 DEF Loads, ServiceTypeOK, Busy
<1>3. CASE Sigterm
  BY <1>3 DEF Sigterm, ApolloListens, ServiceTypeOK, Busy
<1>4. CASE Resignals \/ Exits \/ Crash
  BY <1>4, DownKeeps DEF Resignals, Exits, Crash
<1>5. CASE Stops
  BY <1>5 DEF Stops, Closed, ServiceTypeOK, Busy
<1> QED
  BY <1>1, <1>2, <1>3, <1>4, <1>5

\* A request enters a handler its route leads to
LEMMA ArrivesKeeps ==
  ASSUME Inv, NEW s \in Slot, NEW handler \in Handler, NEW n \in Notice \cup {None},
         n # None <=> handler = "webhook", Arrives(s, handler, n)
  PROVE  Inv'
<1> DEFINE r == [at |-> "entered", route |-> handler, notice |-> n, tries |-> 0, heard |-> TRUE]
<1>1. r \in Request
  BY ServiceAssumption DEF Request
<1>2. Consistent(r)
  BY DEF Consistent
<1>3. handler # "token" => capability # "off"
  BY DEF Arrives, Taken, Route, AccessTokenRoute, Handler
<1>4. capability # "stopped" /\ phase = "serving"
  BY DEF Arrives, Inv, ServiceTypeOK
<1> QED
  BY <1>1, <1>2, <1>3, <1>4, MovesKeeps DEF Arrives

LEMMA RequestSteps ==
  ASSUME Inv, NEW s \in Slot, GivesUp(s) \/ Handles(s)
  PROVE  Inv'
<1> DEFINE r == request[s]
<1>1. s \in Busy
  BY AtIsBusy DEF Inv, GivesUp, Handles, Unloaded, WebhookEnters, Concludes, ProcessingFails,
       Answers, TokenEnters, GraphqlEnters, HostedEnters, CallReturns, Reached
<1>2. r \in Request /\ Consistent(r) /\ phase \in {"serving", "closing"}
  BY <1>1 DEF Inv, RequestsConsistent, ServiceTypeOK, Busy
<1>3. /\ r.route # "token" => capability # "off"
      /\ capability = "stopped" => ~nodeTest
  BY <1>1 DEF Inv, ServiceTypeOK, StoppedIsDrained
<1>4. ASSUME NEW q \in Request, q.route = r.route, q.notice = r.notice, q.at = r.at,
             Moves(s, q)
      PROVE  Inv'
  BY <1>2, <1>3, <1>4, MovesKeeps DEF Consistent
<1>5. ASSUME r.route # "webhook", Calls(s)
      PROVE  Inv'
  <2>1. [r EXCEPT !.at = "calling"] \in Request /\ Consistent([r EXCEPT !.at = "calling"])
    BY <1>2, <1>5 DEF Request, Consistent
  <2> QED
    BY <1>2, <1>3, <1>5, <2>1, MovesKeeps DEF Calls, Request
<1>6. ASSUME r.route # "webhook", NEW status, Replies(s, status)
      PROVE  Inv'
  BY <1>1, <1>6, RepliesKeeps
<1>7. CASE GivesUp(s)
  <2>1. [r EXCEPT !.heard = FALSE] \in Request
    BY <1>2 DEF Request
  <2> QED
    BY <1>2, <1>4, <1>7, <2>1 DEF GivesUp, Request
<1>8. CASE Unloaded(s)
  BY <1>1, <1>8, RepliesKeeps DEF Unloaded
<1>9. CASE WebhookEnters(s)
  <2>1. CASE Admission(env, r.notice) = 200
    <3>1. /\ [r EXCEPT !.at = "working"] \in Request
          /\ Consistent([r EXCEPT !.at = "working"])
      BY <1>2, <1>9, <2>1 DEF WebhookEnters, Request, Consistent
    <3> QED
      BY <1>2, <1>3, <1>9, <2>1, <3>1, MovesKeeps DEF WebhookEnters, Request
  <2>2. CASE Admission(env, r.notice) # 200
    BY <1>1, <1>9, <2>2, RepliesKeeps DEF WebhookEnters
  <2> QED
    BY <2>1, <2>2
<1>10. CASE Concludes(s)
  <2> DEFINE q == [r EXCEPT !.at = "handled"]
  <2>1. r.at = "working" /\ r.route = "webhook" /\ r.notice \in Notice
    BY <1>2, <1>10 DEF Concludes, Consistent, Request
  <2>2. q \in Request /\ q # Idle
    BY <1>2, IdleIsNoRequest DEF Request
  <2>3. request' = [request EXCEPT ![s] = q] /\ request' \in [Slot -> Request \cup {Idle}]
    BY <2>2, <1>10 DEF Concludes, Inv, ServiceTypeOK
  <2>4. Busy' = Busy /\ \A t \in Busy : t # s => request'[t] = request[t]
    BY <1>1, <2>2, <2>3 DEF Inv, ServiceTypeOK, Busy
  <2>5. /\ UNCHANGED <<env, nodeTest, phase, boots, capability, acked>>
        /\ handled' = handled \cup {r.notice}
    BY <1>10 DEF Concludes
  <2>6. ServiceTypeOK'
    BY <1>1, <2>1, <2>3, <2>4, <2>5 DEF Inv, ServiceTypeOK, Busy
  <2>7. Admission(env, r.notice) = 200
    BY <1>2, <2>1 DEF Consistent
  <2>8. ASSUME NEW t \in Busy' PROVE Consistent(request[t])'
    <3>1. CASE t = s
      BY <1>1, <1>2, <2>1, <2>3, <2>5, <2>7, <3>1
         DEF Consistent, Admission, Verified, HexVerified, Busy, Request
    <3>2. CASE t # s
      BY <2>4, <2>5, <3>2
         DEF Inv, RequestsConsistent, Consistent, Admission, Verified, HexVerified
    <3> QED
      BY <3>1, <3>2
  <2> QED
    BY <2>4, <2>5, <2>6, <2>7, <2>8 DEF Inv, RequestsConsistent, HandledAreAdmitted,
         AckMeansHandled, StartedWasChecked, StoppedIsDrained, Admission, Verified, HexVerified
<1>11. CASE ProcessingFails(s)
  BY <1>1, <1>11, RepliesKeeps DEF ProcessingFails
<1>12. CASE Answers(s)
  BY <1>1, <1>12, RepliesKeeps DEF Answers
<1>13. CASE TokenEnters(s)
  BY <1>5, <1>6, <1>13 DEF TokenEnters
<1>14. CASE GraphqlEnters(s)
  BY <1>5, <1>6, <1>14 DEF GraphqlEnters
<1>15. CASE HostedEnters(s)
  BY <1>5, <1>6, <1>15 DEF HostedEnters
<1>16. CASE CallReturns(s)
  <2> DEFINE q == [r EXCEPT !.tries = (@ + 1) % MaxAttempts]
  <2>1. r.route # "webhook"
    BY <1>2, <1>16 DEF CallReturns, Consistent
  <2>2. q \in Request /\ q.route = r.route /\ q.notice = r.notice /\ q.at = r.at
    BY <1>2, ServiceAssumption DEF Request
  <2> QED
    BY <1>4, <1>6, <1>16, <2>1, <2>2 DEF CallReturns
<1> QED
  BY <1>7, <1>8, <1>9, <1>10, <1>11, <1>12, <1>13, <1>14, <1>15, <1>16 DEF Handles

LEMMA StepHolds == Inv /\ [Next]_vars => Inv'
<1> SUFFICES ASSUME Inv, [Next]_vars PROVE Inv'
  OBVIOUS
<1>1. CASE Boot \/ Loads \/ Sigterm \/ Resignals \/ Stops \/ Exits \/ Crash
  BY <1>1, ProcessSteps
<1>2. ASSUME NEW s \in Slot, GivesUp(s) \/ Handles(s) PROVE Inv'
  BY <1>2, RequestSteps
<1>3. ASSUME NEW s \in Slot, NEW handler \in Handler, Asks(s, handler) PROVE Inv'
  BY <1>3, ArrivesKeeps DEF Asks
<1>4. ASSUME NEW s \in Slot, NEW n \in Notice, Posts(s, n) PROVE Inv'
  BY <1>4, ArrivesKeeps, ServiceAssumption DEF Posts, Handler
<1>5. CASE UNCHANGED vars
  BY <1>5 DEF vars, Inv, ServiceTypeOK, RequestsConsistent, Consistent, HandledAreAdmitted,
       AckMeansHandled, StartedWasChecked, StoppedIsDrained, Busy, Admission, Verified, HexVerified
<1> QED
  BY <1>1, <1>2, <1>3, <1>4, <1>5 DEF Next

\* Every reachable state of the process is one the invariant describes: what a
\* request in flight is about, and what was handled (processWebhookHttp).
THEOREM InvHolds == Spec => []Inv
  BY InitHolds, StepHolds, PTL DEF Spec

-----------------------------------------------------------------------------
(* What the invariant gives *)

\* Every variable keeps its type, and a request is only where it can be
\* (ServiceTypeOK).
THEOREM TypesHold == Spec => []ServiceTypeOK
<1>1. Inv => ServiceTypeOK
  BY DEF Inv
<1> QED
  BY <1>1, InvHolds, PTL

\* A notice the provider has a 200 for was handled to its end once, over any crashes,
\* redeliveries and answers nobody waits for (processWebhookHttp).
THEOREM AcknowledgedIsHandled == Spec => []AckMeansHandled
<1>1. Inv => AckMeansHandled
  BY DEF Inv
<1> QED
  BY <1>1, InvHolds, PTL

\* Nothing forged, garbled or foreign is handled by a deployment that has a
\* secret (processWebhookHttp, verifyHexDigest).
THEOREM HandledIsAuthentic == Spec => []OnlyAuthentic
<1>1. Inv => OnlyAuthentic
  BY DEF Inv, HandledAreAdmitted, OnlyAuthentic, Admission, Parses, Verified, HexVerified,
       MockVerified, WebhookSecret
<1> QED
  BY <1>1, InvHolds, PTL

\* An environment the boot guard passes can serve what it turns on, and in
\* production runs on live credentials (configErrors).
LEMMA CheckedCanServe ==
  ASSUME env \in Env, Errors(env) = {}, HasSessions(env) => Loadable(env)
  PROVE  /\ HasSessions(env) =>
              /\ Loadable(env) /\ PublicBaseUrl(env) \in {"http", "local"}
              /\ \A n \in Genuine : Verified(env, n)
         /\ env.production /\ ~env.allowDemo =>
              ProviderName(env) = "sumsub" /\ env.appToken = "live"
<1>1. ~BaseUrlErrors(env) /\ ~ProviderErrors(env) /\ ~WebhookErrors(env)
  BY DEF Errors
<1>2. HasSessions(env) => PublicBaseUrl(env) \in {"http", "local"}
  BY <1>1 DEF BaseUrlErrors, PublicBaseUrl, Env
<1>3. HasSessions(env) => \A n \in Genuine : Verified(env, n)
  BY <1>1, ServiceAssumption
     DEF WebhookErrors, ProviderErrors, ProviderName, Verified, HexVerified, MockVerified, Env
<1>4. env.production /\ ~env.allowDemo => ProviderName(env) = "sumsub" /\ env.appToken = "live"
  BY <1>1 DEF ProviderErrors, ProviderName, MockRefused, SumsubRefused, SumsubMissing,
       SandboxToken, DemoRefused, Env
<1> QED
  BY <1>2, <1>3, <1>4

\* What starts can do what it promises (validateConfig against the rest).
THEOREM StartedServes == Spec => []StartedCanServe
<1>1. Inv => StartedCanServe
  BY CheckedCanServe DEF Inv, ServiceTypeOK, StartedWasChecked, StartedCanServe
<1> QED
  BY <1>1, InvHolds, PTL

\* The sessions, and the process, stop only when nothing is in flight, unless
\* Apollo's listener or a crash ends it (startServer's drain).
THEOREM DrainsInOrder == Spec => OrderlyDrain
<1> DEFINE Orderly ==
      /\ phase = "closing" /\ boots = MaxBoots /\ (nodeTest \/ capability # "stopped")
      /\ phase' = "down" \/ capability' = "stopped"
      => Busy = {}
<1>1. Inv /\ [Next]_vars => [Orderly]_vars
  <2> SUFFICES ASSUME Inv, Next, phase = "closing", boots = MaxBoots,
                      nodeTest \/ capability # "stopped",
                      phase' = "down" \/ capability' = "stopped"
               PROVE  Busy = {}
    OBVIOUS
  <2>1. CASE Boot \/ Loads \/ Sigterm \/ Resignals \/ Stops \/ Exits \/ Crash
    BY <2>1, ServiceAssumption DEF Boot, Loads, Sigterm, Resignals, Stops, Exits, Crash, Closed
  <2>2. CASE \E s \in Slot :
               \/ \E handler \in Handler : Asks(s, handler)
               \/ \E n \in Notice : Posts(s, n)
               \/ GivesUp(s) \/ Handles(s)
    <3>1. UNCHANGED <<phase, capability>>
      BY <2>2 DEF Asks, Posts, Arrives, GivesUp, Handles, Unloaded, WebhookEnters, Concludes,
           ProcessingFails, Answers, TokenEnters, GraphqlEnters, HostedEnters, CallReturns,
           Calls, Moves, Replies
    <3> QED
      BY <3>1 DEF Inv, StoppedIsDrained
  <2> QED
    BY <2>1, <2>2 DEF Next
<1> QED
  BY <1>1, InvHolds, PTL DEF Spec, OrderlyDrain

-----------------------------------------------------------------------------
(* The drain of a stopping process *)

LEMMA WorkOf ==
  ASSUME NEW q \in Request
  PROVE  /\ q.at = "entered" => Work(q) = MaxAttempts + 2
         /\ q.at = "calling" => Work(q) = MaxAttempts - q.tries
         /\ q.at = "working" => Work(q) = 2
         /\ q.at = "handled" => Work(q) = 1
         /\ Work(q) \in 1 .. (MaxAttempts + 2) /\ (q.at # "entered" => Work(q) < MaxAttempts + 2)
<1>1. q # Idle
  BY IdleIsNoRequest
<1>2. /\ q.at = "entered" => Work(q) = MaxAttempts + 2
      /\ q.at = "calling" => Work(q) = MaxAttempts - q.tries
      /\ q.at = "working" => Work(q) = 2
      /\ q.at = "handled" => Work(q) = 1
  BY <1>1 DEF Work
<1>3. q.tries \in 0 .. (MaxAttempts - 1) /\ q.at \in {"entered", "calling", "working", "handled"}
  BY DEF Request
<1> HIDE DEF Work
<1> QED
  BY <1>2, <1>3, ServiceAssumption

LEMMA IdleIsDone == Work(Idle) = 0
  BY DEF Work

\* A step of a handler brings its request nearer to its answer
LEMMA HandlesShrinks ==
  ASSUME Inv, NEW s \in Slot, Handles(s)
  PROVE  /\ Work(request'[s]) < Work(request[s])
         /\ \A t \in Slot : t # s => request'[t] = request[t]
<1> DEFINE q == request[s]
           Goal == /\ Work(request'[s]) < Work(q)
                   /\ \A t \in Slot : t # s => request'[t] = request[t]
<1>t. request \in [Slot -> Request \cup {Idle}]
  BY DEF Inv, ServiceTypeOK
<1>1. q \in Request
  BY AtIsBusy DEF Inv, Handles, Unloaded, WebhookEnters, Concludes, ProcessingFails,
       Answers, TokenEnters, GraphqlEnters, HostedEnters, CallReturns, Reached
<1>2. ASSUME NEW status, Replies(s, status) PROVE Goal
  <2>1. request'[s] = Idle /\ \A t \in Slot : t # s => request'[t] = request[t]
    BY <1>t, <1>2 DEF Replies
  <2>2. Work(q) \in 1 .. (MaxAttempts + 2)
    BY <1>1, WorkOf
  <2> HIDE DEF q
  <2> QED
    BY <2>1, <2>2, IdleIsDone, ServiceAssumption
<1>3. ASSUME NEW p \in Request, p.at # "entered", q.at = "entered",
             request' = [request EXCEPT ![s] = p]
      PROVE  Goal
  <2>1. request'[s] = p /\ \A t \in Slot : t # s => request'[t] = request[t]
    BY <1>t, <1>3
  <2>2. Work(q) = MaxAttempts + 2 /\ Work(p) < MaxAttempts + 2
    BY <1>1, <1>3, WorkOf
  <2> QED
    BY <2>1, <2>2
<1>4. ASSUME q.at = "entered", Calls(s) PROVE Goal
  <2>1. [q EXCEPT !.at = "calling"] \in Request /\ [q EXCEPT !.at = "calling"].at = "calling"
    BY <1>1 DEF Request
  <2> QED
    BY <1>3, <1>4, <2>1 DEF Calls, Moves
<1>5. CASE WebhookEnters(s)
  <2>1. [q EXCEPT !.at = "working"] \in Request /\ [q EXCEPT !.at = "working"].at = "working"
    BY <1>1 DEF Request
  <2> QED
    BY <1>2, <1>3, <1>5, <2>1 DEF WebhookEnters, Moves, Reached
<1>6. CASE Concludes(s)
  <2> DEFINE p == [q EXCEPT !.at = "handled"]
  <2>1. p \in Request /\ p.at = "handled" /\ q.at = "working"
    BY <1>1, <1>6 DEF Request, Concludes
  <2>2. request'[s] = p /\ \A t \in Slot : t # s => request'[t] = request[t]
    BY <1>t, <1>6 DEF Concludes
  <2>3. Work(p) = 1 /\ Work(q) = 2
    BY <1>1, <2>1, WorkOf
  <2> QED
    BY <2>2, <2>3
<1>7. CASE CallReturns(s)
  <2> DEFINE p == [q EXCEPT !.tries = (@ + 1) % MaxAttempts]
  <2>1. q.at = "calling" /\ q.tries \in 0 .. (MaxAttempts - 1)
    BY <1>1, <1>7 DEF CallReturns, Request
  <2>2. ASSUME Retries(q.tries), Moves(s, p) PROVE Goal
    <3>1. (q.tries + 1) % MaxAttempts = q.tries + 1 /\ q.tries + 1 \in 0 .. (MaxAttempts - 1)
      BY <2>1, <2>2, ServiceAssumption DEF Retries
    <3>2. p \in Request /\ p.at = "calling" /\ p.tries = q.tries + 1
      BY <1>1, <2>1, <3>1 DEF Request
    <3>3. request'[s] = p /\ \A t \in Slot : t # s => request'[t] = request[t]
      BY <1>t, <2>2 DEF Moves
    <3>4. Work(p) = MaxAttempts - p.tries /\ Work(q) = MaxAttempts - q.tries
      BY <1>1, <2>1, <3>2, WorkOf
    <3> HIDE DEF p, q
    <3>5. Work(p) < Work(q)
      BY <2>1, <3>2, <3>4, ServiceAssumption
    <3> QED
      BY <3>3, <3>5 DEF q
  <2> QED
    BY <1>2, <1>7, <2>2 DEF CallReturns
<1>8. CASE Unloaded(s) \/ ProcessingFails(s) \/ Answers(s)
  BY <1>2, <1>8 DEF Unloaded, ProcessingFails, Answers
<1>9. CASE TokenEnters(s) \/ GraphqlEnters(s) \/ HostedEnters(s)
  BY <1>2, <1>4, <1>9 DEF TokenEnters, GraphqlEnters, HostedEnters, Reached
<1> QED
  BY <1>5, <1>6, <1>7, <1>8, <1>9 DEF Handles

\* The safety half of DrainCompletes: a draining process only comes nearer to
\* its end (startServer, withRetry).
THEOREM DrainsShrink == Spec => DrainShrinks
<1> DEFINE Shrinks ==
      phase = "closing" =>
        \A s \in Slot : /\ Work(request'[s]) <= Work(request[s])
                        /\ Handles(s) => Work(request'[s]) < Work(request[s])
<1>1. Inv /\ [Next]_vars => [Shrinks]_vars
  <2> SUFFICES ASSUME Inv, Next, phase = "closing", NEW s \in Slot
               PROVE  /\ Work(request'[s]) <= Work(request[s])
                      /\ Handles(s) => Work(request'[s]) < Work(request[s])
    OBVIOUS
  <2>t. request \in [Slot -> Request \cup {Idle}] /\ Work(request[s]) \in Nat
    <3>1. request \in [Slot -> Request \cup {Idle}]
      BY DEF Inv, ServiceTypeOK
    <3>2. \A q \in Request : Work(q) \in Nat
      BY WorkOf, ServiceAssumption
    <3> QED
      BY <3>1, <3>2, IdleIsDone
  <2>1. CASE \E t \in Slot : Handles(t)
    <3>1. PICK t \in Slot : Handles(t)
      BY <2>1
    <3>2. Work(request'[t]) < Work(request[t]) /\ (s # t => request'[s] = request[s])
      BY <3>1, HandlesShrinks
    <3>3. Handles(s) => Work(request'[s]) < Work(request[s])
      BY HandlesShrinks
    <3>4. s # t => Work(request'[s]) <= Work(request[s])
      BY <2>t, <3>2
    <3>5. s = t => Work(request'[s]) <= Work(request[s])
      <4>1. Work(request'[t]) \in Nat
        <5>1. request'[t] \in Request \cup {Idle}
          BY <3>1, RequestSteps DEF Inv, ServiceTypeOK
        <5>2. \A q \in Request : Work(q) \in Nat
          BY WorkOf, ServiceAssumption
        <5> QED
          BY <5>1, <5>2, IdleIsDone
      <4> QED
        BY <2>t, <3>2, <4>1
    <3> QED
      BY <3>3, <3>4, <3>5
  <2>2. CASE ~ \E t \in Slot : Handles(t)
    <3>1. ASSUME NEW t \in Slot, GivesUp(t) PROVE Work(request'[s]) = Work(request[s])
      <4> DEFINE p == [request[t] EXCEPT !.heard = FALSE]
      <4>1. request[t] \in Request /\ request'[t] = p /\ (s # t => request'[s] = request[s])
        BY <2>t, <3>1 DEF GivesUp, Moves, Busy
      <4>2. p \in Request /\ p.at = request[t].at /\ p.tries = request[t].tries
        BY <4>1 DEF Request
      <4>3. Work(p) = Work(request[t])
        <5>1. p # Idle /\ request[t] # Idle
          BY <4>1, <4>2, IdleIsNoRequest
        <5> HIDE DEF p
        <5>2. /\ Work(p) = CASE p.at = "entered"   -> MaxAttempts + 2
                              [] p.at = "calling"   -> MaxAttempts - p.tries
                              [] p.at = "working"   -> 2
                              [] p.at = "handled" -> 1
              /\ Work(request[t]) = CASE request[t].at = "entered"   -> MaxAttempts + 2
                                       [] request[t].at = "calling"   -> MaxAttempts - request[t].tries
                                       [] request[t].at = "working"   -> 2
                                       [] request[t].at = "handled" -> 1
          BY <5>1 DEF Work
        <5> QED
          BY <4>2, <5>2
      <4> HIDE DEF p
      <4> QED
        BY <4>1, <4>3
    <3>2. CASE UNCHANGED request
      BY <2>t, <2>2, <3>2
    <3>3. CASE Down
      BY <2>t, <2>2, <3>3, IdleIsDone DEF Down
    <3>4. \/ UNCHANGED request \/ Down \/ \E t \in Slot : GivesUp(t)
      BY <2>2 DEF Next, Boot, Loads, Sigterm, Resignals, Stops, Exits, Crash, Asks, Posts, Arrives
    <3> QED
      BY <2>t, <2>2, <3>1, <3>2, <3>3, <3>4
  <2> QED
    BY <2>1, <2>2
<1> QED
  BY <1>1, InvHolds, PTL DEF Spec, DrainShrinks

\* No request of a draining process waits for what will not come: all it may
\* wait for is the load of the sessions, which ends (Unloaded, GraphqlEnters).
THEOREM DrainsGoOn == Spec => []DrainGoesOn
<1> DEFINE Drained == phase = "closing" => env \in Exercised
<1>1. Init => Drained
  BY DEF Init
<1>2. Inv /\ Drained /\ [Next]_vars => Drained'
  BY DEF Next, vars, Boot, Loads, Sigterm, Resignals, Stops, Exits, Crash, Down, Asks, Posts, Arrives,
       GivesUp, Handles, Unloaded, WebhookEnters, Concludes, ProcessingFails, Answers, TokenEnters,
       GraphqlEnters, HostedEnters, CallReturns, Calls, Moves, Replies
<1>3. Inv /\ Drained => DrainGoesOn
  <2> SUFFICES ASSUME Inv, Drained, phase = "closing", capability # "loading", NEW s \in Busy
               PROVE  CanMove(s)
    BY DEF DrainGoesOn
  <2>1. request[s] \in Request
    BY DEF Inv, ServiceTypeOK, Busy
  <2>2. request[s].route # "token" => capability \in {"ready", "stopped", "failed"}
    BY DEF Inv, ServiceTypeOK
  <2> QED
    BY <2>2 DEF CanMove
<1> QED
  BY <1>1, <1>2, <1>3, InvHolds, PTL DEF Spec

\* A host that mints over the package's own registry is on live credentials in
\* production too, and has what a mint needs when it uses Sumsub
\* (accessTokenProviderFromEnv).
THEOREM MintsAreLive ==
  \A e \in Env :
    ~AccessTokenRefuses(e) =>
      /\ e.production /\ ~e.allowDemo =>
           RegistryName(e, "sumsub") = "sumsub" /\ e.appToken = "live"
      /\ RegistryName(e, "sumsub") = "sumsub" => e.appToken # "unset" /\ e.secretKey
  BY DEF AccessTokenRefuses, RegistryRefuses, RegistryName, SumsubRefused, SumsubMissing,
       SandboxToken, DemoRefused, Env

-----------------------------------------------------------------------------
(* The HTTP surfaces: what they let through to the service and to the provider, *)
(* for every request                                                            *)

\* The two access-token presets ask the provider for nobody unknown, on no
\* input that was not validated and against no hook, and the level they ask
\* for is a bounded text when the client named it (mintAccessTokenHttp behind
\* createAccessTokenApp and createAccessTokenRouter).
THEOREM MintsAreVouchedFor ==
  \A user \in BOOLEAN, body \in Body, hook \in LevelForHook, typed \in BOOLEAN, fits \in BOOLEAN :
    FetchToken(user, body, hook) = 200 \/ ExpressToken(user, body, hook, typed, fits) = 200 =>
      /\ user /\ ValidateStartInput(body) = OK
      /\ hook \in {"none", "picks"}
      /\ OptionalText(LevelMinted(body, hook)) = OK
<1>1. ASSUME NEW user \in BOOLEAN, NEW body \in Body, NEW hook \in LevelForHook,
             StatusByCode(MintRefusal(user, body, hook)) = 200
      PROVE  user /\ ValidateStartInput(body) = OK /\ hook \in {"none", "picks"}
  <2>1. MintRefusal(user, body, hook) = OK
    BY <1>1 DEF StatusByCode, MintRefusal, Refusal, OK
  <2> QED
    BY <2>1 DEF MintRefusal, Refusal, OK, LevelForHook
<1>2. ASSUME NEW user \in BOOLEAN, NEW body \in Body, NEW hook \in LevelForHook,
             FetchToken(user, body, hook) = 200
      PROVE  user /\ ValidateStartInput(body) = OK /\ hook \in {"none", "picks"}
  BY <1>1, <1>2 DEF FetchToken
<1>3. ASSUME NEW body \in Body PROVE Unseen(body) \in Body /\ ValidateStartInput(Unseen(body)) # OK
  BY DEF Unseen, Body, ValidateStartInput, OK
<1>4. ASSUME NEW user \in BOOLEAN, NEW body \in Body, NEW hook \in LevelForHook,
             NEW typed \in BOOLEAN, NEW fits \in BOOLEAN,
             ExpressToken(user, body, hook, typed, fits) = 200
      PROVE  user /\ ValidateStartInput(body) = OK /\ hook \in {"none", "picks"}
  <2>1. CASE typed /\ fits
    BY <1>2, <1>4, <2>1 DEF ExpressToken
  <2>2. CASE typed /\ ~fits
    BY <1>4, <2>2 DEF ExpressToken
  <2>3. CASE ~typed
    BY <1>1, <1>3, <1>4, <2>3 DEF ExpressToken
  <2> QED
    BY <2>1, <2>2, <2>3
<1>5. ASSUME NEW body \in Body, NEW hook \in LevelForHook, ValidateStartInput(body) = OK
      PROVE  OptionalText(LevelMinted(body, hook)) = OK
  BY <1>5 DEF LevelMinted, OptionalText, ValidateStartInput, OK
<1> QED
  BY <1>2, <1>4, <1>5

\* What makes validateStartInput throw a TypeError: a levelName or a locale that
\* is no text, and nothing wrong before it
BreaksValidation(body) ==
  /\ body.json = "parsed" /\ body.platform
  /\ \/ body.levelName = "notText"
     \/ OptionalText(body.levelName) = OK /\ body.locale = "notText"

\* Before a session is read or a provider called, exactly two things are
\* answered with a server's error, by either preset and by the session
\* handlers: the host's hook crashing on a mint that is otherwise fine, and a
\* known caller's levelName or locale that is no text, which validation.ts
\* trims before it knows.  Whatever else is wrong with a request is told to the
\* client as its own fault, 400, 401 or 413 (STATUS_BY_CODE).
THEOREM ServerErrorsAreCrashes ==
  \A op \in {"start", "refresh"}, user \in BOOLEAN, body \in Body, hook \in LevelForHook,
     typed \in BOOLEAN, fits \in BOOLEAN :
    /\ SessionHandler(op, user, body) \in {200, 400, 401, 500}
    /\ SessionHandler(op, user, body) = 500 <=> op = "start" /\ user /\ BreaksValidation(body)
    /\ FetchToken(user, body, hook) \in {200, 400, 401, 500}
    /\ FetchToken(user, body, hook) = 500 <=>
         user /\ (BreaksValidation(body) \/ (ValidateStartInput(body) = OK /\ hook = "throws"))
    /\ ExpressToken(user, body, hook, typed, fits) \in {200, 400, 401, 413, 500}
    /\ ExpressToken(user, body, hook, typed, fits) = 500 <=>
         typed /\ fits /\ FetchToken(user, body, hook) = 500
<1> DEFINE Codes == {OK, "UNAUTHORIZED", "VALIDATION_ERROR", "INTERNAL_ERROR"}
<1>1. ASSUME NEW body \in Body
      PROVE  /\ ValidateStartInput(body) \in {OK, "VALIDATION_ERROR", "INTERNAL_ERROR"}
             /\ ValidateStartInput(body) = "INTERNAL_ERROR" <=> BreaksValidation(body)
             /\ body.json # "parsed" => ValidateStartInput(body) = "VALIDATION_ERROR"
  BY DEF ValidateStartInput, LocaleText, OptionalText, BreaksValidation, Body, Text, OK
<1>2. ASSUME NEW op \in {"start", "refresh"}, NEW user \in BOOLEAN, NEW body \in Body
      PROVE  /\ Refusal(op, user, body) \in Codes
             /\ Refusal(op, user, body) = "INTERNAL_ERROR"
                  <=> op = "start" /\ user /\ BreaksValidation(body)
  BY <1>1 DEF Refusal, OK
<1>3. ASSUME NEW user \in BOOLEAN, NEW body \in Body, NEW hook \in LevelForHook
      PROVE  /\ MintRefusal(user, body, hook) \in Codes
             /\ MintRefusal(user, body, hook) = "INTERNAL_ERROR" <=>
                  user /\ (BreaksValidation(body) \/ (ValidateStartInput(body) = OK /\ hook = "throws"))
  <2>1. Refusal("start", user, body) = OK <=> user /\ ValidateStartInput(body) = OK
    BY <1>1 DEF Refusal, OK
  <2>2. BreaksValidation(body) => ValidateStartInput(body) # OK
    BY <1>1 DEF OK
  <2>3. /\ Refusal("start", user, body) \in Codes
        /\ Refusal("start", user, body) = "INTERNAL_ERROR" <=> user /\ BreaksValidation(body)
    BY <1>2
  <2>4. CASE Refusal("start", user, body) # OK
    <3>1. MintRefusal(user, body, hook) = Refusal("start", user, body)
      BY <2>4 DEF MintRefusal
    <3> QED
      BY <2>1, <2>3, <2>4, <3>1
  <2>5. CASE Refusal("start", user, body) = OK
    BY <2>1, <2>2, <2>5 DEF MintRefusal, OK, LevelForHook
  <2> QED
    BY <2>4, <2>5
<1>4. \A code \in Codes : /\ StatusByCode(code) \in {200, 400, 401, 500}
                          /\ StatusByCode(code) = 500 <=> code = "INTERNAL_ERROR"
  BY DEF StatusByCode, OK
<1>5. \A body \in Body : Unreadable(body) => ~BreaksValidation(body) /\ ValidateStartInput(body) # OK
  BY <1>1 DEF Unreadable, BreaksValidation, OK
<1>6. ASSUME NEW body \in Body
      PROVE  /\ Unseen(body) \in Body
             /\ ~BreaksValidation(Unseen(body)) /\ ValidateStartInput(Unseen(body)) # OK
  BY DEF Unseen, Body, BreaksValidation, ValidateStartInput, OK
<1> SUFFICES ASSUME NEW op \in {"start", "refresh"}, NEW user \in BOOLEAN, NEW body \in Body,
                    NEW hook \in LevelForHook, NEW typed \in BOOLEAN, NEW fits \in BOOLEAN
             PROVE  /\ SessionHandler(op, user, body) \in {200, 400, 401, 500}
                    /\ SessionHandler(op, user, body) = 500
                         <=> op = "start" /\ user /\ BreaksValidation(body)
                    /\ FetchToken(user, body, hook) \in {200, 400, 401, 500}
                    /\ FetchToken(user, body, hook) = 500 <=>
                         user /\ (BreaksValidation(body)
                                  \/ (ValidateStartInput(body) = OK /\ hook = "throws"))
                    /\ ExpressToken(user, body, hook, typed, fits) \in {200, 400, 401, 413, 500}
                    /\ ExpressToken(user, body, hook, typed, fits) = 500 <=>
                         typed /\ fits /\ FetchToken(user, body, hook) = 500
  OBVIOUS
<1> HIDE DEF Codes
<1>7. /\ SessionHandler(op, user, body) \in {200, 400, 401, 500}
      /\ SessionHandler(op, user, body) = 500 <=> op = "start" /\ user /\ BreaksValidation(body)
  BY <1>2, <1>4, <1>5 DEF SessionHandler, SessionHttp
<1>8. /\ FetchToken(user, body, hook) \in {200, 400, 401, 500}
      /\ FetchToken(user, body, hook) = 500 <=>
           user /\ (BreaksValidation(body) \/ (ValidateStartInput(body) = OK /\ hook = "throws"))
  BY <1>3, <1>4, <1>5 DEF FetchToken
<1>9. StatusByCode(MintRefusal(user, Unseen(body), hook)) \in {200, 400, 401}
  BY <1>3, <1>4, <1>6
<1>10. /\ ExpressToken(user, body, hook, typed, fits) \in {200, 400, 401, 413, 500}
       /\ ExpressToken(user, body, hook, typed, fits) = 500 <=>
            typed /\ fits /\ FetchToken(user, body, hook) = 500
  BY <1>8, <1>9 DEF ExpressToken
<1> QED
  BY <1>7, <1>8, <1>10

\* An origin the host did not list is never allowed, by the access-token app
\* or by any answer of the service, the refusals of its rate limiter included:
\* what an answer allows is the origin that asked, if it is listed, or * if the
\* host listed that, and with no list it allows nobody (corsHeaders).
THEOREM OnlyListedOrigins ==
  \A origins, origin, sessions \in BOOLEAN, method \in Method, path \in Path, health \in BOOLEAN :
    \A headers \in {KycHeaders(sessions, origins, origin, method, path),
                    LimitedHeaders(origins, origin),
                    TokenHeaders(TRUE, origins, origin, method, path, health)} :
      headers.allow # NoOrigin =>
        /\ headers.allow \in origins
        /\ headers.allow \in {"*", origin}
<1> SUFFICES ASSUME NEW origins, NEW origin, NEW sessions \in BOOLEAN, NEW method \in Method,
                    NEW path \in Path, NEW health \in BOOLEAN,
                    NEW headers \in {KycHeaders(sessions, origins, origin, method, path),
                                     LimitedHeaders(origins, origin),
                                     TokenHeaders(TRUE, origins, origin, method, path, health)},
                    headers.allow # NoOrigin
             PROVE  headers.allow \in origins /\ headers.allow \in {"*", origin}
  OBVIOUS
<1> DEFINE policy == PolicyHeaders(origins, origin)
           app(configured, healthy) ==
             TokenHeaders(configured, origins, origin, method, path, healthy)
           own == CorsHeaders(origins, origin)
<1>1. policy.allow # NoOrigin => policy.allow \in origins /\ policy.allow \in {"*", origin}
  BY DEF PolicyHeaders, Echoed
<1>2. \A configured, healthy \in BOOLEAN : app(configured, healthy) \in {Unmarked, policy}
  BY DEF TokenHeaders
<1>3. own \in {Unmarked, policy}
  BY DEF CorsHeaders
<1>4. \A response \in {Unmarked, policy} :
        WithDefaults(response, own).allow \in {NoOrigin, policy.allow}
  BY <1>3 DEF WithDefaults, Unmarked
<1>5. KycHeaders(sessions, origins, origin, method, path).allow \in {NoOrigin, policy.allow}
  <2>1. KycHeaders(sessions, origins, origin, method, path) \in
          {own, WithDefaults(app(origins # {}, FALSE), own), WithDefaults(Unmarked, own)}
    BY DEF KycHeaders
  <2>2. WithDefaults(app(origins # {}, FALSE), own).allow \in {NoOrigin, policy.allow}
    BY <1>2, <1>4
  <2>3. own.allow \in {NoOrigin, policy.allow}
    BY <1>3 DEF Unmarked
  <2> QED
    BY <1>4, <2>1, <2>2, <2>3
<1>6. LimitedHeaders(origins, origin).allow \in {NoOrigin, policy.allow}
  BY <1>4 DEF LimitedHeaders
<1>7. app(TRUE, health).allow \in {NoOrigin, policy.allow}
  <2>1. Unmarked.allow = NoOrigin
    BY DEF Unmarked
  <2> QED
    BY <2>1 DEF TokenHeaders
<1> QED
  BY <1>1, <1>5, <1>6, <1>7

\* A cache shared between origins cannot serve one the answer of another:
\* wherever the Origin of a request decides what an answer allows, the answer
\* varies on it (withDefaults keeps the Vary of the service's own headers).
THEOREM SharedCachesAreTold ==
  ASSUME NEW origins, NEW one, NEW other, NEW sessions \in BOOLEAN,
         NEW method \in Method, NEW path \in Path, NEW health \in BOOLEAN
  PROVE  /\ LET headers(origin) == KycHeaders(sessions, origins, origin, method, path)
            IN  headers(one).allow # headers(other).allow => headers(one).vary /\ headers(other).vary
         /\ LET headers(origin) == TokenHeaders(TRUE, origins, origin, method, path, health)
            IN  headers(one).allow # headers(other).allow => headers(one).vary /\ headers(other).vary
<1>1. \A origin : PolicyHeaders(origins, origin).vary
  BY DEF PolicyHeaders
<1>2. \A response, headers : headers.vary => WithDefaults(response, headers).vary
  BY DEF WithDefaults
<1>3. ASSUME TokenHeaders(TRUE, origins, one, method, path, health).allow
                # TokenHeaders(TRUE, origins, other, method, path, health).allow
      PROVE  /\ TokenHeaders(TRUE, origins, one, method, path, health).vary
             /\ TokenHeaders(TRUE, origins, other, method, path, health).vary
  BY <1>1, <1>3 DEF TokenHeaders
<1>4. CASE origins # {}
  <2>1. ASSUME NEW origin PROVE KycHeaders(sessions, origins, origin, method, path).vary
    <3>1. CorsHeaders(origins, origin).vary
      BY <1>1, <1>4 DEF CorsHeaders
    <3> QED
      BY <1>2, <3>1 DEF KycHeaders
  <2>2. KycHeaders(sessions, origins, one, method, path).vary
    BY <2>1
  <2>3. KycHeaders(sessions, origins, other, method, path).vary
    BY <2>1
  <2> QED
    BY <2>2, <2>3, <1>3
<1>5. CASE origins = {}
  <2>1. ASSUME NEW origin
        PROVE  KycHeaders(sessions, origins, origin, method, path) = Unmarked
    <3>1. CorsHeaders(origins, origin) = Unmarked
      BY <1>5 DEF CorsHeaders
    <3>2. TokenHeaders(origins # {}, origins, origin, method, path, FALSE) = Unmarked
      BY <1>5 DEF TokenHeaders
    <3>3. WithDefaults(Unmarked, Unmarked) = Unmarked
      BY DEF WithDefaults, Unmarked
    <3> QED
      BY <3>1, <3>2, <3>3 DEF KycHeaders
  <2>2. KycHeaders(sessions, origins, one, method, path) = Unmarked
    BY <2>1
  <2>3. KycHeaders(sessions, origins, other, method, path) = Unmarked
    BY <2>1
  <2> QED
    BY <2>2, <2>3, <1>3
<1> QED
  BY <1>4, <1>5
=============================================================================
