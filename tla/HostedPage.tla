----------------------------- MODULE HostedPage -----------------------------
(***************************************************************************)
(* The hosted verification page inside the component that embeds it: the   *)
(* pages of the Sumsub and the mock provider (kyc-node/src/providers), the *)
(* bridge (kyc-node/src/bridge, kyc-core's bridge.ts), and the frame or    *)
(* WebView between them, composed with the hook of VerificationHook.       *)
(*                                                                         *)
(* Page and host run apart: what one posts the other receives later, in    *)
(* order, unless the page has left the screen by then.                     *)
(***************************************************************************)
EXTENDS VerificationHook, SumsubVocabulary, HostedSession, Sequences, FiniteSets

CONSTANTS
  Served,       \* the session its source started, for this page
  Seen,         \* the reviews the SDK may report
  MaxReloads,   \* bound: documents loaded anew on one screen
  MaxPosts      \* bound: messages on their way to the host

\* The component embeds the page, and its buttons alone call the hook
ASSUME PageAssumption ==
  /\ Seen \subseteq Review /\ MaxReloads \in Nat /\ MaxPosts \in Nat \ {0, 1}
  /\ ~Headless

VARIABLES
  provider,   \* whose page it is
  review,     \* the last review its SDK reported on this screen
  doc,        \* the document on screen
  asked,      \* tokens asked for so far
  reloads,
  toHost, toPage   \* messages on their way

pageVars == <<provider, review, doc, asked, reloads, toHost, toPage>>
allVars  == <<vars, pageVars>>

\* A document awaits one token, by the number it asked for it by, or none
Document == [stage : {"none", "loading", "live", "dead"}, awaits : 0 .. MaxRefreshes]

NoDocument  == [stage |-> "none", awaits |-> 0]
NewDocument == [stage |-> "loading", awaits |-> 0]

NoReview == [status |-> "none", answer |-> Absent, reject |-> Absent]

\* What the protocol can carry, and its messages: a type, and the status or
\* nothing that comes with it
BridgeEventType == {"applicantLoaded", "submitted", "statusChanged", "complete", "cancel",
                    "tokenExpired", "sessionExpired", "error"}

BridgeMessage == [type : BridgeEventType, status : Spoken \cup {Absent}]

Message(type, status) == [type |-> type, status |-> status]

\* The run whose page the component keeps mounted, hidden or not
Embedded(v, onScreen) ==
  IF onScreen /\ v.status \in Embedding /\ ~Launches THEN v.session ELSE 0

PageInit ==
  /\ HookInit
  /\ provider \in {"sumsub", "mock"} /\ review = NoReview
  /\ doc = NoDocument /\ asked = 0 /\ reloads = 0
  /\ toHost = <<>> /\ toPage = <<>>

-----------------------------------------------------------------------------
(* The host *)

Stays == Embedded(view', mounted') = Embedded(view, mounted)

\* The page leaves the screen, and what it posted is delivered all the same
BugLeaves ==
  IF Stays THEN UNCHANGED <<doc, toHost>>
  ELSE /\ doc' = IF Embedded(view', mounted') = 0 THEN NoDocument ELSE NewDocument
       /\ UNCHANGED toHost

\* The component keeps the page mounted, or its messages find no listener
Leaves ==
  IF Stays THEN UNCHANGED <<doc, toHost>>
  ELSE /\ doc' = IF Embedded(view', mounted') = 0 THEN NoDocument ELSE NewDocument
       /\ toHost' = <<>>

\* A token the hook gives the page is on its way to it
PageFollows ==
  /\ Leaves
  /\ toPage' = CASE ~Stays -> <<>>
                 [] Stays /\ doc # NoDocument /\ token' # token /\ (Native \/ PostsToken(Served)) ->
                      Append(toPage, token'.seq)
                 [] OTHER -> toPage
  /\ review' = IF Stays THEN review ELSE NoReview
  /\ UNCHANGED <<provider, asked, reloads>>

RefreshSettles == \E q \in refreshes : RefreshAnswers(q) \/ RefreshFails(q)

HostStep ==
  /\ \/ Start \/ Restart \/ Cancel \/ Unmount \/ Render \/ GoOffline \/ GoOnline
     \/ \E r \in Run :
          CheckPermissions(r) \/ ProbeConnection(r) \/ StartSettles(r) \/ Abandons(r)
     \/ \E t \in timers : TimerFires(t)
     \/ RefreshSettles
  /\ PageFollows

\* interpretBridgeMessage, as the events VerificationHook tells apart
Interpreted(msg) ==
  CASE msg.type = "statusChanged" -> IF msg.status = "pending" THEN "submitted" ELSE "progress"
    [] msg.type = "complete" -> IF msg.status = "approved" THEN "approved" ELSE "rejected"
    [] OTHER -> msg.type

HostReceives ==
  /\ toHost # <<>>
  /\ HandleEvent(Interpreted(Head(toHost)))
  /\ toHost' = Tail(toHost)
  /\ UNCHANGED <<view, runState, world, provider, review, doc, asked, reloads, toPage>>

-----------------------------------------------------------------------------
(* The page *)

\* A frame's messages are heard if they come from the session's origin
Hears ==
  Native \/ Accepts(Served.allowedOrigin, [origin |-> Reported(Served.url), window |-> "frame"])

Posts(msgs, d) ==
  /\ Len(toHost) + Len(msgs) <= MaxPosts
  /\ toHost' = IF Hears THEN toHost \o msgs ELSE toHost
  /\ doc' = d
  /\ UNCHANGED <<vars, provider, reloads, toPage>>

Says(type) == Posts(<<Message(type, Absent)>>, doc) /\ UNCHANGED <<review, asked>>

\* The not-found page; the WebView hears of its 404 first
NotFound ==
  (IF Native THEN <<Message("error", Absent)>> ELSE <<>>) \o <<Message("sessionExpired", Absent)>>

\* The document arrives and its script runs, or the server has no page for
\* the session.  Until then a token sent to it meets no handler: the stub of
\* the WebView keeps it for a script that awaits none, a frame loses it.
Loads ==
  /\ doc.stage = "loading"
  /\ Native => Navigates(AllowList(Served, {}), Served.url)
  /\ \/ /\ provider = "sumsub"
        /\ Posts(<<Message("statusChanged", "incomplete")>>, [doc EXCEPT !.stage = "live"])
     \* the SDK's script did not load: what comes after it on the page throws
     \/ provider = "sumsub" /\ Posts(<<>>, [doc EXCEPT !.stage = "dead"])
     \/ /\ provider = "mock"
        /\ \E first \in {<<>>, <<Message("applicantLoaded", Absent)>>} :
             Posts(first, [doc EXCEPT !.stage = "live"])
     \/ Posts(NotFound, [doc EXCEPT !.stage = "dead"])
  /\ UNCHANGED <<review, asked>>

\* handleLoadError of the frame and of the WebView
LoadFails ==
  /\ doc.stage = "loading"
  /\ Posts(<<Message("error", Absent)>>, [doc EXCEPT !.stage = "dead"])
  /\ UNCHANGED <<review, asked>>

\* The document is loaded anew; what was sent to the old one is lost
Reloads ==
  /\ doc.stage = "live" /\ reloads < MaxReloads
  /\ reloads' = reloads + 1
  /\ doc' = NewDocument /\ toPage' = <<>>
  /\ UNCHANGED <<vars, provider, review, asked, toHost>>

\* Only the approved are sent home
BugTerminal == {"approved"}

\* TERMINAL of the page
Terminal == {"approved", "finallyRejected"}

\* Room for the timer a completion sets (VerificationHook bounds them)
MayComplete ==
  Cardinality(timers) +
    Cardinality({i \in 1 .. Len(toHost) : toHost[i] = Message("complete", "approved")}) < MaxTimers

\* A review that ended stays as it is
Ended == review # NoReview /\ MapStatus(review) \in {"approved", "finallyRejected"}

\* idCheck.onApplicantStatusChanged
Reports(r) ==
  /\ doc.stage = "live" /\ provider = "sumsub"
  /\ Ended => r = review
  /\ MapStatus(r) = "approved" => MayComplete
  /\ review' = r
  /\ LET status == Lookup(r) IN
     Posts(<<Message("statusChanged", status)>> \o
             IF status \in Terminal THEN <<Message("complete", status)>> ELSE <<>>, doc)
  /\ UNCHANGED asked

\* The SDK's other messages
Tells ==
  /\ doc.stage = "live" /\ provider = "sumsub"
  /\ \E type \in {"submitted", "applicantLoaded", "error"} : Says(type)

\* expirationHandler: the newest promise is the one that can be resolved
Expires ==
  /\ doc.stage = "live" /\ asked < MaxRefreshes
  /\ asked' = asked + 1
  /\ Posts(<<Message("tokenExpired", Absent)>>,
           [doc EXCEPT !.awaits = IF provider = "sumsub" THEN asked + 1 ELSE 0])
  /\ UNCHANGED review

\* The mock page's buttons; finish posts once its webhook was answered
Clicks ==
  /\ doc.stage = "live" /\ provider = "mock"
  /\ \/ \E status \in {"approved", "declined"} :
          /\ status = "approved" => MayComplete
          /\ Posts(<<Message("statusChanged", status), Message("complete", status)>>, doc)
          /\ UNCHANGED <<review, asked>>
     \/ \E type \in {"cancel", "error"} : Says(type)

\* createSetTokenMessage posts an envelope into a frame; createSetTokenScript
\* calls the page of a WebView with the bare token
TokenForm == IF Native THEN "string" ELSE "envelope"

\* readToken takes an envelope alone
BugReadsToken(form) == form = "envelope"

\* readToken takes a string, or an envelope that carries one
ReadsToken(form) == form \in {"string", "envelope"}

\* setToken: a promise that waits is resolved, once
PageReceives ==
  /\ toPage # <<>>
  /\ toPage' = Tail(toPage)
  /\ doc' = IF doc.stage = "live" /\ ReadsToken(TokenForm) THEN [doc EXCEPT !.awaits = 0] ELSE doc
  /\ UNCHANGED <<vars, provider, review, asked, reloads, toHost>>

-----------------------------------------------------------------------------
PageStep ==
  \/ Loads \/ LoadFails \/ Reloads \/ Tells \/ Expires \/ Clicks \/ PageReceives
  \/ \E r \in Seen : Reports(r)

PageNext == HostStep \/ HostReceives \/ PageStep

\* Messages are delivered, requests are answered, React renders
PageFairness ==
  /\ WF_allVars(HostReceives) /\ WF_allVars(PageReceives)
  /\ WF_allVars(Render /\ PageFollows)
  /\ WF_allVars(RefreshSettles /\ PageFollows)

PageSpec == PageInit /\ [][PageNext]_allVars /\ PageFairness

-----------------------------------------------------------------------------
(* Properties *)

\* Every variable keeps its type: a document is on screen only while the
\* component embeds one, and messages only travel to and from one.
PageTypeOK ==
  /\ provider \in {"sumsub", "mock"} /\ review \in Seen \cup {NoReview} /\ doc \in Document
  /\ asked \in 0 .. MaxRefreshes /\ reloads \in 0 .. MaxReloads
  /\ toHost \in Seq(BridgeMessage) /\ toPage \in Seq(1 .. MaxRefreshes)
  /\ (doc.stage = "none") = (Embedded(view, mounted) = 0)
  /\ doc.stage = "none" => toHost = <<>> /\ toPage = <<>>
  /\ provider = "mock" => doc.awaits = 0

\* The webhook Sumsub sends of a review
WebhookOf(r) ==
  CASE r.status = "init" -> "applicantCreated"
    [] r.status = "pending" -> "applicantPending"
    [] r.status = "onHold" -> "applicantOnHold"
    [] OTHER -> "applicantReviewed"

Backend(r) == MapWebhook(WebhookOf(r), r)

\* The browser and the backend never say two things of one review, values
\* neither knows included: what the page tells the host is what the backend
\* makes of the webhook, and the outcome the host holds is the verdict the
\* backend stores (buildSumsubStatusTable, lookupSumsubStatus, handleEvent).
OutcomeIsTheVerdict ==
  review # NoReview =>
    /\ Lookup(review) = Backend(review)
    /\ machine.session = Embedded(view, mounted) /\ machine.result # "none" =>
         Backend(review) = IF machine.result = "approved" THEN "approved" ELSE "finallyRejected"

\* While the host hears of no failure, an SDK that awaits a fresh token is
\* given one, or the screen moves on from it, however reloads, the user and
\* late answers interleave (expirationHandler, useTokenRefresh, setToken).
TokenArrives ==
  [](heard # "error") =>
    \A k \in 1 .. MaxRefreshes : (doc.awaits = k) ~> (doc.awaits # k)

\* Page and host hear each other, and the page may be given tokens
Linked == ~Launches /\ Hears /\ (Native \/ PostsToken(Served))

\* What TokenArrives rests on: the SDK never awaits a token that nobody is
\* bringing.  Until it is given one, its request is on the way to the host, or
\* the newest refresh, which alone may post, is unanswered and still of the
\* session on screen, or the token is on the way to the page (expirationHandler,
\* useTokenRefresh, setToken).
TokenIsComing ==
  Linked /\ doc.awaits # 0 =>
    \/ \E i \in DOMAIN toHost : toHost[i].type = "tokenExpired"
    \/ \E q \in refreshes : MayPost(q)
    \/ toPage # <<>>

FlowMovedOn == machine.result # "none" \/ machine.status \in {"idle", "loading", "error"} \/ ~mounted

\* While the host hears of no failure, a review that ended with its page up
\* ends the flow: the host holds its outcome, unless the flow is cancelled,
\* begins anew or is unmounted.
VerdictReachesHost ==
  [](heard # "error") =>
    (review # NoReview /\ Backend(review) \in {"approved", "finallyRejected"})
      ~> (FlowMovedOn \/ review = NoReview)

\* What VerdictReachesHost rests on: once a review on screen ended, the host
\* holds an outcome or is about to be told of one, whatever else the page said
\* before and says after it (onApplicantStatusChanged, handleEvent).
VerdictIsComing ==
  Linked /\ review # NoReview /\ Backend(review) \in {"approved", "finallyRejected"} =>
    machine.result # "none" \/ \E i \in DOMAIN toHost : toHost[i].type = "complete"

\* error-codes.md:40: "declined and finallyRejected arrive through onComplete,
\* with the outcome screen already explaining the difference".  At least the
\* page stays in sight, for the applicant to try again.
DeclinedIsHeard ==
  (review # NoReview /\ Backend(review) = "declined")
    ~> (\/ FlowMovedOn \/ view.status = "verifying"
        \/ review = NoReview \/ Backend(review) # "declined")
=============================================================================
