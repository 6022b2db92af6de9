----------------------------- MODULE NativeFlow -----------------------------
(***************************************************************************)
(* The React Native component over the Sumsub SDK: the hook and its        *)
(* screens (VerificationHook), the launchable source that runs the SDK     *)
(* (kyc-react-native's providers/sumsub/source.ts), and the provider of    *)
(* its tokens when the backend runs sessions (kyc-core's sessionToken.ts). *)
(*                                                                         *)
(* A host may mount a second component over the same source and the same   *)
(* tokens; of it the model keeps its calls into the two.  A source of      *)
(* another make keeps the contract of LaunchableSource and no more.        *)
(***************************************************************************)
EXTENDS VerificationHook, SumsubVocabulary

ASSUME NativeAssumption == Native /\ Launches /\ ~Refreshes

VARIABLES
  source,      \* "sumsub", or a source of another make
  sdk,         \* what became of the SDK of this component's launch
  launching,   \* the flag of the source
  elsewhere,   \* the other component's SDK is on screen
  holds,       \* sessionId: the token provider holds a session
  starting,    \* the promise that first calls share
  calls,       \* each caller's await of getAccessToken
  opened       \* sessions asked of the backend since a reset or a failure

flowVars   == <<source, sdk, launching, elsewhere>>
tokensVars == <<holds, starting, calls, opened>>
allVars    == <<vars, flowVars, tokensVars>>

\* The source's start, the SDK when its token expires, and the other component
Caller == {"source", "sdk", "other"}

SdkState == {"none", "open", "refused", "cancelled", "completed", "failed"}

\* The source has no SDK any more: its launch has settled
Over == {"refused", "cancelled", "completed", "failed"}

FlowInit ==
  /\ HookInit
  /\ source \in {"sumsub", "other"}
  /\ sdk = "none" /\ launching = FALSE /\ elsewhere = FALSE
  /\ holds = FALSE /\ starting = FALSE
  /\ calls = [c \in Caller |-> "none"] /\ opened = 0

-----------------------------------------------------------------------------
(* createSessionTokenProvider *)

\* Every call before the first answer starts a session of its own
BugStartOnce ==
  /\ starting' = TRUE /\ opened' = opened + 1

\* startOnce
StartOnce ==
  IF starting THEN UNCHANGED <<starting, opened>>
  ELSE starting' = TRUE /\ opened' = opened + 1

\* getAccessToken: the session is refreshed, or the one start is awaited
GetAccessToken(c) ==
  /\ calls[c] = "none"
  /\ \/ holds /\ calls' = [calls EXCEPT ![c] = "refresh"] /\ UNCHANGED <<starting, opened>>
     \/ ~holds /\ calls' = [calls EXCEPT ![c] = "start"] /\ StartOnce
  /\ UNCHANGED holds

\* The caller goes on with its answer
Returns(c, answer) ==
  /\ calls[c] = answer
  /\ calls' = [calls EXCEPT ![c] = "none"]
  /\ UNCHANGED <<holds, starting, opened>>

\* Those who share the start are answered together; a failure leaves nothing
StartAnswers ==
  /\ starting /\ starting' = FALSE
  /\ \E answer \in {"token", "failure"} :
       /\ calls' = [c \in Caller |-> IF calls[c] = "start" THEN answer ELSE calls[c]]
       /\ holds' = (answer = "token")
       /\ opened' = IF answer = "token" THEN opened ELSE 0
  /\ UNCHANGED <<vars, flowVars>>

RefreshAnswered(c) ==
  /\ calls[c] = "refresh"
  /\ \E answer \in {"token", "failure"} : calls' = [calls EXCEPT ![c] = answer]
  /\ UNCHANGED <<vars, flowVars, holds, starting, opened>>

\* A start under way is not forgotten
Reset ==
  /\ holds /\ holds' = FALSE /\ opened' = 0
  /\ UNCHANGED <<vars, flowVars, starting, calls>>

-----------------------------------------------------------------------------
(* createSumsubNativeSource *)

\* begin, up to source.start: it is refused without an SDK, or asks for a token
Preflight(r) ==
  /\ CheckPermissions(r)
  /\ UNCHANGED <<flowVars, tokensVars>>

Probes(r) ==
  /\ ProbeConnection(r)
  /\ IF flights'[r] = "starting" /\ source = "sumsub"
     THEN GetAccessToken("source") \/ UNCHANGED tokensVars
     ELSE UNCHANGED tokensVars
  /\ UNCHANGED flowVars

\* The launch that is refused clears the flag on its way out
BugLaunch ==
  IF launching
  THEN sdk' = "refused" /\ launching' = FALSE
  ELSE \/ sdk' = "open" /\ launching' = TRUE
       \/ sdk' = "failed" /\ UNCHANGED launching

\* launch, up to the SDK's own launch: a second one is refused, and one whose
\* SDK cannot be built or whose session has no token fails
Launch ==
  IF launching
  THEN sdk' = "refused" /\ UNCHANGED launching
  ELSE \/ sdk' = "open" /\ launching' = TRUE
       \/ sdk' = "failed" /\ UNCHANGED launching

\* start resolves, and the hook launches at once; or it rejects
Started(r) ==
  /\ StartSettles(r)
  /\ LET ok == flights'[r] = "launching" IN
     \/ /\ source = "sumsub"
        /\ IF ok THEN Returns("source", "token")
           ELSE \/ Returns("source", "failure")
                \/ calls["source"] = "none" /\ UNCHANGED tokensVars
     \/ source # "sumsub" /\ UNCHANGED tokensVars
  /\ IF flights'[r] # "launching" THEN UNCHANGED <<sdk, launching>>
     ELSE IF source = "sumsub" THEN Launch
     ELSE sdk' = "open" /\ UNCHANGED launching
  /\ UNCHANGED <<source, elsewhere>>

\* onEvent, which the hook ignores once it is unmounted
Reported(e) ==
  HandleEvent(e) \/ (~mounted /\ Quiet /\ UNCHANGED <<timerState, tokenState>>)

\* onStatusChanged and onEvent of the SDK
SdkTells(r) ==
  /\ source = "sumsub" /\ flights[r] = "launching" /\ sdk = "open"
  /\ \/ Reported("applicantLoaded")
     \/ \E status \in DOMAIN MobileStatuses :
          /\ MapMobile(status) # Absent
          /\ Reported(IF MapMobile(status) = "pending" THEN "submitted" ELSE "progress")
  /\ UNCHANGED <<view, runState, world, flowVars, tokensVars>>

\* CANCELLED_STATUSES: the applicant closed the SDK before a verdict
Cancelled == {"initial", "incomplete"}

\* The one event of a result, in the words of VerificationHook
EventOf(result) ==
  CASE result.type = "error" -> IF result.status = "TOKEN_EXPIRED" THEN "expired" ELSE "error"
    [] result.type = "complete" /\ result.status \in Cancelled -> "cancel"
    [] result.type = "complete" /\ result.status = "approved" -> "approved"
    [] OTHER -> "rejected"

\* The SDK's launch ends: its event, then what launch settles with
SdkEnds(r) ==
  /\ source = "sumsub" /\ flights[r] = "launching" /\ sdk = "open"
  /\ \E success \in BOOLEAN, status \in DOMAIN MobileStatuses,
        errorType \in {"Unauthorized", "NetworkError", Unknown} :
       LET event == EventOf(MobileResult(success, status, errorType)) IN
       /\ Reported(event)
       /\ sdk' = CASE event = "cancel" -> "cancelled"
                   [] event \in {"approved", "rejected"} -> "completed"
                   [] OTHER -> "failed"
  /\ final' = final \cup {r}
  /\ launching' = FALSE
  /\ UNCHANGED <<view, running, runs, flights, world, source, elsewhere, tokensVars>>

\* The SDK throws: no event
SdkThrows(r) ==
  /\ source = "sumsub" /\ flights[r] = "launching" /\ sdk = "open"
  /\ sdk' = "failed" /\ launching' = FALSE
  /\ UNCHANGED <<vars, source, elsewhere, tokensVars>>

\* A source of another make: any events, then its promise
OtherMake(r) ==
  /\ source = "other" /\ mounted
  /\ \/ UNCHANGED sdk /\ \E e \in SdkEvent : SdkEmits(r, e)
     \/ sdk' = "none" /\ (LaunchResolves(r) \/ LaunchRejects(r))
  /\ UNCHANGED <<source, launching, elsewhere, tokensVars>>

\* runLaunch goes on with what launch settled with
Launched(r) ==
  /\ source = "sumsub"
  /\ \/ sdk \in {"cancelled", "completed"} /\ LaunchResolves(r)
     \/ sdk \in {"failed", "refused"} /\ LaunchRejects(r)
  /\ sdk' = "none"
  /\ UNCHANGED <<source, launching, elsewhere, tokensVars>>

\* An await comes back to an unmounted hook
Dropped(r) ==
  /\ Abandons(r)
  /\ IF flights[r] = "starting" /\ source = "sumsub" /\ calls["source"] # "none"
     THEN Returns("source", "token") \/ Returns("source", "failure")
     ELSE UNCHANGED tokensVars
  /\ source = "sumsub" /\ flights[r] = "launching" => sdk \in Over
  /\ sdk' = "none"
  /\ UNCHANGED <<source, launching, elsewhere>>

\* The expiration handler of the SDK, and its answer
SdkExpires ==
  /\ source = "sumsub" /\ sdk = "open"
  /\ GetAccessToken("sdk")
  /\ UNCHANGED <<vars, flowVars>>

Refreshed ==
  /\ \E answer \in {"token", "failure"} : Returns("sdk", answer)
  /\ UNCHANGED <<vars, flowVars>>

-----------------------------------------------------------------------------
(* The other component *)

OtherAsks ==
  /\ source = "sumsub" /\ GetAccessToken("other") /\ UNCHANGED <<vars, flowVars>>

OtherLaunches ==
  /\ \/ Returns("other", "failure") /\ UNCHANGED <<launching, elsewhere>>
     \/ /\ Returns("other", "token")
        /\ launching' = TRUE
        /\ elsewhere' = (elsewhere \/ ~launching)
  /\ UNCHANGED <<vars, source, sdk>>

OtherEnds ==
  /\ elsewhere /\ elsewhere' = FALSE
  /\ launching' = FALSE
  /\ UNCHANGED <<vars, source, sdk, tokensVars>>

-----------------------------------------------------------------------------
Hook ==
  /\ \/ Start \/ Restart \/ Cancel \/ Unmount \/ Render
     \/ \E t \in timers : TimerFires(t)
  /\ UNCHANGED <<flowVars, tokensVars>>

Settling(r) ==
  Preflight(r) \/ Probes(r) \/ Started(r) \/ Launched(r) \/ Dropped(r)

FlowNext ==
  \/ Hook
  \/ \E r \in Run : Settling(r) \/ SdkTells(r) \/ SdkEnds(r) \/ SdkThrows(r) \/ OtherMake(r)
  \/ SdkExpires \/ Refreshed
  \/ OtherAsks \/ OtherLaunches \/ OtherEnds
  \/ StartAnswers \/ Reset
  \/ \E c \in Caller : RefreshAnswered(c)

\* A timer that was set fires, a promise settles, a request is answered, React
\* renders; nothing is asked of the applicant in the SDK
FlowFairness ==
  /\ WF_allVars((\E t \in timers : TimerFires(t)) /\ UNCHANGED <<flowVars, tokensVars>>)
  /\ WF_allVars(\E r \in Run : Settling(r))
  /\ WF_allVars(StartAnswers) /\ \A c \in Caller : WF_allVars(RefreshAnswered(c))
  /\ WF_allVars(Render /\ UNCHANGED <<flowVars, tokensVars>>)

FlowSpec == FlowInit /\ [][FlowNext]_allVars /\ FlowFairness

-----------------------------------------------------------------------------
(* Properties *)

\* Every variable keeps its type; a launch that came to something is one the
\* hook awaits, and a start under way is the one its callers share.
FlowTypeOK ==
  /\ HookTypeOK
  /\ source \in {"sumsub", "other"} /\ sdk \in SdkState
  /\ {launching, elsewhere, holds, starting} \subseteq BOOLEAN
  /\ calls \in [Caller -> {"none", "start", "refresh", "token", "failure"}] /\ opened \in Nat
  /\ sdk # "none" => \E r \in Run : flights[r] = "launching"
  /\ \A c \in Caller : calls[c] = "start" => starting

\* native-sdk.md, "one session row per attempt": until a reset or a failure
\* the backend is asked for one session, whoever asks for a token and when
\* (createSessionTokenProvider).
OneSessionPerAttempt == opened <= 1

\* The SDK is on screen once, for one component or the other, refused and
\* failed launches between them included (the launching flag of the source).
OneSdkOnScreen == ~(source = "sumsub" /\ sdk = "open" /\ elsewhere)

\* What a press can still do: with a run under way start, retry and restart
\* return at once
Works ==
  Buttons \ (IF running THEN {"start", "retry", "restart"} ELSE {})

\* The user is never left before a screen that offers nothing: it changes, or
\* the SDK comes up, or the host has been told the outcome (begin, runLaunch,
\* the screens of IdentityVerification).
NoDeadScreen ==
  (mounted /\ Works = {} /\ sdk # "open")
    ~> (~mounted \/ Works # {} \/ sdk = "open" \/ view.result # "none")

\* The await of a run that comes back without the applicant
ComesBack(r) == flights[r] # "none" /\ (flights[r] = "launching" => sdk \in Over)

\* What keeps a screen from being dead: one that offers nothing is behind the
\* machine, or shows the outcome the host is told, or a run is under way whose
\* await needs nobody to come back (begin's finally, runLaunch).
ScreenHasAWayOn ==
  mounted /\ Works = {} /\ sdk # "open" =>
    view # machine \/ view.result # "none" \/ \E r \in Run : ComesBack(r)
=============================================================================
