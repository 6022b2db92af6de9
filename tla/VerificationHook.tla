--------------------------- MODULE VerificationHook ---------------------------
(***************************************************************************)
(* useIdentityVerification of kyc-react and of kyc-react-native, with the  *)
(* reducer and the event plan of kyc-core's machine.ts, useTokenRefresh,   *)
(* and the screens of the IdentityVerification component.                  *)
(*                                                                         *)
(* A run of begin() awaits the preflight, the source and its SDK; clicks,  *)
(* events of the page or the SDK, timers, answers to token refreshes and   *)
(* the network come in between, in any order.  React commits a state some  *)
(* time after it is dispatched: until then the screen, and the page or SDK *)
(* mounted in it, are those of an earlier state.                           *)
(***************************************************************************)
EXTENDS Naturals

CONSTANTS
  Native,       \* the React Native hook; else the browser's
  Launches,     \* isLaunchable: launch() runs an SDK outside the page
  Refreshes,    \* the source refreshes tokens and its sessions name an origin
  Headless,     \* a host calls the hook when it likes; else the component does
  Settings,     \* the host opens the settings of the OS (onOpenSettings)
  MaxRuns, MaxTimers, MaxRefreshes   \* bounds

ASSUME HookAssumption ==
  /\ {Native, Launches, Refreshes, Headless, Settings} \subseteq BOOLEAN
  /\ {MaxRuns, MaxTimers, MaxRefreshes} \subseteq Nat

VARIABLES
  machine,     \* stateRef: what the reducer made of the actions so far
  view,        \* the state React last committed
  running,     \* runningRef
  runs,        \* how many runs begun; a run's number names the session it got
  flights,     \* the await each run stands at
  final,       \* the runs whose SDK has emitted its last event
  timers,      \* delayed onComplete calls to come
  timerRef,    \* completeTimeoutRef, 0 for null
  refreshes,   \* token refreshes not yet answered
  seq,         \* seqRef
  token,       \* the last token posted into the page
  mounted,     \* mountedRef
  online,      \* navigator.onLine
  heard        \* the host callback the last step called

runState   == <<running, runs, flights, final>>
timerState == <<timers, timerRef>>
tokenState == <<refreshes, seq, token>>
world      == <<mounted, online>>
vars == <<machine, view, runState, timerState, tokenState, world, heard>>

State == {"idle", "loading", "verifying", "pending", "success",
          "permissionDenied", "error", "offline"}
Embedding == {"verifying", "pending"}   \* the states that show the page or SDK
Run == 1 .. MaxRuns

\* MachineState
Machine == [status : State, session : 0 .. MaxRuns,
            known : BOOLEAN,                       \* the session names its applicant
            result : {"none", "approved", "rejected"},
            error : {"none", "restartable", "other"},
            reason : {"none", "denied", "blocked"}]  \* the browser's is left out

Timer == [id : 1 .. MaxTimers, late : BOOLEAN]   \* late: scheduled before a later run or cancel
Refresh == [seq : 0 .. MaxRefreshes, session : 0 .. MaxRuns]

HookTypeOK ==
  /\ machine \in Machine /\ view \in Machine
  /\ running \in BOOLEAN /\ runs \in 0 .. MaxRuns
  /\ flights \in [Run -> {"none", "checking", "probing", "starting", "launching"}]
  /\ final \subseteq Run
  /\ timers \subseteq Timer /\ timerRef \in 0 .. MaxTimers
  /\ refreshes \subseteq Refresh /\ seq \in 0 .. MaxRefreshes /\ token \in Refresh
  /\ mounted \in BOOLEAN /\ online \in BOOLEAN
  /\ heard \in {"none", "status", "complete", "cancel", "error"}

-----------------------------------------------------------------------------
\* machineReducer, one operator per action

Idle == [status |-> "idle", session |-> 0, known |-> FALSE,
         result |-> "none", error |-> "none", reason |-> "none"]

Began(m)        == [m EXCEPT !.status = "loading", !.result = "none", !.error = "none",
                             !.reason = "none"]
Refused(m, why) == [m EXCEPT !.status = "permissionDenied", !.reason = why]
Offline(m)      == [m EXCEPT !.status = "offline"]
InSession(r)    == [Idle EXCEPT !.status = "verifying", !.session = r]
Applicant(m)    == IF m.session = 0 THEN m ELSE [m EXCEPT !.known = TRUE]
AwaitReview(m)  == [m EXCEPT !.status = "pending"]

\* The outcome's status taken for a state of the machine
BugOutcome(m, res) == [m EXCEPT !.status = res, !.result = res, !.error = "none"]

Outcome(m, res) == [m EXCEPT !.status = IF res = "approved" THEN "success" ELSE "pending",
                             !.result = res, !.error = "none"]

Failed(m, err, keepSession) ==
  [Idle EXCEPT !.status = "error", !.error = err,
               !.session = IF keepSession THEN m.session ELSE 0,
               !.known = keepSession /\ m.known]

ClearSession(m) == [m EXCEPT !.session = 0, !.known = FALSE]

-----------------------------------------------------------------------------
\* The delayed onComplete

Aged(T) == {[t EXCEPT !.late = TRUE] : t \in T}

\* clearCompleteTimeout: only the timer of the ref
ClearCompleteTimeout ==
  /\ timers' = Aged({t \in timers : t.id # timerRef})
  /\ timerRef' = 0

\* setTimeout; the ref forgets the timer it held
Schedule ==
  \E k \in 1 .. MaxTimers :
    /\ \A t \in timers : t.id # k
    /\ timers' = timers \cup {[id |-> k, late |-> FALSE]}
    /\ timerRef' = k

\* The mountedRef check dropped
BugFiresUnmounted(t) ==
  /\ t \in timers
  /\ timers' = timers \ {t} /\ timerRef' = 0
  /\ heard' = "complete"
  /\ UNCHANGED <<machine, view, runState, tokenState, world>>

\* The call made only if the success screen was rendered by then
BugFiresIfShown(t) ==
  /\ t \in timers
  /\ timers' = timers \ {t} /\ timerRef' = 0
  /\ heard' = IF mounted /\ view.status = "success" THEN "complete" ELSE "none"
  /\ UNCHANGED <<machine, view, runState, tokenState, world>>

TimerFires(t) ==
  /\ t \in timers
  /\ timers' = timers \ {t} /\ timerRef' = 0
  /\ heard' = IF mounted THEN "complete" ELSE "none"
  /\ UNCHANGED <<machine, view, runState, tokenState, world>>

-----------------------------------------------------------------------------
\* failWith: the error state and onError
FailWith(err, keepSession) ==
  machine' = Failed(machine, err, keepSession) /\ heard' = "error"

Quiet == heard' = "none" /\ UNCHANGED machine

\* refreshToken of useTokenRefresh: refused at once without a session
AsksForToken ==
  \/ /\ Refreshes /\ machine.session # 0
     /\ seq < MaxRefreshes
     /\ seq' = seq + 1
     /\ refreshes' = refreshes \cup {[seq |-> seq + 1, session |-> machine.session]}
     /\ Quiet
  \/ /\ ~Refreshes \/ machine.session = 0
     /\ FailWith("restartable", TRUE)
     /\ UNCHANGED <<refreshes, seq>>

\* "Only the newest refresh may post" dropped
BugMayPost(q) == mounted /\ machine.session # 0 /\ q.session = machine.session

MayPost(q) == /\ mounted /\ q.seq = seq
              /\ machine.session # 0 /\ q.session = machine.session

\* The page is given the token, when it is still there
RefreshAnswers(q) ==
  /\ q \in refreshes
  /\ refreshes' = refreshes \ {q}
  /\ token' = IF MayPost(q) /\ view.status \in Embedding THEN q ELSE token
  /\ Quiet
  /\ UNCHANGED <<view, runState, timerState, seq, world>>

\* A rejection is not compared with the session, only with the newest refresh
RefreshFails(q) ==
  /\ q \in refreshes
  /\ refreshes' = refreshes \ {q}
  /\ IF mounted /\ q.seq = seq THEN FailWith("restartable", TRUE) ELSE Quiet
  /\ UNCHANGED <<view, runState, timerState, seq, token, world>>

-----------------------------------------------------------------------------
\* handleEvent: the plan of planEvent, run

PageEvent == {"applicantLoaded", "submitted", "progress", "approved", "rejected",
              "cancel", "tokenExpired", "sessionExpired", "error", "denied"}
LastEvent == {"approved", "rejected", "cancel", "error", "expired", "denied"}
SdkEvent  == {"applicantLoaded", "submitted", "progress"} \cup LastEvent

\* "submitted" stands for statusChanged(pending) too, "progress" for any other
\* status, "denied" for an error PERMISSION_DENIED, a screen in the browser,
\* "expired" for an error of an SDK that only a new session recovers
PlannedAction(e) ==
  CASE e = "applicantLoaded" -> Applicant(machine)
    [] e = "submitted" -> AwaitReview(machine)
    [] e = "progress" -> machine
    [] e \in {"approved", "rejected"} -> Outcome(machine, e)
    [] e = "cancel" -> Idle
    [] e = "sessionExpired" -> Failed(machine, "restartable", TRUE)
    [] e = "denied" /\ ~Native -> Refused(machine, "none")
    [] e = "expired" -> Failed(machine, "restartable", FALSE)
    [] OTHER -> Failed(machine, "other", FALSE)

PlannedCallback(e) ==
  CASE e \in {"submitted", "progress"} -> "status"
    [] e = "rejected" -> "complete"
    [] e = "cancel" -> "cancel"
    [] e \in {"sessionExpired", "error", "expired"} \/ (e = "denied" /\ Native) -> "error"
    [] OTHER -> "none"

HandleEvent(e) ==
  /\ mounted
  /\ \/ e = "tokenExpired" /\ AsksForToken /\ UNCHANGED timerState
     \/ /\ e # "tokenExpired"
        /\ machine' = PlannedAction(e)
        /\ heard' = PlannedCallback(e)
        /\ IF e = "approved" THEN Schedule
           ELSE IF e = "cancel" THEN timers' = Aged(timers) /\ UNCHANGED timerRef
           ELSE UNCHANGED timerState
        /\ UNCHANGED <<refreshes, seq>>
  /\ UNCHANGED token

\* The page of the screen on show posts a message, or fails to load
PageEmits(e) ==
  /\ ~Launches
  /\ view.status \in Embedding /\ view.session # 0
  /\ HandleEvent(e)
  /\ UNCHANGED <<view, runState, world>>

\* The SDK reports to onEvent until its last event
SdkEmits(r, e) ==
  /\ flights[r] = "launching" /\ r \notin final
  /\ final' = IF e \in LastEvent THEN final \cup {r} ELSE final
  /\ HandleEvent(e)
  /\ UNCHANGED <<view, running, runs, flights, world>>

-----------------------------------------------------------------------------
\* begin, await by await

\* runningRef left set
BugSettles(r) == flights' = [flights EXCEPT ![r] = "none"] /\ UNCHANGED running

\* The finally block
Settles(r) == flights' = [flights EXCEPT ![r] = "none"] /\ running' = FALSE

\* The next await
Awaits(r, next) == flights' = [flights EXCEPT ![r] = next] /\ UNCHANGED running

\* A click commits before the next event is dispatched
Commits == IF Headless THEN UNCHANGED view ELSE view' = machine'

\* runningRef left unread
BugMayBegin == TRUE

MayBegin == ~running

-----------------------------------------------------------------------------
\* The screens of IdentityVerification: what the one on show offers

ErrorButtons == {IF view.error = "restartable" THEN "restart" ELSE "retry", "cancel"}

\* kyc-react: while an SDK or a review is awaited there is nothing to press
WebButtons ==
  CASE view.status = "idle" -> {"start", "cancel"}
    [] view.status = "verifying" /\ ~Launches -> {"cancel"}
    [] view.status \in {"permissionDenied", "offline"} -> {"retry"}
    [] view.status = "error" -> ErrorButtons
    [] OTHER -> {}

\* Only the settings can lift a block; without them cancel is the way out
PermissionButtons ==
  CASE view.reason = "denied" -> {"retry"}
    [] view.reason = "blocked" /\ Settings -> {"settings"}
    [] OTHER -> {"cancel"}

\* kyc-react-native
NativeButtons == IF view.status = "permissionDenied" THEN PermissionButtons ELSE WebButtons

Buttons == IF Native THEN NativeButtons ELSE WebButtons

-----------------------------------------------------------------------------
\* The calls of the component or the host

\* m: the machine as start and retry find it, or as restart cleared it
Begin(m) ==
  /\ MayBegin /\ runs < MaxRuns
  /\ runs' = runs + 1
  /\ ClearCompleteTimeout
  /\ heard' = "none"
  /\ IF Native \/ online
     THEN /\ machine' = Began(m) /\ running' = TRUE
          /\ \E first \in IF Native THEN {"checking", "probing"} ELSE {"starting"} :
               flights' = [flights EXCEPT ![runs + 1] = first]
     ELSE machine' = Offline(Began(m)) /\ UNCHANGED <<running, flights>>
  /\ Commits
  /\ UNCHANGED <<final, tokenState, world>>

\* start, and retry, which is the same
Start   == /\ Headless \/ (mounted /\ {"start", "retry"} \cap Buttons # {})
           /\ Begin(machine)

Restart == /\ Headless \/ (mounted /\ "restart" \in Buttons)
           /\ Begin(ClearSession(machine))

\* checkPermissions of the host: granted, refused, or it throws
CheckPermissions(r) ==
  /\ flights[r] = "checking" /\ mounted
  /\ \/ Awaits(r, "probing") /\ Quiet
     \/ /\ Settles(r)
        /\ \E why \in {"denied", "blocked"} : machine' = Refused(machine, why)
        /\ heard' = "none"
     \/ Settles(r) /\ FailWith("other", FALSE)
  /\ UNCHANGED <<view, runs, final, timerState, tokenState, world>>

\* NetInfo.fetch
ProbeConnection(r) ==
  /\ flights[r] = "probing" /\ mounted
  /\ \/ Awaits(r, "starting") /\ Quiet
     \/ Settles(r) /\ machine' = Offline(machine) /\ heard' = "none"
     \/ Settles(r) /\ FailWith("other", FALSE)
  /\ UNCHANGED <<view, runs, final, timerState, tokenState, world>>

\* source.start resolves or rejects
StartSettles(r) ==
  /\ flights[r] = "starting" /\ mounted
  /\ \/ /\ machine' = InSession(r) /\ heard' = "none"
        /\ IF Launches THEN Awaits(r, "launching") ELSE Settles(r)
     \/ Settles(r) /\ FailWith("other", FALSE)
  /\ UNCHANGED <<view, runs, final, timerState, tokenState, world>>

\* The complete event that already settled the flow is not looked for
BugSettled == machine.status \in {"idle", "error"}

\* An event settled the flow already
Settled == machine.result # "none" \/ machine.status \in {"idle", "error"}

\* launch resolves: a complete event, unless the flow is settled
LaunchResolves(r) ==
  /\ flights[r] = "launching" /\ mounted
  /\ Settles(r)
  /\ \/ Settled /\ Quiet /\ UNCHANGED <<timerState, tokenState>>
     \/ ~Settled /\ \E e \in {"approved", "rejected"} : HandleEvent(e)
  /\ UNCHANGED <<view, runs, final, world>>

LaunchRejects(r) ==
  /\ flights[r] = "launching" /\ mounted
  /\ Settles(r)
  /\ IF Settled THEN Quiet ELSE FailWith("other", FALSE)
  /\ UNCHANGED <<view, runs, final, timerState, tokenState, world>>

\* Any of those awaits comes back after the unmount
Abandons(r) ==
  /\ flights[r] # "none" /\ ~mounted
  /\ Settles(r) /\ Quiet
  /\ UNCHANGED <<view, runs, final, timerState, tokenState, world>>

-----------------------------------------------------------------------------
\* Nothing in cancel() asks whether the hook is still mounted
Cancel ==
  /\ Headless \/ (mounted /\ "cancel" \in Buttons)
  /\ ClearCompleteTimeout
  /\ machine' = Idle /\ heard' = "cancel"
  /\ Commits
  /\ UNCHANGED <<runState, tokenState, world>>

\* The offline and online events of the window
GoOffline ==
  /\ ~Native /\ mounted /\ online
  /\ online' = FALSE
  /\ machine' = IF machine.status \in {"loading", "verifying", "pending"}
                THEN Offline(machine) ELSE machine
  /\ heard' = "none"
  /\ UNCHANGED <<view, runState, timerState, tokenState, mounted>>

GoOnline ==
  /\ ~Native /\ mounted /\ ~online
  /\ online' = TRUE /\ Quiet
  /\ UNCHANGED <<view, runState, timerState, tokenState, mounted>>

Unmount ==
  /\ mounted
  /\ mounted' = FALSE
  /\ ClearCompleteTimeout /\ Quiet
  /\ UNCHANGED <<view, runState, tokenState, online>>

\* React commits the newest state
Render ==
  /\ mounted /\ view # machine
  /\ view' = machine /\ Quiet
  /\ UNCHANGED <<runState, timerState, tokenState, world>>

-----------------------------------------------------------------------------
HookInit ==
  /\ machine = Idle /\ view = Idle
  /\ running = FALSE /\ runs = 0 /\ flights = [r \in Run |-> "none"] /\ final = {}
  /\ timers = {} /\ timerRef = 0
  /\ refreshes = {} /\ seq = 0 /\ token = [seq |-> 0, session |-> 0]
  /\ mounted = TRUE /\ online \in IF Native THEN {TRUE} ELSE BOOLEAN
  /\ heard = "none"

\* The hook over a page.  NativeFlow composes it with an SDK.
HookNext ==
  \/ Start \/ Restart \/ Cancel \/ Unmount \/ Render \/ GoOffline \/ GoOnline
  \/ \E r \in Run : StartSettles(r) \/ Abandons(r)
  \/ \E e \in PageEvent : PageEmits(e)
  \/ \E t \in timers : TimerFires(t)
  \/ \E q \in refreshes : RefreshAnswers(q) \/ RefreshFails(q)

HookSpec == HookInit /\ [][HookNext]_vars

-----------------------------------------------------------------------------
\* Properties

\* A session the machine holds is the one the newest run acquired: runningRef
\* keeps a start() that is answered late from minting a session over another.
NewestSessionWins ==
  [][machine'.session \in {0, machine.session, runs}]_vars

\* The page's tokens never go back: a refresh answered after a newer one was
\* asked for is dropped, and so is one of a session restarted meanwhile.
TokensInOrder ==
  [][token' # token =>
       token'.seq > token.seq /\ token'.session = machine.session]_vars

\* No callback of the host runs once the hook is unmounted, whatever timers,
\* refreshes and awaits are left behind, timers the ref forgot included: all a
\* headless host may hear is the onCancel of a cancel() it calls itself.
NothingAfterUnmount == ~mounted => heard = "none" \/ (Headless /\ heard = "cancel")

\* What launch settles with after its SDK's last event is advisory: the host
\* hears of an outcome, a failure or a cancel once, not again by the promise.
AdvisorySettlement ==
  [][\A r \in final :
       flights[r] = "launching" /\ flights'[r] = "none" =>
         heard' = "none" /\ timers' = timers]_vars

\* A success on show with an onComplete to come reaches it, unless the machine
\* leaves success first or the hook is unmounted.
ApprovalReachesHost ==
  (machine.status = "success" /\ timers # {}) ~>
    (heard = "complete" \/ machine.status # "success" \/ ~mounted)
=============================================================================
