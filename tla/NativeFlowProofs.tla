--------------------------- MODULE NativeFlowProofs ---------------------------
(***************************************************************************)
(* Theorems about NativeFlow, for every number of runs and timers: what    *)
(* the hook and the source promise beside a second component, whatever     *)
(* order requests, events and promises come in.                            *)
(***************************************************************************)
EXTENDS NativeFlow, VerificationHookProofs

\* createSessionTokenProvider: one session held or asked for, or none
TokensInv ==
  /\ holds \in BOOLEAN /\ starting \in BOOLEAN
  /\ calls \in [Caller -> {"none", "start", "refresh", "token", "failure"}]
  /\ ~(holds /\ starting)
  /\ opened = IF holds \/ starting THEN 1 ELSE 0
  /\ \A c \in Caller : calls[c] = "start" => starting

\* The flag of the source is up while an SDK is on screen, and only then
SdkInv ==
  /\ source \in {"sumsub", "other"} /\ sdk \in SdkState
  /\ launching \in BOOLEAN /\ elsewhere \in BOOLEAN
  /\ sdk # "none" => \E r \in Run : flights[r] = "launching"
  /\ source = "sumsub" =>
       (launching <=> (sdk = "open" \/ elsewhere)) /\ ~(sdk = "open" /\ elsewhere)

\* A run whose SDK has had its last event is of the past, or stands at a launch
\* the machine has settled
FinalInv ==
  \A r \in final :
    /\ r <= runs /\ flights[r] \in {"none", "launching"}
    /\ flights[r] = "launching" =>
         (mounted => Settled) /\ (source = "sumsub" => sdk # "open")

FlowInv == HookInv /\ NothingAfterUnmount /\ TokensInv /\ SdkInv /\ FinalInv

-----------------------------------------------------------------------------
(* The tokens *)

\* Every step leaves the tokens alone or is one of theirs
TokensMove ==
  \/ UNCHANGED tokensVars
  \/ \E c \in Caller :
       \/ GetAccessToken(c)
       \/ Returns(c, "token") \/ Returns(c, "failure")
       \/ RefreshAnswered(c)
  \/ StartAnswers \/ Reset

\* The actions of the flow do nothing else to them
LEMMA StepsMoveTokens == FlowNext => TokensMove
<1> SUFFICES ASSUME FlowNext PROVE TokensMove
  OBVIOUS
<1>1. {"source", "sdk", "other"} \subseteq Caller
  BY DEF Caller
<1>2. ASSUME NEW r \in Run,
             Settling(r) \/ SdkTells(r) \/ SdkEnds(r) \/ SdkThrows(r) \/ OtherMake(r)
      PROVE  TokensMove
  BY <1>1, <1>2 DEF TokensMove, Settling, Preflight, Probes, Started, Launched, Dropped,
                    SdkTells, SdkEnds, SdkThrows, OtherMake
<1>3. CASE Hook \/ SdkExpires \/ Refreshed \/ OtherAsks \/ OtherLaunches \/ OtherEnds
  BY <1>1, <1>3 DEF TokensMove, Hook, SdkExpires, Refreshed, OtherAsks, OtherLaunches, OtherEnds
<1>4. CASE StartAnswers \/ Reset \/ \E c \in Caller : RefreshAnswered(c)
  BY <1>4 DEF TokensMove
<1> QED BY <1>2, <1>3, <1>4 DEF FlowNext

\* A session is asked for only where none is held or on its way
LEMMA TokensKeep == TokensInv /\ TokensMove => TokensInv'
<1> SUFFICES ASSUME TokensInv, TokensMove PROVE TokensInv'
  OBVIOUS
<1>1. CASE UNCHANGED tokensVars
  BY <1>1 DEF TokensInv, tokensVars
<1>2. ASSUME NEW c \in Caller, GetAccessToken(c) PROVE TokensInv'
  <2>1. CASE holds
    BY <1>2, <2>1 DEF GetAccessToken, TokensInv
  <2>2. CASE ~holds
    <3>1. /\ holds' = FALSE /\ starting' = TRUE /\ opened' = 1
          /\ calls' = [calls EXCEPT ![c] = "start"]
      <4>1. CASE starting
        BY <1>2, <2>2, <4>1 DEF GetAccessToken, StartOnce, TokensInv
      <4>2. CASE ~starting
        BY <1>2, <2>2, <4>2 DEF GetAccessToken, StartOnce, TokensInv
      <4> QED BY <4>1, <4>2
    <3> QED BY <3>1 DEF TokensInv
  <2> QED BY <2>1, <2>2
<1>3. ASSUME NEW c \in Caller, NEW answer \in {"token", "failure"}, Returns(c, answer)
      PROVE  TokensInv'
  BY <1>3 DEF Returns, TokensInv
<1>4. ASSUME NEW c \in Caller, RefreshAnswered(c) PROVE TokensInv'
  BY <1>4 DEF RefreshAnswered, TokensInv
<1>5. CASE StartAnswers
  BY <1>5 DEF StartAnswers, TokensInv
<1>6. CASE Reset
  BY <1>6 DEF Reset, TokensInv
<1> QED BY <1>1, <1>2, <1>3, <1>4, <1>5, <1>6 DEF TokensMove

-----------------------------------------------------------------------------
(* The runs *)

\* No other run is under way
LEMMA Alone ==
  ASSUME OneRun, NEW r \in Run, flights[r] # "none"
  PROVE  running /\ r = runs /\ \A q \in Run \ {r} : flights[q] = "none"
  BY DEF OneRun

\* The events of the SDK, told to a hook that may be unmounted
LEMMA ReportedKeeps ==
  ASSUME HookInv, NEW e \in Event, Reported(e),
         UNCHANGED <<view, running, runs, flights, world>>, final' \subseteq Run
  PROVE  Keeps
<1>1. CASE HandleEvent(e)
  BY <1>1, EventKeeps
<1>2. CASE ~mounted /\ Quiet /\ UNCHANGED <<timerState, tokenState>>
  <2>1. machine' = machine /\ heard' = "none" /\ UNCHANGED <<timers, timerRef, tokenState>>
    BY <1>2 DEF Quiet, timerState
  <2>2. OneRun' /\ NewestMayPost'
    BY <2>1, RunsStandKeeps, RefreshesStandKeeps DEF HookInv, RunsStand, RefreshesStand
  <2>3. HookTypeOK'
    BY <2>1 DEF HookInv, HookTypeOK, tokenState, world
  <2> QED BY <2>1, <2>2, <2>3 DEF Keeps, HookInv, tokenState
<1> QED BY <1>1, <1>2 DEF Reported

\* What a result of the SDK comes to
LEMMA ResultType ==
  ASSUME NEW result
  PROVE  EventOf(result) \in {"expired", "error", "cancel", "approved", "rejected"}
  BY DEF EventOf

\* What the hook promises, it promises over the SDK and its source
LEMMA HookKeeps == ASSUME HookInv, NothingAfterUnmount, FlowNext PROVE Keeps
<1>1. CASE Hook
  BY <1>1, BeginKeeps, CancelKeeps, UnmountKeeps, RenderKeeps, TimerFiresKeeps DEF Hook
<1>2. ASSUME NEW r \in Run, Settling(r) PROVE Keeps
  BY <1>2, CheckPermissionsKeeps, ProbeConnectionKeeps, StartSettlesKeeps,
     LaunchResolvesKeeps, LaunchRejectsKeeps, AbandonsKeeps
  DEF Settling, Preflight, Probes, Started, Launched, Dropped
<1>3. ASSUME NEW r \in Run, SdkTells(r) PROVE Keeps
  <2>1. PICK e \in Event : Reported(e)
    BY <1>3 DEF SdkTells, Event, PageEvent
  <2>2. UNCHANGED <<view, running, runs, flights, world>> /\ final' \subseteq Run
    BY <1>3 DEF SdkTells, runState, HookInv, HookTypeOK
  <2> QED BY <2>1, <2>2, ReportedKeeps
<1>4. ASSUME NEW r \in Run, SdkEnds(r) PROVE Keeps
  <2>1. PICK e \in Event : Reported(e)
    BY <1>4, ResultType DEF SdkEnds, Event, SdkEvent, LastEvent
  <2>2. UNCHANGED <<view, running, runs, flights, world>> /\ final' \subseteq Run
    BY <1>4 DEF SdkEnds, HookInv, HookTypeOK
  <2> QED BY <2>1, <2>2, ReportedKeeps
<1>5. ASSUME NEW r \in Run, SdkThrows(r) PROVE Keeps
  BY <1>5, StutterKeeps DEF SdkThrows
<1>6. ASSUME NEW r \in Run, OtherMake(r) PROVE Keeps
  <2>1. ASSUME NEW e \in SdkEvent, SdkEmits(r, e) PROVE Keeps
    BY <2>1, EventKeeps DEF SdkEmits, Event, HookInv, HookTypeOK
  <2> QED BY <1>6, <2>1, LaunchResolvesKeeps, LaunchRejectsKeeps DEF OtherMake
<1>7. CASE \/ SdkExpires \/ Refreshed \/ OtherAsks \/ OtherLaunches \/ OtherEnds
           \/ StartAnswers \/ Reset \/ \E c \in Caller : RefreshAnswered(c)
  BY <1>7, StutterKeeps
  DEF SdkExpires, Refreshed, OtherAsks, OtherLaunches, OtherEnds, StartAnswers, Reset,
      RefreshAnswered
<1> QED BY <1>1, <1>2, <1>3, <1>4, <1>5, <1>6, <1>7 DEF FlowNext

-----------------------------------------------------------------------------
(* The SDK and the flag *)

\* A step that leaves the source alone and ends no launch
LEMMA SdkStands ==
  ASSUME SdkInv, UNCHANGED flowVars,
         \A r \in Run : flights[r] = "launching" => flights'[r] = "launching"
  PROVE  SdkInv'
  BY DEF SdkInv, flowVars

\* While a run's launch is awaited nothing else is, and before it there is no SDK
LEMMA NoSdkBefore ==
  ASSUME OneRun, SdkInv, NEW r \in Run, flights[r] # "none", flights[r] # "launching"
  PROVE  sdk = "none"
  BY Alone DEF SdkInv

\* The flag goes up with the SDK and comes down with it
LEMMA SdkKeeps == ASSUME HookInv, SdkInv, FlowNext PROVE SdkInv'
<1> USE DEF HookInv
<1> DEFINE Same == \A r \in Run : flights[r] = "launching" => flights'[r] = "launching"
<1>1. CASE Hook
  <2>1. ASSUME Start \/ Restart PROVE Same
    <3>1. ~running
      BY <2>1 DEF Start, Restart, Begin, MayBegin
    <3> QED BY <3>1 DEF OneRun
  <2>2. ASSUME Cancel \/ Unmount \/ Render \/ \E t \in timers : TimerFires(t) PROVE Same
    <3>1. UNCHANGED runState
      BY <2>2 DEF Cancel, Unmount, Render, TimerFires
    <3> QED BY <3>1 DEF runState
  <2>3. Same
    BY <1>1, <2>1, <2>2 DEF Hook
  <2> QED BY <1>1, <2>3, SdkStands DEF Hook
<1>2. ASSUME NEW r \in Run, Preflight(r) \/ Probes(r) PROVE SdkInv'
  <2>1. flights[r] \in {"checking", "probing"} /\ UNCHANGED flowVars
    BY <1>2 DEF Preflight, Probes, CheckPermissions, ProbeConnection
  <2>2. Same
    BY <1>2, <2>1 DEF Preflight, Probes, CheckPermissions, ProbeConnection,
                      Settles, Awaits, HookTypeOK
  <2> QED BY <2>1, <2>2, SdkStands
<1>3. ASSUME NEW r \in Run, Started(r) PROVE SdkInv'
  <2>1. flights[r] = "starting" /\ UNCHANGED <<source, elsewhere>>
    BY <1>3 DEF Started, StartSettles
  <2>2. sdk = "none"
    BY <2>1, NoSdkBefore
  <2>3. CASE flights'[r] # "launching"
    BY <1>3, <2>1, <2>2, <2>3 DEF Started, SdkInv
  <2>4. CASE flights'[r] = "launching" /\ source = "sumsub"
    <3>1. Launch
      BY <1>3, <2>4 DEF Started
    <3>2. CASE launching
      BY <2>1, <2>2, <2>4, <3>1, <3>2 DEF Launch, SdkInv, SdkState
    <3>3. CASE ~launching
      BY <2>1, <2>2, <2>4, <3>1, <3>3 DEF Launch, SdkInv, SdkState
    <3> QED BY <3>2, <3>3
  <2>5. CASE flights'[r] = "launching" /\ source # "sumsub"
    BY <1>3, <2>1, <2>5 DEF Started, SdkInv, SdkState
  <2> QED BY <2>3, <2>4, <2>5
<1>4. ASSUME NEW r \in Run, Launched(r) PROVE SdkInv'
  BY <1>4 DEF Launched, SdkInv, SdkState
<1>5. ASSUME NEW r \in Run, Dropped(r) PROVE SdkInv'
  <2>1. flights[r] # "none" /\ sdk' = "none" /\ UNCHANGED <<source, launching, elsewhere>>
    BY <1>5 DEF Dropped, Abandons
  <2>2. source = "sumsub" => sdk # "open"
    BY <1>5, <2>1, NoSdkBefore DEF Dropped, Over
  <2> QED BY <2>1, <2>2 DEF SdkInv, SdkState
<1>6. ASSUME NEW r \in Run, SdkTells(r) PROVE SdkInv'
  BY <1>6, SdkStands DEF SdkTells, runState
<1>7. ASSUME NEW r \in Run, SdkEnds(r) \/ SdkThrows(r) PROVE SdkInv'
  <2>1. /\ source = "sumsub" /\ sdk = "open" /\ launching' = FALSE
        /\ sdk' \in Over /\ UNCHANGED <<flights, source, elsewhere>>
    BY <1>7 DEF SdkEnds, SdkThrows, Over, vars, runState
  <2> QED BY <2>1 DEF SdkInv, SdkState, Over
<1>8. ASSUME NEW r \in Run, OtherMake(r) PROVE SdkInv'
  BY <1>8 DEF OtherMake, SdkEmits, SdkInv, SdkState
<1>9. CASE OtherLaunches \/ OtherEnds
  <2>1. UNCHANGED <<flights, source, sdk>>
    BY <1>9 DEF OtherLaunches, OtherEnds, vars, runState
  <2>2. \/ UNCHANGED <<launching, elsewhere>>
        \/ launching' = TRUE /\ elsewhere' = (elsewhere \/ ~launching)
        \/ elsewhere /\ elsewhere' = FALSE /\ launching' = FALSE
    BY <1>9 DEF OtherLaunches, OtherEnds
  <2>3. /\ launching' \in BOOLEAN /\ elsewhere' \in BOOLEAN
        /\ (source = "sumsub" =>
              (launching' <=> (sdk = "open" \/ elsewhere')) /\ ~(sdk = "open" /\ elsewhere'))
    <3>1. /\ launching \in BOOLEAN /\ elsewhere \in BOOLEAN
          /\ (source = "sumsub" =>
                (launching <=> (sdk = "open" \/ elsewhere)) /\ ~(sdk = "open" /\ elsewhere))
      BY DEF SdkInv
    <3>2. CASE UNCHANGED <<launching, elsewhere>>
      BY <3>1, <3>2
    <3>3. CASE launching' = TRUE /\ elsewhere' = (elsewhere \/ ~launching)
      BY <3>1, <3>3, Zenon
    <3>4. CASE elsewhere /\ elsewhere' = FALSE /\ launching' = FALSE
      BY <3>1, <3>4
    <3> QED BY <2>2, <3>2, <3>3, <3>4
  <2> QED BY <2>1, <2>3 DEF SdkInv
<1>10. CASE \/ SdkExpires \/ Refreshed \/ OtherAsks
            \/ StartAnswers \/ Reset \/ \E c \in Caller : RefreshAnswered(c)
  BY <1>10, SdkStands
  DEF SdkExpires, Refreshed, OtherAsks, StartAnswers, Reset, RefreshAnswered, vars, runState
<1> QED BY <1>1, <1>2, <1>3, <1>4, <1>5, <1>6, <1>7, <1>8, <1>9, <1>10
        DEF FlowNext, Settling

-----------------------------------------------------------------------------
(* The launches that are over *)

\* Any last event settles the machine of the native hook
LEMMA LastEventSettles ==
  ASSUME machine \in Machine, NEW e \in LastEvent, HandleEvent(e)
  PROVE  Settled'
<1>1. machine' = PlannedAction(e)
  BY DEF HandleEvent, LastEvent
<1>2. CASE e \in {"approved", "rejected"}
  BY <1>1, <1>2 DEF PlannedAction, Outcome, Settled, Machine
<1>3. CASE e = "cancel"
  BY <1>1, <1>3 DEF PlannedAction, Idle, Settled
<1>4. CASE e \in {"error", "expired", "denied"}
  BY <1>1, <1>4, NativeAssumption DEF PlannedAction, Failed, Idle, Settled
<1> QED BY <1>2, <1>3, <1>4 DEF LastEvent

\* A step that leaves the launches that are over as they are
LEMMA FinalStands ==
  ASSUME HookInv, FinalInv, final' = final, runs' \in Nat, runs <= runs', source' = source,
         \A r \in final : \/ flights'[r] = "none"
                          \/ /\ flights'[r] = flights[r]
                             /\ (flights[r] = "launching" =>
                                   /\ (sdk' = "open" => sdk = "open")
                                   /\ (mounted' => mounted /\ (Settled => Settled')))
  PROVE  FinalInv'
<1>1. runs \in Nat /\ \A r \in final : r \in Nat
  BY Constants DEF HookInv, HookTypeOK, Run
<1> QED BY <1>1 DEF FinalInv

\* A launch settled by its last event stays settled until its promise is back
LEMMA FinalKeeps == ASSUME HookInv, SdkInv, FinalInv, FlowNext PROVE FinalInv'
<1> USE DEF HookInv
<1>0. runs \in Nat /\ final \subseteq Run /\ runs <= runs /\ machine \in Machine
  BY Constants DEF HookTypeOK
<1>1. CASE Hook
  <2>1. CASE Start \/ Restart
    <3>1. ~running /\ runs' = runs + 1 /\ final' = final
      BY <2>1 DEF Start, Restart, Begin, MayBegin
    <3>2. \A r \in final : flights[r] = "none" /\ flights'[r] = "none"
      <4>1. \A r \in Run : flights[r] = "none"
        BY <3>1 DEF OneRun
      <4>2. \A r \in final : r # runs + 1
        BY <1>0 DEF FinalInv, Run
      <4>3. flights' = flights
            \/ \E first \in {"checking", "probing", "starting"} :
                  flights' = [flights EXCEPT ![runs + 1] = first]
        BY <2>1 DEF Start, Restart, Begin
      <4> QED BY <1>0, <4>1, <4>2, <4>3 DEF HookTypeOK
    <3> QED BY <1>0, <1>1, <3>1, <3>2, FinalStands DEF Hook, flowVars
  <2>2. CASE Cancel \/ Unmount \/ Render \/ \E t \in timers : TimerFires(t)
    <3>1. UNCHANGED runState
      BY <2>2 DEF Cancel, Unmount, Render, TimerFires
    <3>2. mounted' => mounted /\ (Settled => Settled')
      <4>1. CASE Cancel
        BY <4>1 DEF Cancel, Settled, Idle, world
      <4>2. CASE Unmount
        BY <4>2 DEF Unmount
      <4>3. CASE Render \/ \E t \in timers : TimerFires(t)
        BY <4>3 DEF Render, TimerFires, Quiet, Settled, world
      <4> QED BY <2>2, <4>1, <4>2, <4>3
    <3> QED BY <1>0, <1>1, <3>1, <3>2, FinalStands DEF Hook, flowVars, runState
  <2> QED BY <1>1, <2>1, <2>2 DEF Hook
<1>2. ASSUME NEW r \in Run, Settling(r) PROVE FinalInv'
  <2>1. /\ flights[r] # "none" /\ UNCHANGED <<runs, final, source>>
        /\ \E next \in Await : flights' = [flights EXCEPT ![r] = next]
    BY <1>2 DEF Settling, Preflight, Probes, Started, Launched, Dropped, CheckPermissions,
                ProbeConnection, StartSettles, LaunchResolves, LaunchRejects, Abandons,
                Settles, Awaits, Await, flowVars
  <2>2. \A q \in final : q # r => flights'[q] = "none"
    BY <1>0, <2>1, Alone DEF HookTypeOK
  <2>3. r \in final => flights'[r] = "none"
    <3>1. r \in final => flights[r] = "launching"
      BY <2>1 DEF FinalInv
    <3> QED BY <1>2, <3>1
            DEF Settling, Preflight, Probes, Started, Launched, Dropped, CheckPermissions,
                ProbeConnection, StartSettles, LaunchResolves, LaunchRejects, Abandons,
                Settles, HookTypeOK
  <2> QED BY <1>0, <2>1, <2>2, <2>3, FinalStands
<1>3. ASSUME NEW r \in Run, SdkTells(r) PROVE FinalInv'
  <2>1. flights[r] = "launching" /\ source = "sumsub" /\ sdk = "open"
        /\ UNCHANGED <<running, runs, flights, final, source, sdk, mounted>>
    BY <1>3 DEF SdkTells, runState, flowVars, world
  <2>2. \A q \in final : flights[q] = "none"
    BY <1>0, <2>1, Alone DEF FinalInv
  <2> QED BY <1>0, <2>1, <2>2, FinalStands
<1>4. ASSUME NEW r \in Run, SdkEnds(r) PROVE FinalInv'
  <2>1. /\ flights[r] = "launching" /\ source' = "sumsub" /\ sdk' # "open"
        /\ final' = final \cup {r}
        /\ UNCHANGED <<runs, flights, mounted>>
    BY <1>4 DEF SdkEnds, world
  <2>2. mounted => Settled'
    <3>1. PICK e \in LastEvent : Reported(e)
      BY <1>4, ResultType DEF SdkEnds, LastEvent
    <3> QED BY <1>0, <3>1, LastEventSettles DEF Reported
  <2>3. r = runs /\ \A q \in final : q # r => flights[q] = "none"
    BY <1>0, <2>1, Alone
  <2> QED BY <1>0, <2>1, <2>2, <2>3 DEF FinalInv
<1>5. ASSUME NEW r \in Run, SdkThrows(r) PROVE FinalInv'
  <2>1. UNCHANGED vars /\ source' = source /\ sdk' # "open"
    BY <1>5 DEF SdkThrows
  <2>2. UNCHANGED <<runs, final, flights, mounted, machine>>
    BY <2>1 DEF vars, runState, world
  <2> QED BY <1>0, <2>1, <2>2, FinalStands DEF Settled
<1>6. ASSUME NEW r \in Run, OtherMake(r) PROVE FinalInv'
  <2>1. flights[r] = "launching" /\ source' = source /\ source = "other" /\ runs' = runs
    BY <1>6 DEF OtherMake, SdkEmits, LaunchResolves, LaunchRejects
  <2>2. r = runs /\ \A q \in Run : q # r => flights[q] = "none"
    BY <2>1, Alone
  <2>3. CASE LaunchResolves(r) \/ LaunchRejects(r)
    <3>1. final' = final /\ \A q \in Run : flights'[q] = "none"
      BY <2>2, <2>3 DEF LaunchResolves, LaunchRejects, Settles, HookTypeOK
    <3> QED BY <1>0, <2>1, <3>1, FinalStands
  <2>4. ASSUME NEW e \in SdkEvent, SdkEmits(r, e) PROVE FinalInv'
    <3>1. /\ r \notin final /\ HandleEvent(e) /\ UNCHANGED <<flights, mounted>>
          /\ final' = IF e \in LastEvent THEN final \cup {r} ELSE final
      BY <2>4 DEF SdkEmits, world
    <3>2. e \in LastEvent => Settled'
      BY <1>0, <3>1, LastEventSettles
    <3> QED BY <1>0, <2>1, <2>2, <3>1, <3>2 DEF FinalInv
  <2> QED BY <1>6, <2>3, <2>4 DEF OtherMake
<1>7. CASE \/ SdkExpires \/ Refreshed \/ OtherAsks \/ OtherLaunches \/ OtherEnds
           \/ StartAnswers \/ Reset \/ \E c \in Caller : RefreshAnswered(c)
  <2>1. UNCHANGED <<vars, source, sdk>>
    BY <1>7 DEF SdkExpires, Refreshed, OtherAsks, OtherLaunches, OtherEnds, StartAnswers,
                Reset, RefreshAnswered, flowVars
  <2>2. UNCHANGED <<runs, final, flights, mounted, machine>>
    BY <2>1 DEF vars, runState, world
  <2> QED BY <1>0, <2>1, <2>2, FinalStands DEF Settled
<1> QED BY <1>1, <1>2, <1>3, <1>4, <1>5, <1>6, <1>7 DEF FlowNext

-----------------------------------------------------------------------------
\* The flow starts within the invariant
LEMMA FlowInitHolds == FlowInit => FlowInv
<1> SUFFICES ASSUME FlowInit PROVE FlowInv
  OBVIOUS
<1>1. HookInv /\ NothingAfterUnmount
  BY InitHolds DEF FlowInit
<1>2. TokensInv
  BY DEF FlowInit, TokensInv
<1>3. SdkInv
  BY DEF FlowInit, SdkInv, SdkState
<1>4. FinalInv
  BY DEF FlowInit, HookInit, FinalInv
<1> QED BY <1>1, <1>2, <1>3, <1>4 DEF FlowInv

\* and keeps to it, part by part
LEMMA FlowInvKeeps == FlowInv /\ [FlowNext]_allVars => FlowInv'
<1>1. ASSUME FlowInv, FlowNext PROVE FlowInv'
  <2>1. HookInv' /\ NothingAfterUnmount'
    BY <1>1, HookKeeps DEF FlowInv, Keeps, NothingAfterUnmount
  <2>2. TokensInv'
    BY <1>1, StepsMoveTokens, TokensKeep DEF FlowInv
  <2>3. SdkInv' /\ FinalInv'
    BY <1>1, SdkKeeps, FinalKeeps DEF FlowInv
  <2> QED BY <2>1, <2>2, <2>3 DEF FlowInv
<1>2. ASSUME FlowInv, UNCHANGED allVars PROVE FlowInv'
  <2>1. HookInv' /\ NothingAfterUnmount'
    BY <1>2, StutterKeeps DEF FlowInv, Keeps, NothingAfterUnmount, allVars
  <2>2. TokensInv'
    BY <1>2 DEF FlowInv, TokensInv, allVars, tokensVars
  <2>3. SdkInv' /\ FinalInv'
    BY <1>2 DEF FlowInv, SdkInv, FinalInv, Settled, allVars, vars, runState, world, flowVars
  <2> QED BY <2>1, <2>2, <2>3 DEF FlowInv
<1> QED BY <1>1, <1>2

\* The invariant the properties rest on: the hook's own, one session of the
\* backend at most, the flag that tells of an SDK on screen, and the launches
\* whose last event has settled the machine.
THEOREM FlowInvHolds == FlowSpec => []FlowInv
  BY FlowInitHolds, FlowInvKeeps, PTL DEF FlowSpec

\* Every variable keeps its type, and no start is awaited that is not under way.
THEOREM FlowTypesHold == FlowSpec => []FlowTypeOK
<1>1. FlowInv => FlowTypeOK
  <2>1. TokensInv => opened \in Nat
    BY DEF TokensInv
  <2> QED BY <2>1 DEF FlowInv, HookInv, TokensInv, SdkInv, FlowTypeOK
<1> QED BY <1>1, FlowInvHolds, PTL

\* Whoever asks for a token, the backend is asked for one session until a reset
\* or a failure (createSessionTokenProvider).
THEOREM OneSession == FlowSpec => []OneSessionPerAttempt
<1>1. FlowInv => OneSessionPerAttempt
  BY DEF FlowInv, TokensInv, OneSessionPerAttempt
<1> QED BY <1>1, FlowInvHolds, PTL

\* Two components share a source and put one SDK on screen between them
\* (the launching flag of createSumsubNativeSource).
THEOREM OneSdk == FlowSpec => []OneSdkOnScreen
<1>1. FlowInv => OneSdkOnScreen
  BY DEF FlowInv, SdkInv, OneSdkOnScreen
<1> QED BY <1>1, FlowInvHolds, PTL

\* What launch settles with after the SDK's last event is not told again
\* (runLaunch).
THEOREM SettlementIsAdvisory == FlowSpec => AdvisorySettlement
<1> DEFINE Told == \A r \in final :
                     flights[r] = "launching" /\ flights'[r] = "none" =>
                       heard' = "none" /\ timers' = timers
<1>1. ASSUME FlowInv, FlowNext PROVE Told
  <2> SUFFICES ASSUME NEW r \in final, flights[r] = "launching", flights'[r] = "none"
               PROVE  heard' = "none" /\ timers' = timers
    OBVIOUS
  <2>1. r \in Run /\ running /\ r = runs /\ \A q \in Run \ {r} : flights[q] = "none"
    BY <1>1, Alone DEF FlowInv, HookInv, HookTypeOK
  <2>2. mounted => Settled
    BY <1>1 DEF FlowInv, FinalInv
  <2>3. \A q \in Run : LaunchResolves(q) \/ LaunchRejects(q) \/ Abandons(q) =>
          heard' = "none" /\ timers' = timers
    <3>1. ASSUME NEW q \in Run, LaunchResolves(q) PROVE heard' = "none" /\ timers' = timers
      BY <2>2, <3>1 DEF LaunchResolves, Quiet, timerState
    <3>2. ASSUME NEW q \in Run, LaunchRejects(q) PROVE heard' = "none" /\ timers' = timers
      BY <2>2, <3>2 DEF LaunchRejects, Quiet, timerState
    <3>3. ASSUME NEW q \in Run, Abandons(q) PROVE heard' = "none" /\ timers' = timers
      BY <3>3 DEF Abandons, Quiet, timerState
    <3> QED BY <3>1, <3>2, <3>3
  <2>4. ~Hook
    <3>1. ASSUME Start \/ Restart PROVE FALSE
      BY <2>1, <3>1 DEF Start, Restart, Begin, MayBegin
    <3>2. ASSUME Cancel \/ Unmount \/ Render \/ \E t \in timers : TimerFires(t) PROVE FALSE
      BY <3>2 DEF Cancel, Unmount, Render, TimerFires, runState
    <3> QED BY <3>1, <3>2 DEF Hook
  <2>5. ASSUME NEW q \in Run, Settling(q) PROVE heard' = "none" /\ timers' = timers
    <3>1. ASSUME Preflight(q) \/ Probes(q) \/ Started(q) PROVE FALSE
      <4>1. flights[q] \in {"checking", "probing", "starting"}
        BY <3>1 DEF Preflight, Probes, Started, CheckPermissions, ProbeConnection, StartSettles
      <4> QED BY <2>1, <4>1
    <3> QED BY <2>3, <2>5, <3>1 DEF Settling, Launched, Dropped
  <2>6. ASSUME NEW q \in Run, SdkTells(q) \/ SdkEnds(q) \/ SdkThrows(q) PROVE FALSE
    <3>1. flights' = flights
      BY <2>6 DEF SdkTells, SdkEnds, SdkThrows, vars, runState
    <3> QED BY <3>1
  <2>7. ASSUME NEW q \in Run, OtherMake(q) PROVE heard' = "none" /\ timers' = timers
    <3>1. ASSUME NEW e \in SdkEvent, SdkEmits(q, e) PROVE FALSE
      BY <3>1 DEF SdkEmits
    <3> QED BY <2>3, <2>7, <3>1 DEF OtherMake
  <2>8. ~(\/ SdkExpires \/ Refreshed \/ OtherAsks \/ OtherLaunches \/ OtherEnds
          \/ StartAnswers \/ Reset \/ \E c \in Caller : RefreshAnswered(c))
    BY DEF SdkExpires, Refreshed, OtherAsks, OtherLaunches, OtherEnds, StartAnswers, Reset,
           RefreshAnswered, vars, runState
  <2> QED BY <1>1, <2>4, <2>5, <2>6, <2>7, <2>8 DEF FlowNext
<1>2. FlowInv /\ [FlowNext]_allVars => [Told]_vars
  BY <1>1 DEF allVars
<1> QED BY <1>2, FlowInvHolds, PTL DEF FlowSpec, AdvisorySettlement

\* However the SDK, the second component and the token provider interleave with
\* the hook, a session the machine comes to hold is the newest run's (runningRef).
THEOREM NewestWinsInFlow == FlowSpec => NewestSessionWins
<1>1. FlowInv /\ [FlowNext]_allVars => [machine'.session \in {0, machine.session, runs}]_vars
  BY HookKeeps DEF FlowInv, Keeps, allVars
<1> QED BY <1>1, FlowInvHolds, PTL DEF FlowSpec, NewestSessionWins

\* An SDK that outlives its component, and whatever is still awaited then, tells
\* the host nothing (mountedRef).
THEOREM UnmountedFlowIsSilent == FlowSpec => []NothingAfterUnmount
<1>1. FlowInv => NothingAfterUnmount
  BY DEF FlowInv
<1> QED BY <1>1, FlowInvHolds, PTL

-----------------------------------------------------------------------------
(***************************************************************************)
(* The screens that offer nothing.  They stand for a machine that waits,   *)
(* and a machine waits only for a run: runningRef is up while one stands   *)
(* at an await, and a launch that is awaited has come to something.        *)
(***************************************************************************)
Waiting == {"loading", "verifying", "pending", "success"}

WayInv ==
  /\ running => runs \in Run /\ flights[runs] # "none"
  /\ \A r \in Run : flights[r] = "launching" => sdk # "none"
  /\ mounted /\ machine.status \in Waiting /\ machine.result = "none" => running

\* A step that leaves runs at their awaits
LEMMA WayStands ==
  ASSUME WayInv, UNCHANGED <<running, runs, flights>>, sdk = sdk' \/ sdk' # "none",
         \/ running
         \/ ~mounted'
         \/ mounted /\ machine' = machine
         \/ machine'.status \notin Waiting
  PROVE  WayInv'
  BY DEF WayInv

\* The run under way settles: the machine has stopped waiting by then
LEMMA WaySettles ==
  ASSUME HookInv, NEW r \in Run, flights[r] # "none", Settles(r),
         \/ ~mounted'
         \/ machine'.status \notin Waiting
         \/ machine'.result # "none"
  PROVE  WayInv'
<1>1. \A q \in Run : flights'[q] = "none"
  BY Alone DEF HookInv, HookTypeOK, Settles
<1> QED BY <1>1 DEF WayInv, Settles

\* What launch settles with: the flow is settled, or is settled now
LEMMA LaunchEnds ==
  ASSUME HookInv, NEW r \in Run, LaunchResolves(r) \/ LaunchRejects(r)
  PROVE  WayInv'
<1>1. flights[r] # "none" /\ Settles(r) /\ machine \in Machine
  BY DEF LaunchResolves, LaunchRejects, HookInv, HookTypeOK
<1>2. CASE machine' = machine /\ Settled
  <2>1. machine'.status \notin Waiting \/ machine'.result # "none"
    BY <1>2 DEF Settled, Waiting
  <2> QED BY <1>1, <2>1, WaySettles
<1>3. ASSUME NEW e \in {"approved", "rejected"}, HandleEvent(e) PROVE WayInv'
  <2>1. machine' = Outcome(machine, e)
    BY <1>3 DEF HandleEvent, PlannedAction
  <2>2. machine'.result # "none"
    BY <1>1, <2>1 DEF Outcome, Machine
  <2> QED BY <1>1, <2>2, WaySettles
<1>4. CASE FailWith("other", FALSE)
  <2>1. machine'.status \notin Waiting
    BY <1>4 DEF FailWith, Failed, Idle, Waiting
  <2> QED BY <1>1, <2>1, WaySettles
<1> QED BY <1>2, <1>3, <1>4 DEF LaunchResolves, LaunchRejects, Quiet

LEMMA WayKeeps == ASSUME HookInv, SdkInv, WayInv, FlowNext PROVE WayInv'
<1>t. machine \in Machine /\ OneRun /\ flights \in [Run -> Await] /\ runs \in 0 .. MaxRuns
  BY DEF HookInv, HookTypeOK, Await
<1>1. CASE Hook
  <2>0. sdk' = sdk
    BY <1>1 DEF Hook, flowVars
  <2>1. CASE Start \/ Restart
    <3>1. /\ ~running /\ runs < MaxRuns /\ runs' = runs + 1 /\ running' = TRUE
          /\ \E first \in {"checking", "probing"} : flights' = [flights EXCEPT ![runs + 1] = first]
      BY <2>1, NativeAssumption DEF Start, Restart, Begin, MayBegin
    <3>2. runs + 1 \in Run /\ \A r \in Run : flights[r] = "none"
      BY <1>t, <3>1, Constants DEF OneRun, Run
    <3> QED BY <1>t, <3>1, <3>2 DEF WayInv
  <2>2. CASE Cancel
    <3>1. machine'.status \notin Waiting /\ UNCHANGED <<running, runs, flights>>
      BY <2>2 DEF Cancel, Idle, Waiting, runState
    <3> QED BY <2>0, <3>1, WayStands
  <2>3. CASE Unmount \/ Render \/ \E t \in timers : TimerFires(t)
    <3>1. /\ UNCHANGED <<running, runs, flights>>
          /\ ~mounted' \/ (mounted' = mounted /\ machine' = machine)
      BY <2>3 DEF Unmount, Render, TimerFires, Quiet, runState, world
    <3> QED BY <2>0, <3>1 DEF WayInv
  <2> QED BY <1>1, <2>1, <2>2, <2>3 DEF Hook
<1>2. ASSUME NEW r \in Run, Preflight(r) \/ Probes(r) PROVE WayInv'
  <2>1. /\ flights[r] \in {"checking", "probing"} /\ UNCHANGED <<runs, sdk>>
        /\ \/ Awaits(r, "probing") \/ Awaits(r, "starting")
           \/ Settles(r) /\ machine'.status \notin Waiting
    BY <1>t, <1>2 DEF Preflight, Probes, CheckPermissions, ProbeConnection, FailWith, Failed, Idle,
                      Refused, Offline, Waiting, Machine, flowVars
  <2>2. running /\ r = runs /\ \A q \in Run \ {r} : flights[q] = "none"
    BY <1>t, <2>1, Alone
  <2>3. CASE Awaits(r, "probing") \/ Awaits(r, "starting")
    BY <1>t, <2>1, <2>2, <2>3 DEF Awaits, WayInv
  <2> QED BY <2>1, <2>3, WaySettles
<1>3. ASSUME NEW r \in Run, Started(r) PROVE WayInv'
  <2>1. /\ flights[r] = "starting" /\ runs' = runs
        /\ \/ Awaits(r, "launching")
           \/ Settles(r) /\ machine'.status \notin Waiting
    BY <1>3, NativeAssumption DEF Started, StartSettles, FailWith, Failed, Idle, Waiting
  <2>2. running /\ r = runs /\ \A q \in Run \ {r} : flights[q] = "none"
    BY <1>t, <2>1, Alone
  <2>3. CASE Awaits(r, "launching")
    <3>1. /\ flights'[r] = "launching" /\ running' = running
          /\ \A q \in Run \ {r} : flights'[q] = "none"
      BY <1>t, <2>2, <2>3 DEF Awaits
    <3>2. sdk' # "none"
      BY <1>3, <3>1 DEF Started, Launch
    <3> QED BY <2>1, <2>2, <3>1, <3>2 DEF WayInv
  <2> QED BY <2>1, <2>3, WaySettles
<1>4. ASSUME NEW r \in Run, Launched(r) PROVE WayInv'
  BY <1>4, LaunchEnds DEF Launched
<1>5. ASSUME NEW r \in Run, Dropped(r) PROVE WayInv'
  <2>1. flights[r] # "none" /\ Settles(r) /\ ~mounted'
    BY <1>5 DEF Dropped, Abandons, world
  <2> QED BY <2>1, WaySettles
<1>6. ASSUME NEW r \in Run, SdkTells(r) \/ SdkEnds(r) \/ SdkThrows(r) PROVE WayInv'
  <2>1. /\ flights[r] = "launching" /\ UNCHANGED <<running, runs, flights>>
        /\ sdk' = sdk \/ sdk' # "none"
    BY <1>6 DEF SdkTells, SdkEnds, SdkThrows, flowVars, vars, runState
  <2>2. running
    BY <1>t, <2>1, Alone
  <2> QED BY <2>1, <2>2, WayStands
<1>7. ASSUME NEW r \in Run, OtherMake(r) PROVE WayInv'
  <2>1. ASSUME NEW e \in SdkEvent, SdkEmits(r, e), sdk' = sdk PROVE WayInv'
    <3>1. flights[r] = "launching" /\ UNCHANGED <<running, runs, flights>>
      BY <2>1 DEF SdkEmits
    <3>2. running
      BY <1>t, <3>1, Alone
    <3> QED BY <2>1, <3>1, <3>2, WayStands
  <2> QED BY <1>7, <2>1, LaunchEnds DEF OtherMake
<1>8. CASE \/ SdkExpires \/ Refreshed \/ OtherAsks \/ OtherLaunches \/ OtherEnds
           \/ StartAnswers \/ Reset \/ \E c \in Caller : RefreshAnswered(c)
  BY <1>8 DEF SdkExpires, Refreshed, OtherAsks, OtherLaunches, OtherEnds, StartAnswers, Reset,
              RefreshAnswered, WayInv, vars, runState, world, flowVars
<1> QED BY <1>1, <1>2, <1>3, <1>4, <1>5, <1>6, <1>7, <1>8 DEF FlowNext, Settling

LEMMA WayInitHolds == FlowInit => WayInv
  BY DEF FlowInit, HookInit, WayInv, Idle, Waiting

LEMMA WayStutters == WayInv /\ UNCHANGED allVars => WayInv'
  BY DEF WayInv, allVars, vars, runState, world, flowVars

\* A screen that offers nothing shows a machine that waits, or a run in the way
\* of its button
LEMMA NoButtonWaits ==
  ASSUME HookInv, Works = {}
  PROVE  running \/ view.status \in Waiting
<1> SUFFICES ASSUME ~running PROVE view.status \in Waiting
  OBVIOUS
<1>1. view \in Machine /\ view.status \in State
  BY DEF HookInv, HookTypeOK, Machine
<1>2. Works = Buttons
  BY DEF Works
<1>3. Buttons = NativeButtons
  BY NativeAssumption DEF Buttons
<1>4. view.status # "permissionDenied"
  <2>1. PermissionButtons # {}
    BY DEF PermissionButtons
  <2> QED BY <1>2, <1>3, <2>1 DEF NativeButtons
<1>5. WebButtons = {}
  BY <1>2, <1>3, <1>4 DEF NativeButtons
<1>6. view.status \notin {"idle", "offline", "error"}
  BY <1>5 DEF WebButtons, ErrorButtons
<1> QED BY <1>1, <1>4, <1>6 DEF State, Waiting

\* The safety half of NoDeadScreen: whatever the SDK, its promise and the second
\* component do, a screen without a button that works will change by itself or
\* shows the outcome (begin, runLaunch, IdentityVerification).
THEOREM NoScreenIsStuck == FlowSpec => []ScreenHasAWayOn
<1>1. FlowInv /\ WayInv /\ [FlowNext]_allVars => WayInv'
  BY WayKeeps, WayStutters DEF FlowInv
<1>2. FlowInv /\ WayInv => ScreenHasAWayOn
  <2> SUFFICES ASSUME FlowInv, WayInv, mounted, Works = {}, sdk # "open",
                      view = machine, view.result = "none"
               PROVE  \E r \in Run : ComesBack(r)
    BY DEF ScreenHasAWayOn
  <2>1. running
    BY NoButtonWaits DEF FlowInv, WayInv
  <2>2. runs \in Run /\ flights[runs] # "none"
    BY <2>1 DEF WayInv
  <2>3. flights[runs] = "launching" => sdk \in Over
    BY <2>2 DEF WayInv, FlowInv, SdkInv, SdkState, Over
  <2> QED BY <2>2, <2>3 DEF ComesBack
<1> QED BY <1>1, <1>2, WayInitHolds, FlowInvHolds, PTL DEF FlowSpec
=============================================================================
