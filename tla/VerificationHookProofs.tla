------------------------ MODULE VerificationHookProofs ------------------------
(***************************************************************************)
(* Theorems about VerificationHook, for every kind of hook, source and     *)
(* host, and every number of runs, timers and refreshes.                   *)
(***************************************************************************)
EXTENDS VerificationHook, TLAPS

Heard == {"none", "status", "complete", "cancel", "error"}
Await == {"none", "checking", "probing", "starting", "launching"}
Event == PageEvent \cup SdkEvent

\* The constants, one by one
LEMMA Constants ==
  /\ {Native, Launches, Refreshes, Headless, Settings} \subseteq BOOLEAN
  /\ MaxRuns \in Nat /\ MaxTimers \in Nat /\ MaxRefreshes \in Nat
  BY HookAssumption

-----------------------------------------------------------------------------
(* The reducer *)

\* It makes a machine of a machine, in the session it was in or in none
LEMMA ReducerType ==
  ASSUME NEW m \in Machine
  PROVE  /\ Idle \in Machine /\ Idle.session = 0
         /\ Began(m) \in Machine /\ Began(m).session = m.session
         /\ Offline(m) \in Machine /\ Offline(m).session = m.session
         /\ Applicant(m) \in Machine /\ Applicant(m).session = m.session
         /\ AwaitReview(m) \in Machine /\ AwaitReview(m).session = m.session
         /\ ClearSession(m) \in Machine /\ ClearSession(m).session = 0
         /\ \A why \in {"none", "denied", "blocked"} :
              Refused(m, why) \in Machine /\ Refused(m, why).session = m.session
         /\ \A res \in {"approved", "rejected"} :
              Outcome(m, res) \in Machine /\ Outcome(m, res).session = m.session
         /\ \A err \in {"restartable", "other"}, keep \in BOOLEAN :
              /\ Failed(m, err, keep) \in Machine
              /\ Failed(m, err, keep).session \in {0, m.session}
<1>1. 0 \in 0 .. MaxRuns
  BY Constants
<1>2. Idle \in Machine /\ Idle.session = 0
  BY <1>1 DEF Machine, State, Idle
<1>3. /\ Began(m) \in Machine /\ Began(m).session = m.session
      /\ Offline(m) \in Machine /\ Offline(m).session = m.session
      /\ AwaitReview(m) \in Machine /\ AwaitReview(m).session = m.session
  BY DEF Machine, State, Began, Offline, AwaitReview
<1>4. Applicant(m) \in Machine /\ Applicant(m).session = m.session
  BY DEF Machine, Applicant
<1>5. ClearSession(m) \in Machine /\ ClearSession(m).session = 0
  BY <1>1 DEF Machine, ClearSession
<1>6. ASSUME NEW why \in {"none", "denied", "blocked"}
      PROVE  Refused(m, why) \in Machine /\ Refused(m, why).session = m.session
  BY DEF Machine, State, Refused
<1>7. ASSUME NEW res \in {"approved", "rejected"}
      PROVE  Outcome(m, res) \in Machine /\ Outcome(m, res).session = m.session
  BY DEF Machine, State, Outcome
<1>8. ASSUME NEW err \in {"restartable", "other"}, NEW keep \in BOOLEAN
      PROVE  /\ Failed(m, err, keep) \in Machine
             /\ Failed(m, err, keep).session \in {0, m.session}
  BY <1>1 DEF Machine, State, Failed, Idle
<1> QED BY <1>2, <1>3, <1>4, <1>5, <1>6, <1>7, <1>8

\* Only a run's start brings a session in
LEMMA SessionType ==
  ASSUME NEW r \in Run
  PROVE  InSession(r) \in Machine /\ InSession(r).session = r
<1>1. 0 \in 0 .. MaxRuns /\ r \in 0 .. MaxRuns
  BY Constants DEF Run
<1> QED BY <1>1 DEF Machine, State, InSession, Idle

\* An event plans a machine and a callback
LEMMA PlanType ==
  ASSUME machine \in Machine, NEW e \in Event
  PROVE  /\ PlannedAction(e) \in Machine
         /\ PlannedAction(e).session \in {0, machine.session}
         /\ PlannedCallback(e) \in Heard
<1>1. PlannedCallback(e) \in Heard
  BY DEF PlannedCallback, Heard
<1>2. \/ PlannedAction(e) \in {Applicant(machine), AwaitReview(machine), machine, Idle,
                                 Refused(machine, "none")}
      \/ \E res \in {"approved", "rejected"} : PlannedAction(e) = Outcome(machine, res)
      \/ \E err \in {"restartable", "other"}, keep \in BOOLEAN :
            PlannedAction(e) = Failed(machine, err, keep)
  BY DEF PlannedAction
<1>3. CASE PlannedAction(e) \in {Applicant(machine), AwaitReview(machine), machine, Idle,
                                 Refused(machine, "none")}
  BY <1>1, <1>3, ReducerType
<1>4. CASE \E res \in {"approved", "rejected"} : PlannedAction(e) = Outcome(machine, res)
  BY <1>1, <1>4, ReducerType
<1>5. CASE \E err \in {"restartable", "other"}, keep \in BOOLEAN :
             PlannedAction(e) = Failed(machine, err, keep)
  BY <1>1, <1>5, ReducerType
<1> QED BY <1>2, <1>3, <1>4, <1>5

-----------------------------------------------------------------------------
(* Timers and token refreshes *)

\* Aging, clearing and scheduling keep timers timers
LEMMA AgedType ==
  ASSUME NEW T \in SUBSET Timer
  PROVE  Aged(T) \subseteq Timer
<1>1. ASSUME NEW t \in Timer PROVE [t EXCEPT !.late = TRUE] \in Timer
  BY DEF Timer
<1> QED BY <1>1 DEF Aged

LEMMA ClearType ==
  ASSUME HookTypeOK, ClearCompleteTimeout
  PROVE  timers' \subseteq Timer /\ timerRef' \in 0 .. MaxTimers
<1>1. {t \in timers : t.id # timerRef} \in SUBSET Timer
  BY DEF HookTypeOK
<1> QED BY <1>1, AgedType, Constants DEF ClearCompleteTimeout

LEMMA ScheduleType ==
  ASSUME HookTypeOK, Schedule
  PROVE  timers' \subseteq Timer /\ timerRef' \in 0 .. MaxTimers
<1>1. PICK k \in 1 .. MaxTimers :
        timers' = timers \cup {[id |-> k, late |-> FALSE]} /\ timerRef' = k
  BY DEF Schedule
<1>2. [id |-> k, late |-> FALSE] \in Timer /\ k \in 0 .. MaxTimers
  BY Constants DEF Timer
<1> QED BY <1>1, <1>2 DEF HookTypeOK

\* So does asking for a token of the machine, and of the refreshes
LEMMA AsksType ==
  ASSUME HookTypeOK, AsksForToken
  PROVE  /\ machine' \in Machine /\ machine'.session \in {0, machine.session}
         /\ heard' \in Heard
         /\ refreshes' \subseteq Refresh /\ seq' \in 0 .. MaxRefreshes
<1>1. CASE UNCHANGED <<refreshes, seq>> /\ FailWith("restartable", TRUE)
  BY <1>1, ReducerType DEF HookTypeOK, FailWith, Heard
<1>2. CASE /\ seq < MaxRefreshes /\ seq' = seq + 1 /\ Quiet
           /\ refreshes' = refreshes \cup {[seq |-> seq + 1, session |-> machine.session]}
  <2>1. seq + 1 \in 0 .. MaxRefreshes /\ machine.session \in 0 .. MaxRuns
    BY <1>2, Constants DEF HookTypeOK, Machine
  <2> QED BY <1>2, <2>1 DEF HookTypeOK, Quiet, Heard, Refresh
<1> QED BY <1>1, <1>2 DEF AsksForToken

\* What handleEvent leaves behind
LEMMA HandleType ==
  ASSUME HookTypeOK, NEW e \in Event, HandleEvent(e)
  PROVE  /\ machine' \in Machine /\ machine'.session \in {0, machine.session}
         /\ heard' \in Heard
         /\ timers' \subseteq Timer /\ timerRef' \in 0 .. MaxTimers
         /\ refreshes' \subseteq Refresh /\ seq' \in 0 .. MaxRefreshes /\ token' = token
<1>1. CASE e = "tokenExpired"
  BY <1>1, AsksType DEF HandleEvent, HookTypeOK, timerState
<1>2. CASE e # "tokenExpired"
  <2>1. machine' = PlannedAction(e) /\ heard' = PlannedCallback(e)
    BY <1>2 DEF HandleEvent
  <2>2. UNCHANGED <<refreshes, seq, token>>
    BY <1>2 DEF HandleEvent
  <2>3. \/ Schedule
        \/ timers' = Aged(timers) /\ UNCHANGED timerRef
        \/ UNCHANGED timerState
    BY <1>2 DEF HandleEvent
  <2>4. timers' \subseteq Timer /\ timerRef' \in 0 .. MaxTimers
    BY <2>3, ScheduleType, AgedType DEF HookTypeOK, timerState
  <2>5. machine \in Machine
    BY DEF HookTypeOK
  <2> QED BY <2>1, <2>2, <2>4, <2>5, PlanType DEF HookTypeOK
<1> QED BY <1>1, <1>2

-----------------------------------------------------------------------------
(* One run at a time, and one newest refresh *)

\* runningRef is held by the newest run alone
OneRun == \A r \in Run : flights[r] # "none" => running /\ r = runs

\* No two refreshes share a number, and the newest may post only if it has not
NewestMayPost ==
  /\ token.seq <= seq
  /\ \A q \in refreshes : q.seq <= seq /\ (q.seq = seq => token.seq < seq)
  /\ \A p, q \in refreshes : p.seq = q.seq => p = q

HookInv == HookTypeOK /\ OneRun /\ NewestMayPost

\* What the steps of the machine, the timers and the refreshes leave alone
RunsStand == UNCHANGED <<running, runs, flights>>
RefreshesStand == UNCHANGED tokenState

\* Where no run moves one is still under way at most, and so for the refreshes
LEMMA RunsStandKeeps == OneRun /\ RunsStand => OneRun'
  BY DEF OneRun, RunsStand

LEMMA RefreshesStandKeeps == NewestMayPost /\ RefreshesStand => NewestMayPost'
  BY DEF NewestMayPost, RefreshesStand, tokenState

\* A run that begins is the newest, and was alone to begin
LEMMA BeginType ==
  ASSUME HookTypeOK, OneRun, NEW m \in Machine, Begin(m)
  PROVE  /\ HookTypeOK' /\ OneRun' /\ RefreshesStand
         /\ machine'.session = m.session
         /\ heard' = "none"
<1>1. /\ ~running /\ runs + 1 \in Run /\ runs' = runs + 1
      /\ heard' = "none" /\ UNCHANGED <<final, tokenState, world>>
  BY Constants DEF Begin, MayBegin, HookTypeOK, Run
<1>2. timers' \subseteq Timer /\ timerRef' \in 0 .. MaxTimers
  BY ClearType DEF Begin
<1>3. Began(m) \in Machine /\ Began(m).session = m.session
  BY ReducerType
<1>4. machine' \in Machine /\ machine'.session = m.session
  BY <1>3, ReducerType DEF Begin
<1>5. view' \in Machine
  BY <1>4 DEF Begin, Commits, HookTypeOK
<1>6. \/ running' = TRUE /\ \E first \in {"checking", "probing", "starting"} :
                              flights' = [flights EXCEPT ![runs + 1] = first]
      \/ UNCHANGED <<running, flights>>
  BY DEF Begin
<1>7. \A r \in Run : flights[r] = "none"
  BY <1>1 DEF OneRun, HookTypeOK
<1>8. /\ running' \in BOOLEAN /\ flights' \in [Run -> Await]
      /\ \A r \in Run : flights'[r] # "none" => running' /\ r = runs + 1
  BY <1>1, <1>6, <1>7 DEF HookTypeOK, Await
<1>9. runs' \in 0 .. MaxRuns
  BY <1>1, Constants DEF Run
<1>10. OneRun'
  BY <1>1, <1>8 DEF OneRun
<1>11. HookTypeOK'
  BY <1>1, <1>2, <1>4, <1>5, <1>8, <1>9 DEF HookTypeOK, Await, tokenState, world
<1> QED BY <1>1, <1>4, <1>10, <1>11 DEF RefreshesStand

\* An await that comes back ends its run or goes on to the next one
LEMMA AwaitType ==
  ASSUME HookTypeOK, OneRun, NEW r \in Run, NEW next \in Await,
         flights[r] # "none", UNCHANGED runs, Settles(r) \/ Awaits(r, next)
  PROVE  /\ running' \in BOOLEAN /\ runs' \in 0 .. MaxRuns
         /\ flights' \in [Run -> Await] /\ OneRun'
<1>1. running /\ r = runs /\ \A q \in Run : q # r => flights[q] = "none"
  BY DEF OneRun
<1>2. /\ running' \in BOOLEAN /\ runs' \in 0 .. MaxRuns
      /\ flights' \in [Run -> Await]
  BY DEF HookTypeOK, Settles, Awaits, Await
<1>3. ASSUME NEW q \in Run, flights'[q] # "none"
      PROVE  running' /\ q = runs'
  BY <1>1, <1>3 DEF HookTypeOK, Settles, Awaits
<1> QED BY <1>2, <1>3 DEF OneRun

-----------------------------------------------------------------------------
(* The actions, one by one *)

\* What the theorems below ask of a step
Keeps ==
  /\ HookInv'
  /\ machine'.session \in {0, machine.session, runs}
  /\ token' # token => token'.seq > token.seq /\ token'.session = machine.session
  /\ ~mounted' => heard' = "none" \/ (Headless /\ heard' = "cancel")

\* Start and Restart
LEMMA BeginKeeps == ASSUME HookInv, Start \/ Restart PROVE Keeps
<1>1. machine \in Machine /\ ClearSession(machine) \in Machine
      /\ ClearSession(machine).session = 0
  BY ReducerType DEF HookInv, HookTypeOK
<1>2. PICK m \in {machine, ClearSession(machine)} : Begin(m)
  BY DEF Start, Restart
<1>3. /\ HookTypeOK' /\ OneRun' /\ RefreshesStand /\ machine'.session = m.session
      /\ heard' = "none"
  BY <1>1, <1>2, BeginType DEF HookInv
<1> QED BY <1>1, <1>3, RefreshesStandKeeps DEF Keeps, HookInv, RefreshesStand, tokenState

\* An await that comes back, whatever the machine makes of it
LEMMA FlightKeeps ==
  ASSUME HookInv, NEW r \in Run, flights[r] # "none", NEW next \in Await,
         Settles(r) \/ Awaits(r, next),
         machine' \in Machine, machine'.session \in {0, machine.session, runs},
         heard' \in Heard, mounted \/ heard' = "none",
         timers' \subseteq Timer, timerRef' \in 0 .. MaxTimers,
         UNCHANGED <<view, runs, final, tokenState, world>>
  PROVE  Keeps
<1>1. /\ running' \in BOOLEAN /\ runs' \in 0 .. MaxRuns
      /\ flights' \in [Run -> Await] /\ OneRun'
  BY AwaitType DEF HookInv
<1>2. HookTypeOK'
  BY <1>1 DEF HookInv, HookTypeOK, Await, Heard, tokenState, world
<1> QED BY <1>1, <1>2, RefreshesStandKeeps
        DEF Keeps, HookInv, RefreshesStand, tokenState, world

\* A run that fails, and one that goes on
LEMMA FailType ==
  ASSUME HookTypeOK, NEW err \in {"restartable", "other"}, NEW keep \in BOOLEAN,
         FailWith(err, keep)
  PROVE  machine' \in Machine /\ machine'.session \in {0, machine.session} /\ heard' \in Heard
<1>1. machine \in Machine
  BY DEF HookTypeOK
<1> QED BY <1>1, ReducerType DEF FailWith, Heard

\* A step the host does not hear of and the machine does not either
LEMMA QuietType ==
  ASSUME HookTypeOK, Quiet
  PROVE  machine' \in Machine /\ machine'.session = machine.session /\ heard' = "none"
  BY DEF HookTypeOK, Quiet

\* The awaits of begin, from the preflight on
LEMMA CheckPermissionsKeeps ==
  ASSUME HookInv, NEW r \in Run, CheckPermissions(r) PROVE Keeps
<1>1. HookTypeOK /\ flights[r] # "none" /\ mounted
      /\ UNCHANGED <<view, runs, final, timers, timerRef, tokenState, world>>
  BY DEF HookInv, CheckPermissions, timerState
<1>2. /\ Settles(r) \/ Awaits(r, "probing")
      /\ \/ Quiet \/ FailWith("other", FALSE)
         \/ /\ \E why \in {"denied", "blocked"} : machine' = Refused(machine, why)
            /\ heard' = "none"
  BY DEF CheckPermissions
<1>3. machine' \in Machine /\ machine'.session \in {0, machine.session} /\ heard' \in Heard
  <2>1. machine \in Machine
    BY <1>1 DEF HookTypeOK
  <2>2. ASSUME NEW why \in {"denied", "blocked"},
               machine' = Refused(machine, why), heard' = "none"
        PROVE  /\ machine' \in Machine /\ machine'.session \in {0, machine.session}
               /\ heard' \in Heard
    BY <2>1, <2>2, ReducerType DEF Heard
  <2> QED BY <1>1, <1>2, <2>2, FailType, QuietType DEF Heard
<1>4. timers' \subseteq Timer /\ timerRef' \in 0 .. MaxTimers /\ "probing" \in Await
  BY <1>1 DEF HookTypeOK, Await
<1> QED BY <1>1, <1>2, <1>3, <1>4, FlightKeeps

LEMMA ProbeConnectionKeeps ==
  ASSUME HookInv, NEW r \in Run, ProbeConnection(r) PROVE Keeps
<1>1. HookTypeOK /\ flights[r] # "none" /\ mounted
      /\ UNCHANGED <<view, runs, final, timers, timerRef, tokenState, world>>
  BY DEF HookInv, ProbeConnection, timerState
<1>2. /\ Settles(r) \/ Awaits(r, "starting")
      /\ \/ Quiet \/ FailWith("other", FALSE)
         \/ machine' = Offline(machine) /\ heard' = "none"
  BY DEF ProbeConnection
<1>3. machine' \in Machine /\ machine'.session \in {0, machine.session} /\ heard' \in Heard
  BY <1>1, <1>2, FailType, QuietType, ReducerType DEF HookTypeOK, Heard
<1>4. timers' \subseteq Timer /\ timerRef' \in 0 .. MaxTimers /\ "starting" \in Await
  BY <1>1 DEF HookTypeOK, Await
<1> QED BY <1>1, <1>2, <1>3, <1>4, FlightKeeps

\* The session it brings in is the newest run's: no other can be under way
LEMMA StartSettlesKeeps ==
  ASSUME HookInv, NEW r \in Run, StartSettles(r) PROVE Keeps
<1>1. HookTypeOK /\ flights[r] # "none" /\ mounted
      /\ UNCHANGED <<view, runs, final, timers, timerRef, tokenState, world>>
  BY DEF HookInv, StartSettles, timerState
<1>2. /\ Settles(r) \/ Awaits(r, "launching")
      /\ \/ FailWith("other", FALSE)
         \/ machine' = InSession(r) /\ heard' = "none"
  BY DEF StartSettles
<1>3. r = runs
  BY <1>1 DEF HookInv, OneRun
<1>4. machine' \in Machine /\ machine'.session \in {0, machine.session, runs} /\ heard' \in Heard
  BY <1>1, <1>2, <1>3, FailType, SessionType DEF Heard
<1>5. timers' \subseteq Timer /\ timerRef' \in 0 .. MaxTimers /\ "launching" \in Await
  BY <1>1 DEF HookTypeOK, Await
<1> QED BY <1>1, <1>2, <1>4, <1>5, FlightKeeps

\* The awaits of runLaunch, and any await the unmount overtook
LEMMA LaunchResolvesKeeps ==
  ASSUME HookInv, NEW r \in Run, LaunchResolves(r) PROVE Keeps
<1>1. HookTypeOK /\ flights[r] # "none" /\ mounted /\ Settles(r)
      /\ UNCHANGED <<view, runs, final, world>>
  BY DEF HookInv, LaunchResolves
<1>2. \/ Quiet /\ UNCHANGED <<timerState, tokenState>>
      \/ \E e \in {"approved", "rejected"} : HandleEvent(e)
  BY DEF LaunchResolves
<1>3. CASE Quiet /\ UNCHANGED <<timerState, tokenState>>
  BY <1>1, <1>3, QuietType, FlightKeeps DEF HookTypeOK, Heard, Await, timerState
<1>4. ASSUME NEW e \in {"approved", "rejected"}, HandleEvent(e) PROVE Keeps
  <2>1. e \in Event
    BY DEF Event, PageEvent
  <2>2. UNCHANGED tokenState
    BY <1>4 DEF HandleEvent, tokenState
  <2> QED BY <1>1, <1>4, <2>1, <2>2, HandleType, FlightKeeps DEF Await
<1> QED BY <1>2, <1>3, <1>4

LEMMA LaunchRejectsKeeps ==
  ASSUME HookInv, NEW r \in Run, LaunchRejects(r) PROVE Keeps
<1>1. HookTypeOK /\ flights[r] # "none" /\ mounted /\ Settles(r)
      /\ UNCHANGED <<view, runs, final, timers, timerRef, tokenState, world>>
  BY DEF HookInv, LaunchRejects, timerState
<1>2. machine' \in Machine /\ machine'.session \in {0, machine.session} /\ heard' \in Heard
  BY <1>1, FailType, QuietType DEF LaunchRejects, Heard
<1>3. timers' \subseteq Timer /\ timerRef' \in 0 .. MaxTimers /\ "none" \in Await
  BY <1>1 DEF HookTypeOK, Await
<1> QED BY <1>1, <1>2, <1>3, FlightKeeps

LEMMA AbandonsKeeps ==
  ASSUME HookInv, NEW r \in Run, Abandons(r) PROVE Keeps
<1>1. HookTypeOK /\ flights[r] # "none" /\ Settles(r) /\ Quiet
      /\ UNCHANGED <<view, runs, final, timers, timerRef, tokenState, world>>
  BY DEF HookInv, Abandons, timerState
<1>2. machine' \in Machine /\ machine'.session = machine.session /\ heard' = "none"
  BY <1>1, QuietType
<1>3. timers' \subseteq Timer /\ timerRef' \in 0 .. MaxTimers /\ "none" \in Await
  BY <1>1 DEF HookTypeOK, Await
<1> QED BY <1>1, <1>2, <1>3, FlightKeeps DEF Heard

\* Asking for a token: the request is the newest, and the only one of its number
LEMMA AsksOrder ==
  ASSUME HookTypeOK, NewestMayPost, AsksForToken, token' = token
  PROVE  NewestMayPost'
<1>1. CASE UNCHANGED <<refreshes, seq>>
  BY <1>1 DEF NewestMayPost
<1>2. CASE /\ seq' = seq + 1
           /\ refreshes' = refreshes \cup {[seq |-> seq + 1, session |-> machine.session]}
  <2>1. seq \in Nat /\ token.seq \in Nat /\ \A q \in refreshes : q.seq \in Nat
    BY Constants DEF HookTypeOK, Refresh
  <2> QED BY <1>2, <2>1 DEF NewestMayPost
<1> QED BY <1>1, <1>2 DEF AsksForToken

\* An event of the page or the SDK
LEMMA EventKeeps ==
  ASSUME HookInv, NEW e \in Event, HandleEvent(e),
         UNCHANGED <<view, running, runs, flights, world>>, final' \subseteq Run
  PROVE  Keeps
<1>1. /\ machine' \in Machine /\ machine'.session \in {0, machine.session}
      /\ heard' \in Heard
      /\ timers' \subseteq Timer /\ timerRef' \in 0 .. MaxTimers
      /\ refreshes' \subseteq Refresh /\ seq' \in 0 .. MaxRefreshes /\ token' = token
  BY HandleType DEF HookInv
<1>2. NewestMayPost'
  <2>1. CASE e = "tokenExpired"
    BY <1>1, <2>1, AsksOrder DEF HookInv, HandleEvent
  <2>2. CASE e # "tokenExpired"
    BY <2>2, RefreshesStandKeeps DEF HookInv, HandleEvent, RefreshesStand, tokenState
  <2> QED BY <2>1, <2>2
<1>3. OneRun'
  BY RunsStandKeeps DEF HookInv, RunsStand
<1>4. HookTypeOK'
  BY <1>1 DEF HookInv, HookTypeOK, Heard, world
<1>5. mounted /\ mounted' = mounted
  BY DEF HandleEvent, world
<1> QED BY <1>1, <1>2, <1>3, <1>4, <1>5 DEF Keeps, HookInv

\* A step in which no run and no refresh moves
LEMMA StandKeeps ==
  ASSUME HookInv, UNCHANGED <<runState, tokenState>>,
         machine' \in Machine, machine'.session \in {0, machine.session}, view' \in Machine,
         timers' \subseteq Timer, timerRef' \in 0 .. MaxTimers,
         mounted' \in BOOLEAN, online' \in BOOLEAN,
         heard' \in Heard,
         mounted' \/ heard' = "none" \/ (Headless /\ heard' = "cancel")
  PROVE  Keeps
<1>1. OneRun' /\ NewestMayPost'
  BY RunsStandKeeps, RefreshesStandKeeps DEF HookInv, RunsStand, RefreshesStand, runState
<1>2. HookTypeOK'
  BY DEF HookInv, HookTypeOK, Heard, runState, tokenState
<1> QED BY <1>1, <1>2 DEF Keeps, HookInv, tokenState

\* A step of what the hook is composed with
LEMMA StutterKeeps == ASSUME HookInv, NothingAfterUnmount, UNCHANGED vars PROVE Keeps
<1>1. UNCHANGED <<machine, view, running, runs, flights, final, timers, timerRef,
                  refreshes, seq, token, mounted, online, heard>>
  BY DEF vars, runState, timerState, tokenState, world
<1>2. OneRun' /\ NewestMayPost'
  BY <1>1 DEF HookInv, OneRun, NewestMayPost
<1>3. HookTypeOK'
  BY <1>1 DEF HookInv, HookTypeOK
<1> QED BY <1>1, <1>2, <1>3 DEF Keeps, HookInv, NothingAfterUnmount

\* The host's calls, React, the network and the timers move no run
LEMMA CancelKeeps == ASSUME HookInv, Cancel PROVE Keeps
<1>1. HookTypeOK /\ machine \in Machine /\ (mounted \/ Headless) /\ heard' = "cancel"
      /\ ClearCompleteTimeout /\ machine' = Idle /\ Commits
      /\ UNCHANGED <<runState, tokenState, mounted, online>>
  BY DEF HookInv, HookTypeOK, Cancel, world
<1>2. machine' \in Machine /\ machine'.session = 0
  BY <1>1, ReducerType
<1>3. view' \in Machine
  BY <1>1, <1>2 DEF Commits, HookTypeOK
<1> QED BY <1>1, <1>2, <1>3, ClearType, StandKeeps DEF Heard, HookTypeOK

LEMMA UnmountKeeps == ASSUME HookInv, Unmount PROVE Keeps
<1>1. HookTypeOK /\ mounted' = FALSE /\ ClearCompleteTimeout /\ Quiet
      /\ UNCHANGED <<view, runState, tokenState, online>>
  BY DEF HookInv, Unmount
<1> QED BY <1>1, ClearType, QuietType, StandKeeps DEF Heard, HookTypeOK

LEMMA RenderKeeps == ASSUME HookInv, Render PROVE Keeps
<1>1. HookTypeOK /\ view' = machine /\ Quiet
      /\ UNCHANGED <<runState, timers, timerRef, tokenState, mounted, online>>
  BY DEF HookInv, Render, timerState, world
<1> QED BY <1>1, QuietType, StandKeeps DEF Heard, HookTypeOK

LEMMA NetworkKeeps == ASSUME HookInv, GoOffline \/ GoOnline PROVE Keeps
<1>1. HookTypeOK /\ machine \in Machine /\ mounted /\ heard' = "none"
      /\ machine' \in {machine, Offline(machine)} /\ online' \in BOOLEAN
      /\ UNCHANGED <<view, runState, timers, timerRef, tokenState, mounted>>
  BY DEF HookInv, HookTypeOK, GoOffline, GoOnline, Quiet, timerState
<1>2. machine' \in Machine /\ machine'.session \in {0, machine.session}
  BY <1>1, ReducerType
<1> QED BY <1>1, <1>2, StandKeeps DEF Heard, HookTypeOK

LEMMA TimerFiresKeeps == ASSUME HookInv, NEW t \in timers, TimerFires(t) PROVE Keeps
<1>1. HookTypeOK /\ timers' = timers \ {t} /\ timerRef' = 0
      /\ heard' \in Heard /\ (mounted \/ heard' = "none")
      /\ UNCHANGED <<machine, view, runState, tokenState, mounted, online>>
  BY DEF HookInv, TimerFires, Heard, world
<1>2. timerRef' \in 0 .. MaxTimers
  BY <1>1, Constants
<1> QED BY <1>1, <1>2, StandKeeps DEF HookTypeOK

\* Only an answer to the newest request posts: of a number no token had yet, for
\* the session the machine holds
LEMMA RefreshAnswersKeeps ==
  ASSUME HookInv, NEW q \in refreshes, RefreshAnswers(q) PROVE Keeps
<1>1. HookTypeOK /\ refreshes' = refreshes \ {q} /\ Quiet
      /\ token' \in {token, q} /\ (token' # token => MayPost(q))
      /\ UNCHANGED <<view, runState, timers, timerRef, seq, mounted, online>>
  BY DEF HookInv, RefreshAnswers, timerState, world
<1>2. machine' \in Machine /\ machine'.session = machine.session /\ heard' = "none"
  BY <1>1, QuietType
<1>3. seq \in Nat /\ token.seq \in Nat /\ \A p \in refreshes : p.seq \in Nat
  BY <1>1, Constants DEF HookTypeOK, Refresh
<1>4. token' # token =>
        token'.seq = seq /\ token.seq < seq /\ token'.session = machine.session
  BY <1>1 DEF HookInv, NewestMayPost, MayPost
<1>5. NewestMayPost'
  BY <1>1, <1>3, <1>4 DEF HookInv, NewestMayPost
<1>6. OneRun'
  BY <1>1, RunsStandKeeps DEF HookInv, RunsStand, runState
<1>7. HookTypeOK'
  BY <1>1, <1>2 DEF HookTypeOK, Heard, runState
<1> QED BY <1>2, <1>3, <1>4, <1>5, <1>6, <1>7 DEF Keeps, HookInv

\* A failed refresh is told to a mounted hook alone
LEMMA RefreshFailsKeeps ==
  ASSUME HookInv, NEW q \in refreshes, RefreshFails(q) PROVE Keeps
<1>1. HookTypeOK /\ refreshes' = refreshes \ {q}
      /\ (Quiet \/ (mounted /\ FailWith("restartable", TRUE)))
      /\ UNCHANGED <<view, runState, timers, timerRef, seq, token, mounted, online>>
  BY DEF HookInv, RefreshFails, timerState, world
<1>2. /\ machine' \in Machine /\ machine'.session \in {0, machine.session}
      /\ heard' \in Heard /\ (mounted \/ heard' = "none")
  BY <1>1, QuietType, FailType DEF Heard
<1>3. NewestMayPost'
  BY <1>1 DEF HookInv, NewestMayPost
<1>4. OneRun'
  BY <1>1, RunsStandKeeps DEF HookInv, RunsStand, runState
<1>5. HookTypeOK'
  BY <1>1, <1>2 DEF HookTypeOK, Heard, runState
<1> QED BY <1>1, <1>2, <1>3, <1>4, <1>5 DEF Keeps, HookInv

\* The page speaks in events
LEMMA PageEmitsKeeps == ASSUME HookInv, NEW e \in PageEvent, PageEmits(e) PROVE Keeps
<1>1. /\ e \in Event /\ HandleEvent(e)
      /\ UNCHANGED <<view, running, runs, flights, final, world>>
  BY DEF Event, PageEmits, runState
<1> QED BY <1>1, EventKeeps DEF HookInv, HookTypeOK

-----------------------------------------------------------------------------
\* The hook starts within the invariant
LEMMA InitHolds == HookInit => HookInv /\ NothingAfterUnmount
<1> SUFFICES ASSUME HookInit PROVE HookInv /\ NothingAfterUnmount
  OBVIOUS
<1>1. Idle \in Machine
  <2>1. 0 \in 0 .. MaxRuns
    BY Constants
  <2> QED BY <2>1 DEF Machine, State, Idle
<1>2. HookTypeOK
  <2>1. 0 \in 0 .. MaxRuns /\ 0 \in 0 .. MaxTimers /\ 0 \in 0 .. MaxRefreshes
    BY Constants
  <2>3. online \in BOOLEAN
    <3>1. CASE Native
      BY <3>1, Zenon DEF HookInit
    <3>2. CASE ~Native
      BY <3>2, Zenon DEF HookInit
    <3> QED BY <3>1, <3>2
  <2>2. flights \in [Run -> Await] /\ token \in Refresh
    BY <2>1 DEF HookInit, Await, Refresh
  <2> QED BY <1>1, <2>1, <2>2, <2>3 DEF HookInit, HookTypeOK, Await
<1>3. OneRun /\ NewestMayPost
  BY DEF HookInit, OneRun, NewestMayPost
<1> QED BY <1>2, <1>3 DEF HookInv, HookInit, NothingAfterUnmount

\* and keeps to it, action by action
LEMMA StepKeeps == HookInv /\ HookNext => Keeps
  BY BeginKeeps, CancelKeeps, UnmountKeeps, RenderKeeps, NetworkKeeps,
     StartSettlesKeeps, AbandonsKeeps, PageEmitsKeeps, TimerFiresKeeps,
     RefreshAnswersKeeps, RefreshFailsKeeps
  DEF HookNext

\* The invariant the properties rest on: every variable keeps its type, one run
\* is under way at a time, and only the newest refresh can still post
\* (runningRef, seqRef).
THEOREM HookInvHolds == HookSpec => []HookInv
<1>1. HookInv /\ UNCHANGED vars => HookInv'
  BY DEF HookInv, HookTypeOK, OneRun, NewestMayPost, vars, runState, timerState,
         tokenState, world
<1>2. HookInv /\ [HookNext]_vars => HookInv'
  BY <1>1, StepKeeps DEF Keeps
<1> QED BY <1>2, InitHolds, PTL DEF HookSpec

\* Whatever the awaits and the order they come back in, a session the machine
\* comes to hold is the newest run's (begin, runningRef).
THEOREM NewestWins == HookSpec => NewestSessionWins
<1>1. HookInv /\ [HookNext]_vars => [machine'.session \in {0, machine.session, runs}]_vars
  BY StepKeeps DEF Keeps
<1> QED BY <1>1, HookInvHolds, PTL DEF HookSpec, NewestSessionWins

\* The page's tokens follow the order they were asked in, and are of the session
\* the machine holds, however the answers overtake each other (useTokenRefresh).
THEOREM TokensFollow == HookSpec => TokensInOrder
<1>1. HookInv /\ [HookNext]_vars =>
        [token' # token => token'.seq > token.seq /\ token'.session = machine.session]_vars
  BY StepKeeps DEF Keeps
<1> QED BY <1>1, HookInvHolds, PTL DEF HookSpec, TokensInOrder

\* The host hears nothing from an unmounted hook, whatever it left behind
\* (mountedRef).
THEOREM UnmountedIsSilent == HookSpec => []NothingAfterUnmount
<1>1. HookInv /\ NothingAfterUnmount /\ [HookNext]_vars => NothingAfterUnmount'
  <2>1. NothingAfterUnmount /\ UNCHANGED vars => NothingAfterUnmount'
    BY DEF NothingAfterUnmount, vars, world
  <2> QED BY <2>1, StepKeeps DEF Keeps, NothingAfterUnmount
<1> QED BY <1>1, InitHolds, HookInvHolds, PTL DEF HookSpec

=============================================================================
