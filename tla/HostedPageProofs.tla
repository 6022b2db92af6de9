---------------------------- MODULE HostedPageProofs ----------------------------
(***************************************************************************)
(* Theorems about HostedPage, for every session, every set of reviews and  *)
(* every number of runs, tokens, reloads and messages: what the host makes *)
(* of the page is what the backend makes of the webhook.                   *)
(***************************************************************************)
EXTENDS HostedPage, VerificationHookProofs, SequenceTheorems

\* The run whose page is on screen, and whether a run of the hook awaits
Shown == Embedded(view, mounted)
UnderWay == \E r \in Run : flights[r] # "none"

\* What the page may be saying of a review: an outcome it has, and no other;
\* only the mock page has a button to cancel
Sayable(p, r) ==
  {m \in BridgeMessage : p = "sumsub" =>
     /\ m.type # "cancel"
     /\ m.type = "complete" => r # NoReview /\ m.status = Lookup(r) /\ m.status \in Terminal}

PageTypes ==
  /\ provider \in {"sumsub", "mock"} /\ review \in Seen \cup {NoReview} /\ doc \in Document
  /\ asked \in 0 .. MaxRefreshes /\ reloads \in 0 .. MaxReloads
  /\ toHost \in Seq(Sayable(provider, review)) /\ toPage \in Seq(1 .. MaxRefreshes)
  /\ provider = "mock" => doc.awaits = 0 /\ review = NoReview

\* Without a page on screen there is no document, no message and no review
PageShown ==
  /\ Shown # 0 => doc.stage # "none"
  /\ Shown = 0 => doc = NoDocument /\ toHost = <<>> /\ toPage = <<>> /\ review = NoReview

\* A page on screen is of the machine's session, no run is under way behind it,
\* and one that comes on screen finds a machine without an outcome
OneScreen ==
  ~Launches =>
    /\ UnderWay => Shown = 0 /\ machine.status \notin Embedding
    /\ Shown # 0 => machine.session \in {0, Shown}
    /\ Shown = 0 /\ mounted /\ machine.status \in Embedding /\ machine.session # 0 =>
         machine.result = "none"

\* The verdict an outcome of the machine stands for
Verdict(result) == IF result = "approved" THEN "approved" ELSE "finallyRejected"

\* An outcome the machine holds while a page is on screen is the one it spoke of
OutcomeIsSpoken ==
  provider = "sumsub" /\ Shown # 0 /\ machine.result # "none" =>
    review # NoReview /\ Lookup(review) = Verdict(machine.result)

PageInv == HookInv /\ NothingAfterUnmount /\ PageTypes /\ PageShown /\ OneScreen /\ OutcomeIsSpoken

-----------------------------------------------------------------------------
(* The words of the page and of the backend *)

\* What MapStatus goes by: an answer only of a completed review, the reject type
\* only of a RED one
LEMMA MapStatusGoesBy ==
  ASSUME NEW q, NEW r, q.status = r.status,
         q.answer = r.answer \/ (q.answer \notin ReviewAnswers /\ r.answer \notin ReviewAnswers),
         r.answer = "RED" => (q.reject = "FINAL" <=> r.reject = "FINAL")
  PROVE  MapStatus(q) = MapStatus(r)
<1>1. r.status # "completed" => MapStatus(q) = MapStatus(r)
  BY DEF MapStatus
<1>2. CASE r.status = "completed"
  <2>1. CASE r.answer \notin ReviewAnswers
    BY <1>2, <2>1 DEF MapStatus, ReviewAnswers
  <2>2. CASE r.answer = "GREEN"
    BY <1>2, <2>2 DEF MapStatus, ReviewAnswers
  <2>3. CASE r.answer = "RED"
    BY <1>2, <2>3 DEF MapStatus, ReviewAnswers
  <2> QED
    BY <2>1, <2>2, <2>3 DEF ReviewAnswers
<1> QED
  BY <1>1, <1>2

\* The rows Lookup tries, in order
LEMMA LookupTries ==
  ASSUME NEW r \in Review
  PROVE  \E typeless, unanswered \in Review :
    /\ typeless.status = r.status /\ typeless.answer = r.answer /\ typeless.reject = Absent
    /\ unanswered.status = r.status /\ unanswered.answer = Absent /\ unanswered.reject = Absent
    /\ Lookup(r) = CASE r \in DOMAIN Table -> Table[r]
                     [] r \notin DOMAIN Table /\ typeless \in DOMAIN Table -> Table[typeless]
                     [] typeless \notin DOMAIN Table /\ unanswered \in DOMAIN Table ->
                          Table[unanswered]
                     [] OTHER -> "initial"
<1>1. PICK typeless, unanswered :
        typeless = [r EXCEPT !.reject = Absent] /\ unanswered = [typeless EXCEPT !.answer = Absent]
  OBVIOUS
<1>2. /\ typeless \in Review
      /\ typeless.status = r.status /\ typeless.answer = r.answer /\ typeless.reject = Absent
  BY <1>1 DEF Review
<1>3. /\ unanswered \in Review
      /\ unanswered.status = r.status /\ unanswered.answer = Absent /\ unanswered.reject = Absent
  BY <1>1, <1>2 DEF Review
<1>4. Lookup(r) = CASE r \in DOMAIN Table -> Table[r]
                    [] r \notin DOMAIN Table /\ typeless \in DOMAIN Table -> Table[typeless]
                    [] typeless \notin DOMAIN Table /\ unanswered \in DOMAIN Table ->
                         Table[unanswered]
                    [] OTHER -> "initial"
  BY <1>1 DEF Lookup
<1> QED
  BY <1>2, <1>3, <1>4

\* A row of the table says what mapSumsubStatus says
LEMMA TableRow ==
  ASSUME NEW r \in Review, r \in DOMAIN Table
  PROVE  Table[r] = MapStatus(r)
<1>1. Table[r] = MapStatus(IF r.answer = Absent THEN [r EXCEPT !.reject = Absent] ELSE r)
  BY DEF Table
<1>2. CASE r.answer = Absent
  <2>1. PICK t : t = [r EXCEPT !.reject = Absent]
    OBVIOUS
  <2>2. t.status = r.status /\ t.answer = r.answer
    BY <2>1 DEF Review
  <2>3. MapStatus(t) = MapStatus(r)
    BY <1>2, <2>2, MapStatusGoesBy DEF Absent
  <2> QED
    BY <1>1, <1>2, <2>1, <2>3
<1> QED
  BY <1>1, <1>2

\* The page says of any review what the backend's mapping says of it, values
\* neither of them knows included (lookupSumsubStatus, mapSumsubStatus), and so
\* does the webhook Sumsub sends of it (mapSumsubWebhookType).
THEOREM PageAndBackendAgree ==
  \A r \in Review : Lookup(r) = MapStatus(r) /\ Backend(r) = MapStatus(r) /\ Lookup(r) \in Spoken
<1> SUFFICES ASSUME NEW r \in Review
             PROVE  Lookup(r) = MapStatus(r) /\ Backend(r) = MapStatus(r) /\ Lookup(r) \in Spoken
  OBVIOUS
<1>1. PICK typeless \in Review, unanswered \in Review :
        /\ typeless.status = r.status /\ typeless.answer = r.answer /\ typeless.reject = Absent
        /\ unanswered.status = r.status /\ unanswered.answer = Absent /\ unanswered.reject = Absent
        /\ Lookup(r) = CASE r \in DOMAIN Table -> Table[r]
                         [] r \notin DOMAIN Table /\ typeless \in DOMAIN Table -> Table[typeless]
                         [] typeless \notin DOMAIN Table /\ unanswered \in DOMAIN Table ->
                              Table[unanswered]
                         [] OTHER -> "initial"
  BY LookupTries
<1>2. \A q \in Review : q \in DOMAIN Table <=> /\ q.status \in ReviewStatuses
                                               /\ q.answer \in ReviewAnswers \cup {Absent}
                                               /\ q.reject \in RejectTypes \cup {Absent}
  BY DEF Table, Review
<1>3. ASSUME r \in DOMAIN Table PROVE Lookup(r) = MapStatus(r)
  BY <1>1, <1>2, <1>3, TableRow
<1>4. ASSUME r \notin DOMAIN Table, typeless \in DOMAIN Table PROVE Lookup(r) = MapStatus(r)
  <2>1. Lookup(r) = MapStatus(typeless)
    BY <1>1, <1>4, TableRow
  <2>2. r.reject # "FINAL"
    BY <1>1, <1>2, <1>4 DEF RejectTypes
  <2> QED
    BY <1>1, <2>1, <2>2, MapStatusGoesBy DEF Absent
<1>5. ASSUME typeless \notin DOMAIN Table, unanswered \in DOMAIN Table
      PROVE  Lookup(r) = MapStatus(r)
  <2>1. r \notin DOMAIN Table /\ r.answer \notin ReviewAnswers
    BY <1>1, <1>2, <1>5
  <2>2. Lookup(r) = MapStatus(unanswered)
    BY <1>1, <1>5, <2>1, TableRow
  <2> QED
    BY <1>1, <2>1, <2>2, MapStatusGoesBy DEF Absent, ReviewAnswers
<1>6. ASSUME unanswered \notin DOMAIN Table PROVE Lookup(r) = MapStatus(r)
  <2>1. r.status \notin ReviewStatuses
    BY <1>1, <1>2, <1>6
  <2>2. r \notin DOMAIN Table /\ typeless \notin DOMAIN Table
    BY <1>1, <1>2, <2>1
  <2>3. Lookup(r) = "initial"
    BY <1>1, <1>6, <2>2
  <2>4. MapStatus(r) = "initial"
    BY <2>1 DEF MapStatus, ReviewStatuses
  <2> QED
    BY <2>3, <2>4
<1>7. Lookup(r) = MapStatus(r)
  BY <1>3, <1>4, <1>5, <1>6
<1>8. Backend(r) = MapStatus(r)
  <2>1. CASE r.status = "init"
    BY <2>1 DEF Backend, WebhookOf, MapWebhook, WebhookTypes, MapStatus
  <2>2. CASE r.status = "pending"
    BY <2>2 DEF Backend, WebhookOf, MapWebhook, WebhookTypes, MapStatus
  <2>3. CASE r.status = "onHold"
    <3>1. WebhookOf(r) = "applicantOnHold" /\ MapStatus(r) = "pending"
      BY <2>3 DEF WebhookOf, MapStatus
    <3>2. MapWebhook("applicantOnHold", r) = "pending"
      BY DEF MapWebhook, WebhookTypes
    <3> QED
      BY <3>1, <3>2 DEF Backend
  <2>4. CASE r.status \notin {"init", "pending", "onHold"}
    <3>1. WebhookOf(r) = "applicantReviewed"
      BY <2>4 DEF WebhookOf
    <3>2. MapWebhook("applicantReviewed", r) = MapStatus(r)
      BY DEF MapWebhook, WebhookTypes
    <3> QED
      BY <3>1, <3>2 DEF Backend
  <2> QED
    BY <2>1, <2>2, <2>3, <2>4
<1>9. MapStatus(r) \in Spoken
  BY DEF MapStatus, Spoken
<1> QED
  BY <1>7, <1>8, <1>9

-----------------------------------------------------------------------------
(* What the machine and the screen do to each other *)

LEMMA PageConstants ==
  /\ MaxReloads \in Nat /\ MaxPosts \in Nat \ {0, 1} /\ ~Headless /\ Seen \subseteq Review
  /\ NoReview \notin Review
BY PageAssumption DEF NoReview, Review, ReviewStatuses, Absent, Unknown

\* An event keeps the outcome, drops it or brings one
LEMMA PlannedResult ==
  ASSUME machine \in Machine, NEW e \in PageEvent
  PROVE  /\ e \in {"approved", "rejected"} => PlannedAction(e).result = e
         /\ e \notin {"approved", "rejected"} => PlannedAction(e).result \in {"none", machine.result}
<1>1. CASE e \in {"approved", "rejected"}
  <2>1. PlannedAction(e) = Outcome(machine, e)
    BY <1>1 DEF PlannedAction
  <2>2. Outcome(machine, e).result = e
    BY DEF Outcome, Machine
  <2> QED
    BY <1>1, <2>1, <2>2
<1>2. CASE e \notin {"approved", "rejected"}
  <2>1. \/ PlannedAction(e) \in {Applicant(machine), AwaitReview(machine), machine, Idle,
                                 Refused(machine, "none")}
        \/ \E err \in {"restartable", "other"}, keep \in BOOLEAN :
             PlannedAction(e) = Failed(machine, err, keep)
    BY <1>2 DEF PlannedAction
  <2>2. /\ Applicant(machine).result = machine.result /\ AwaitReview(machine).result = machine.result
        /\ Refused(machine, "none").result = machine.result /\ Idle.result = "none"
    BY DEF Applicant, AwaitReview, Refused, Machine, Idle
  <2>3. \A err \in {"restartable", "other"}, keep \in BOOLEAN :
          Failed(machine, err, keep).result = "none"
    BY DEF Idle, Failed
  <2> QED
    BY <1>2, <2>1, <2>2, <2>3
<1> QED
  BY <1>1, <1>2

LEMMA HandledResult ==
  ASSUME HookTypeOK, NEW e \in PageEvent, HandleEvent(e)
  PROVE  /\ e \in {"approved", "rejected"} => machine'.result = e
         /\ e \notin {"approved", "rejected"} => machine'.result \in {"none", machine.result}
<1>1. CASE e = "tokenExpired"
  BY <1>1 DEF HandleEvent, AsksForToken, Quiet, FailWith, Failed, Idle
<1>2. CASE e # "tokenExpired"
  <2>1. machine' = PlannedAction(e)
    BY <1>2 DEF HandleEvent
  <2> QED
    BY <2>1, PlannedResult DEF HookTypeOK
<1> QED
  BY <1>1, <1>2

\* What a step of the host asks of the machine, while the screen stands: it
\* stays, or it leaves the states that embed
MachineLeaves ==
  /\ UNCHANGED <<view, mounted>> /\ (UnderWay' => UnderWay)
  /\ \/ machine' = machine
     \/ /\ machine'.status \notin Embedding /\ machine'.session \in {0, machine.session}
        /\ machine'.result \in {"none", machine.result}

\* What a step of the host may do to the page: nothing, or put a page on screen
\* of a machine without an outcome, or take it off
ScreenMoves ==
  /\ OneScreen'
  /\ Shown' # 0 => machine'.result \in {"none", machine.result}
  /\ Shown' # 0 /\ Shown' # Shown => machine'.result = "none"

LEMMA LeavesMoves ==
  ASSUME OneScreen, MachineLeaves
  PROVE  ScreenMoves
<1>1. Shown' = Shown
  BY DEF MachineLeaves, Shown, Embedded
<1> QED
  BY <1>1 DEF ScreenMoves, OneScreen, MachineLeaves

\* A run begins from a screen without a page, and commits one without
LEMMA BeginHides ==
  ASSUME Start \/ Restart
  PROVE  machine'.status \in {"loading", "offline"} /\ Shown' = 0
<1>1. PICK m : Begin(m)
  BY DEF Start, Restart
<1>2. view' = machine' /\ machine'.status \in {"loading", "offline"}
  <2>1. machine' \in {Began(m), Offline(Began(m))}
    BY <1>1 DEF Begin
  <2>2. Began(m).status = "loading"
    BY DEF Began
  <2> QED
    BY <1>1, <2>1, <2>2, PageConstants DEF Begin, Commits, Began, Offline
<1> QED
  BY <1>2 DEF Shown, Embedded, Embedding

LEMMA BeginMoves ==
  ASSUME OneScreen, Start \/ Restart
  PROVE  ScreenMoves
BY BeginHides DEF ScreenMoves, OneScreen, Embedding

LEMMA RenderMoves ==
  ASSUME HookInv, OneScreen, ~Launches, Render
  PROVE  ScreenMoves
<1>1. mounted /\ mounted' = mounted /\ view' = machine /\ machine' = machine /\ flights' = flights
  BY DEF Render, Quiet, runState, world
<1>2. machine.session \in 0 .. MaxRuns
  BY DEF HookInv, HookTypeOK, Machine
<1>3. Shown' = IF machine.status \in Embedding THEN machine.session ELSE 0
  BY <1>1 DEF Shown, Embedded
<1>4. OneScreen'
  BY <1>1, <1>3 DEF OneScreen, UnderWay
<1>5. ASSUME Shown' # 0, Shown' # Shown PROVE machine'.result = "none"
  <2>1. Shown = 0 /\ machine.status \in Embedding /\ machine.session # 0
    BY <1>3, <1>5 DEF OneScreen
  <2> QED
    BY <1>1, <2>1 DEF OneScreen
<1> QED
  BY <1>1, <1>4, <1>5 DEF ScreenMoves

\* The session a run brings is not on screen, and has no outcome yet
LEMMA StartSettlesMoves ==
  ASSUME HookInv, OneScreen, ~Launches, NEW r \in Run, StartSettles(r)
  PROVE  ScreenMoves
<1>1. /\ flights[r] = "starting" /\ mounted /\ UNCHANGED <<view, mounted>> /\ Settles(r)
      /\ machine' = InSession(r) \/ FailWith("other", FALSE)
  BY DEF StartSettles, world
<1>2. Shown = 0 /\ Shown' = 0
  BY <1>1 DEF OneScreen, UnderWay, Shown, Embedded
<1>3. ~UnderWay'
  BY <1>1 DEF HookInv, OneRun, HookTypeOK, Settles, UnderWay
<1>4. machine'.result = "none"
  BY <1>1 DEF InSession, FailWith, Failed, Idle
<1> QED
  BY <1>2, <1>3, <1>4 DEF ScreenMoves, OneScreen

\* The machine of an await, a refusal or a refresh that came back
LEMMA Leaving ==
  ASSUME machine \in Machine
  PROVE  /\ \A why \in {"denied", "blocked"} :
              /\ Refused(machine, why).status \notin Embedding
              /\ Refused(machine, why).session = machine.session
              /\ Refused(machine, why).result = machine.result
         /\ \A err \in {"restartable", "other"}, keep \in BOOLEAN :
              /\ Failed(machine, err, keep).status \notin Embedding
              /\ Failed(machine, err, keep).session \in {0, machine.session}
              /\ Failed(machine, err, keep).result = "none"
         /\ Offline(machine).status \notin Embedding
         /\ Offline(machine).session = machine.session /\ Offline(machine).result = machine.result
  BY DEF Refused, Failed, Offline, Idle, Machine, Embedding

LEMMA RunLeaves ==
  ASSUME HookInv, NEW r \in Run, CheckPermissions(r) \/ ProbeConnection(r) \/ Abandons(r)
  PROVE  MachineLeaves
<1>1. /\ flights[r] # "none" /\ UNCHANGED <<view, mounted>>
      /\ \/ Quiet \/ FailWith("other", FALSE) \/ machine' = Offline(machine)
         \/ \E why \in {"denied", "blocked"} : machine' = Refused(machine, why)
  <2>1. CASE CheckPermissions(r)
    BY <2>1 DEF CheckPermissions, world
  <2>2. CASE ProbeConnection(r)
    BY <2>2 DEF ProbeConnection, world
  <2>3. CASE Abandons(r)
    BY <2>3 DEF Abandons, world
  <2> QED
    BY <2>1, <2>2, <2>3
<1>2. UnderWay
  BY <1>1 DEF UnderWay
<1>3. machine \in Machine
  BY DEF HookInv, HookTypeOK
<1> QED
  BY <1>1, <1>2, <1>3, Leaving DEF MachineLeaves, Quiet, FailWith

LEMMA OtherLeaves ==
  ASSUME HookInv,
         \/ GoOffline \/ GoOnline \/ RefreshSettles
         \/ \E t \in timers : TimerFires(t)
  PROVE  MachineLeaves
<1>1. /\ UNCHANGED <<view, mounted, flights>>
      /\ machine' = machine \/ machine' = Offline(machine) \/ FailWith("restartable", TRUE)
  <2>1. CASE GoOffline
    BY <2>1 DEF GoOffline, runState
  <2>2. CASE GoOnline
    BY <2>2 DEF GoOnline, runState, Quiet
  <2>3. ASSUME NEW t \in timers, TimerFires(t)
        PROVE  UNCHANGED <<view, mounted, flights>> /\ machine' = machine
    BY <2>3 DEF TimerFires, runState, world
  <2>4. ASSUME NEW q \in refreshes, RefreshAnswers(q) \/ RefreshFails(q)
        PROVE  /\ UNCHANGED <<view, mounted, flights>>
               /\ machine' = machine \/ FailWith("restartable", TRUE)
    <3>1. CASE RefreshAnswers(q)
      BY <3>1 DEF RefreshAnswers, runState, world, Quiet
    <3>2. CASE RefreshFails(q)
      BY <3>2 DEF RefreshFails, runState, world, Quiet
    <3> QED
      BY <2>4, <3>1, <3>2
  <2> QED
    BY <2>1, <2>2, <2>3, <2>4 DEF RefreshSettles
<1>2. UnderWay' => UnderWay
  BY <1>1 DEF UnderWay
<1>3. machine \in Machine
  BY DEF HookInv, HookTypeOK
<1> QED
  BY <1>1, <1>2, <1>3, Leaving DEF MachineLeaves, FailWith

LEMMA HostMoves ==
  ASSUME HookInv, OneScreen, HostStep
  PROVE  ScreenMoves
<1>1. CASE Launches
  BY <1>1 DEF ScreenMoves, OneScreen, Shown, Embedded
<1>2. CASE ~Launches
  <2>1. CASE Start \/ Restart
    BY <2>1, BeginMoves
  <2>2. CASE Cancel
    <3>1. view' = Idle /\ machine' = Idle /\ Idle.status \notin Embedding
      BY <2>2, PageConstants DEF Cancel, Commits, Idle, Embedding
    <3>2. Shown' = 0
      BY <3>1 DEF Shown, Embedded
    <3> QED
      BY <3>1, <3>2 DEF ScreenMoves, OneScreen
  <2>3. CASE Unmount
    <3>1. ~mounted' /\ machine' = machine /\ flights' = flights
      BY <2>3 DEF Unmount, Quiet, runState
    <3>2. Shown' = 0
      BY <3>1 DEF Shown, Embedded
    <3> QED
      BY <3>1, <3>2 DEF ScreenMoves, OneScreen, UnderWay
  <2>4. CASE Render
    BY <1>2, <2>4, RenderMoves
  <2>5. ASSUME NEW r \in Run,
               CheckPermissions(r) \/ ProbeConnection(r) \/ StartSettles(r) \/ Abandons(r)
        PROVE  ScreenMoves
    BY <1>2, <2>5, StartSettlesMoves, RunLeaves, LeavesMoves
  <2>6. CASE GoOffline \/ GoOnline \/ RefreshSettles \/ \E t \in timers : TimerFires(t)
    BY <2>6, OtherLeaves, LeavesMoves
  <2> QED
    BY <2>1, <2>2, <2>3, <2>4, <2>5, <2>6 DEF HostStep
<1> QED
  BY <1>1, <1>2

-----------------------------------------------------------------------------
(* The hook's invariant, over the page *)

LEMMA SayableIsMessage ==
  ASSUME NEW p, NEW r
  PROVE  Sayable(p, r) \subseteq BridgeMessage
BY DEF Sayable

\* A message is heard as an event of the page, and as an outcome only if it
\* completes one (interpretBridgeMessage)
LEMMA HeardEvent ==
  ASSUME NEW m \in BridgeMessage
  PROVE  /\ Interpreted(m) \in PageEvent
         /\ Interpreted(m) \in {"approved", "rejected"} => m.type = "complete"
         /\ m.type = "complete" => Interpreted(m) = IF m.status = "approved" THEN "approved"
                                                    ELSE "rejected"
BY DEF Interpreted, BridgeMessage, BridgeEventType, PageEvent

\* The message the host takes next
LEMMA HeadIsSaid ==
  ASSUME PageTypes, toHost # <<>>
  PROVE  /\ Head(toHost) \in Sayable(provider, review) /\ Head(toHost) \in BridgeMessage
         /\ Tail(toHost) \in Seq(Sayable(provider, review))
BY HeadTailProperties, SayableIsMessage DEF PageTypes

LEMMA PageKeepsHook ==
  ASSUME HookInv, NothingAfterUnmount, PageTypes, PageNext
  PROVE  Keeps
<1>1. CASE HostStep
  <2>1. ASSUME NEW q \in refreshes, RefreshAnswers(q) \/ RefreshFails(q) PROVE Keeps
    BY <2>1, RefreshAnswersKeeps, RefreshFailsKeeps
  <2>2. ASSUME NEW r \in Run,
               CheckPermissions(r) \/ ProbeConnection(r) \/ StartSettles(r) \/ Abandons(r)
        PROVE  Keeps
    BY <2>2, CheckPermissionsKeeps, ProbeConnectionKeeps, StartSettlesKeeps, AbandonsKeeps
  <2>3. ASSUME NEW t \in timers, TimerFires(t) PROVE Keeps
    BY <2>3, TimerFiresKeeps
  <2> QED
    BY <1>1, <2>1, <2>2, <2>3, BeginKeeps, CancelKeeps, UnmountKeeps, RenderKeeps, NetworkKeeps
    DEF HostStep, RefreshSettles
<1>2. CASE HostReceives
  <2>1. PICK e \in Event : HandleEvent(e)
    BY <1>2, HeadIsSaid, HeardEvent DEF HostReceives, Event
  <2>2. UNCHANGED <<view, running, runs, flights, world>> /\ final' \subseteq Run
    BY <1>2 DEF HostReceives, runState, HookInv, HookTypeOK
  <2> QED
    BY <2>1, <2>2, EventKeeps
<1>3. CASE PageStep
  <2>1. UNCHANGED vars
    BY <1>3 DEF PageStep, Loads, LoadFails, Reloads, Tells, Says, Expires, Clicks, PageReceives,
                Reports, Posts
  <2> QED
    BY <2>1, StutterKeeps
<1> QED
  BY <1>1, <1>2, <1>3 DEF PageNext

-----------------------------------------------------------------------------
(* The host's steps *)

LEMMA HostKeeps ==
  ASSUME PageInv, HostStep, PageFollows
  PROVE  PageTypes' /\ PageShown' /\ OneScreen' /\ OutcomeIsSpoken'
<1>1. ScreenMoves /\ OneScreen'
  BY HostMoves DEF PageInv, ScreenMoves
<1>2. Keeps /\ token' \in Refresh /\ token \in Refresh
  BY PageKeepsHook DEF PageInv, PageNext, Keeps, HookInv, HookTypeOK
<1>3. Stays <=> Shown' = Shown
  BY DEF Stays, Shown
<1>4. UNCHANGED <<provider, asked, reloads>>
  BY DEF PageFollows
<1>5. CASE Stays
  <2>1. UNCHANGED <<doc, toHost, review>>
    BY <1>5 DEF PageFollows, Leaves
  <2>2. toPage' = toPage \/ (doc # NoDocument /\ token' # token /\ toPage' = Append(toPage, token'.seq))
    BY <1>5 DEF PageFollows
  <2>3. toPage' \in Seq(1 .. MaxRefreshes)
    <3>1. ASSUME token' # token PROVE token'.seq \in 1 .. MaxRefreshes
      <4>1. /\ token'.seq > token.seq
            /\ token.seq \in 0 .. MaxRefreshes /\ token'.seq \in 0 .. MaxRefreshes
        BY <1>2, <3>1 DEF Keeps, Refresh
      <4> QED
        BY <4>1, Constants
    <3>2. toPage \in Seq(1 .. MaxRefreshes)
      BY DEF PageInv, PageTypes
    <3>3. PICK n : n = token'.seq
      OBVIOUS
    <3>4. CASE toPage' = toPage
      BY <3>2, <3>4
    <3>5. CASE token' # token /\ toPage' = Append(toPage, token'.seq)
      <4>1. n \in 1 .. MaxRefreshes /\ toPage' = Append(toPage, n)
        BY <3>1, <3>3, <3>5
      <4> QED
        BY <3>2, <4>1, AppendProperties
    <3> QED
      BY <2>2, <3>4, <3>5
  <2>4. PageTypes'
    BY <1>4, <2>1, <2>3 DEF PageInv, PageTypes
  <2>5. PageShown'
    BY <1>3, <1>5, <2>1, <2>2 DEF PageInv, PageShown
  <2>6. OutcomeIsSpoken'
    BY <1>1, <1>3, <1>4, <1>5, <2>1 DEF PageInv, OutcomeIsSpoken, ScreenMoves, Verdict
  <2> QED
    BY <1>1, <2>4, <2>5, <2>6
<1>6. CASE ~Stays
  <2>1. /\ toHost' = <<>> /\ toPage' = <<>> /\ review' = NoReview
        /\ doc' = IF Shown' = 0 THEN NoDocument ELSE NewDocument
    BY <1>6 DEF PageFollows, Leaves, Shown
  <2>2. PageTypes'
    <3>1. NoDocument \in Document /\ NewDocument \in Document
      BY Constants DEF Document, NoDocument, NewDocument
    <3>2. doc'.awaits = 0
      BY <2>1 DEF NoDocument, NewDocument
    <3> QED
      BY <1>4, <2>1, <3>1, <3>2, EmptySeq DEF PageInv, PageTypes
  <2>3. PageShown'
    BY <2>1 DEF PageShown, NoDocument, NewDocument
  <2>4. OutcomeIsSpoken'
    BY <1>1, <1>3, <1>6 DEF ScreenMoves, OutcomeIsSpoken
  <2> QED
    BY <1>1, <2>2, <2>3, <2>4
<1> QED
  BY <1>5, <1>6

\* A message taken: an outcome is the one the page spoke of
LEMMA ReceiveKeeps ==
  ASSUME PageInv, HostReceives
  PROVE  PageTypes' /\ PageShown' /\ OneScreen' /\ OutcomeIsSpoken'
<1> DEFINE m == Head(toHost)
<1>1. /\ toHost # <<>> /\ HandleEvent(Interpreted(m)) /\ toHost' = Tail(toHost)
      /\ UNCHANGED <<view, flights, mounted, provider, review, doc, asked, reloads, toPage>>
  BY DEF HostReceives, runState, world
<1>2. /\ m \in Sayable(provider, review) /\ m \in BridgeMessage
      /\ toHost' \in Seq(Sayable(provider, review))
  BY <1>1, HeadIsSaid DEF PageInv
<1>3. Shown # 0 /\ Shown' = Shown /\ (UnderWay' <=> UnderWay)
  BY <1>1 DEF PageInv, PageShown, Shown, Embedded, UnderWay
<1>4. Interpreted(m) \in PageEvent /\ Interpreted(m) \in Event
  BY <1>2, HeardEvent DEF Event
<1> HIDE DEF m
<1>5. machine'.session \in {0, machine.session}
  BY <1>1, <1>4, HandleType DEF PageInv, HookInv
<1>6. PageTypes' /\ PageShown'
  BY <1>1, <1>2, <1>3 DEF PageInv, PageTypes, PageShown
<1>7. OneScreen'
  BY <1>3, <1>5 DEF PageInv, OneScreen
<1>8. OutcomeIsSpoken'
  <2>1. CASE Interpreted(m) \notin {"approved", "rejected"}
    <3>1. machine'.result \in {"none", machine.result}
      BY <1>1, <1>4, <2>1, HandledResult DEF PageInv, HookInv
    <3> QED
      BY <1>1, <1>3, <3>1 DEF PageInv, OutcomeIsSpoken, Verdict
  <2>2. CASE Interpreted(m) \in {"approved", "rejected"}
    <3>1. machine'.result = Interpreted(m) /\ m.type = "complete"
      BY <1>1, <1>2, <1>4, <2>2, HandledResult, HeardEvent DEF PageInv, HookInv
    <3>2. provider = "sumsub" => review # NoReview /\ m.status = Lookup(review)
                                  /\ m.status \in {"approved", "finallyRejected"}
      BY <1>2, <3>1 DEF Sayable, Terminal
    <3>3. Interpreted(m) = IF m.status = "approved" THEN "approved" ELSE "rejected"
      BY <1>2, <3>1, HeardEvent
    <3> QED
      BY <1>1, <3>1, <3>2, <3>3 DEF OutcomeIsSpoken, Verdict
  <2> QED
    BY <2>1, <2>2
<1> QED
  BY <1>6, <1>7, <1>8

-----------------------------------------------------------------------------
(* The page's steps *)

\* What a page may go on to say: all it may have said stays true
LEMMA PostsKeeps ==
  ASSUME NEW S, NEW T, toHost \in Seq(S), S \subseteq T, NEW msgs \in Seq(T), NEW d, Posts(msgs, d)
  PROVE  toHost' \in Seq(T) /\ doc' = d /\ UNCHANGED <<vars, provider, reloads, toPage>>
<1>1. toHost \in Seq(T)
  BY SeqMonotonic
<1>2. toHost \o msgs \in Seq(T)
  BY <1>1, ConcatProperties
<1> QED
  BY <1>1, <1>2 DEF Posts

\* A step of the page that leaves the review: what it may post
LEMMA PostsSame ==
  ASSUME PageTypes, NEW msgs \in Seq(Sayable(provider, review)), NEW d, Posts(msgs, d)
  PROVE  /\ toHost' \in Seq(Sayable(provider, review)) /\ doc' = d
         /\ UNCHANGED <<vars, provider, reloads, toPage>>
BY PostsKeeps DEF PageTypes

\* Messages that complete nothing may be posted, and the mock page may cancel
LEMMA Incomplete ==
  ASSUME NEW p, NEW r, NEW type \in BridgeEventType \ {"complete"},
         NEW status \in Spoken \cup {Absent}, type = "cancel" => p = "mock"
  PROVE  Message(type, status) \in Sayable(p, r)
BY DEF Message, Sayable, BridgeMessage

\* A step of the page in all but what it posts
Around ==
  /\ UNCHANGED vars /\ UNCHANGED provider
  /\ doc.stage # "none" /\ doc' \in Document /\ doc'.stage # "none"
  /\ asked' \in 0 .. MaxRefreshes /\ reloads' \in 0 .. MaxReloads
  /\ toPage' \in Seq(1 .. MaxRefreshes)
  /\ provider = "mock" => doc'.awaits = 0

LEMMA AroundKeeps ==
  ASSUME PageInv, Around, UNCHANGED review, toHost' \in Seq(Sayable(provider, review))
  PROVE  PageTypes' /\ PageShown' /\ OneScreen' /\ OutcomeIsSpoken'
<1>1. /\ UNCHANGED <<machine, view, flights, mounted, provider, review>>
      /\ Shown' = Shown /\ (UnderWay' <=> UnderWay)
  BY DEF Around, vars, runState, world, Shown, Embedded, UnderWay
<1>2. PageTypes'
  BY <1>1 DEF PageInv, PageTypes, Around
<1>3. PageShown'
  <2>1. Shown # 0
    BY DEF PageInv, PageShown, Around, NoDocument
  <2> QED
    BY <1>1, <2>1 DEF PageShown, Around
<1>4. OneScreen' /\ OutcomeIsSpoken'
  BY <1>1 DEF PageInv, OneScreen, OutcomeIsSpoken, Verdict
<1> QED
  BY <1>2, <1>3, <1>4

\* What the page of any provider does besides reporting a review
LEMMA QuietPageKeeps ==
  ASSUME PageInv,
         Loads \/ LoadFails \/ Reloads \/ Tells \/ Expires \/ Clicks \/ PageReceives
  PROVE  PageTypes' /\ PageShown' /\ OneScreen' /\ OutcomeIsSpoken'
<1> DEFINE S == Sayable(provider, review)
<1>1. /\ PageTypes /\ toHost \in Seq(S) /\ toPage \in Seq(1 .. MaxRefreshes) /\ doc \in Document
      /\ asked \in 0 .. MaxRefreshes /\ reloads \in 0 .. MaxReloads
      /\ provider = "mock" => doc.awaits = 0
  BY DEF PageInv, PageTypes
<1>2. /\ \A type \in BridgeEventType \ {"complete"}, status \in {"incomplete", "approved", "declined", Absent} :
           (type = "cancel" => provider = "mock") => Message(type, status) \in S
      /\ provider = "mock" => \A status \in {"approved", "declined"} : Message("complete", status) \in S
  BY Incomplete DEF Spoken, Sayable, Message, BridgeMessage, BridgeEventType
<1> HIDE DEF S
<1>3. \A x \in S : <<x>> \in Seq(S)
  OBVIOUS
<1>4. \A x, y \in S : <<x, y>> \in Seq(S)
  OBVIOUS
<1>5. /\ [doc EXCEPT !.stage = "live"] \in Document /\ [doc EXCEPT !.stage = "dead"] \in Document
      /\ [doc EXCEPT !.stage = "live"].awaits = doc.awaits
      /\ [doc EXCEPT !.stage = "dead"].awaits = doc.awaits
      /\ [doc EXCEPT !.stage = "live"].stage = "live" /\ [doc EXCEPT !.stage = "dead"].stage = "dead"
  BY <1>1 DEF Document
<1> DEFINE Said == UNCHANGED review /\ toHost' \in Seq(S)
<1>6. ASSUME NEW msgs \in Seq(S), NEW d, Posts(msgs, d), UNCHANGED review
      PROVE  Said /\ doc' = d /\ UNCHANGED <<vars, provider, reloads, toPage>>
  <2>1. /\ toHost' \in Seq(S) /\ doc' = d
        /\ UNCHANGED <<vars, provider, reloads, toPage>>
    BY <1>1, <1>6, PostsSame DEF S
  <2> QED
    BY <1>6, <2>1
<1>7. ASSUME Loads PROVE Around /\ Said
  <2>1. /\ doc.stage = "loading" /\ UNCHANGED <<review, asked>>
    BY <1>7 DEF Loads
  <2>2. PICK msgs \in Seq(S), d \in {[doc EXCEPT !.stage = "live"], [doc EXCEPT !.stage = "dead"]} :
          Posts(msgs, d)
    <3>1. NotFound \in Seq(S)
      <4>1. Message("error", Absent) \in S /\ Message("sessionExpired", Absent) \in S
        BY <1>2 DEF BridgeEventType
      <4>2. PICK e, x \in S : e = Message("error", Absent) /\ x = Message("sessionExpired", Absent)
        BY <4>1
      <4>3. NotFound = (IF Native THEN <<e>> ELSE <<>>) \o <<x>>
        BY <4>2 DEF NotFound
      <4>4. <<e>> \in Seq(S) /\ <<>> \in Seq(S) /\ <<x>> \in Seq(S)
        BY <1>3, EmptySeq
      <4> QED
        BY <4>3, <4>4, ConcatProperties
    <3>2. <<>> \in Seq(S) /\ <<Message("applicantLoaded", Absent)>> \in Seq(S)
          /\ <<Message("statusChanged", "incomplete")>> \in Seq(S)
      BY <1>2, <1>3, EmptySeq DEF BridgeEventType
    <3> QED
      BY <1>7, <3>1, <3>2 DEF Loads
  <2> QED
    BY <1>1, <1>5, <1>6, <2>1, <2>2 DEF Around
<1>8. ASSUME LoadFails PROVE Around /\ Said
  <2>1. /\ doc.stage = "loading" /\ UNCHANGED <<review, asked>>
        /\ Posts(<<Message("error", Absent)>>, [doc EXCEPT !.stage = "dead"])
    BY <1>8 DEF LoadFails
  <2>2. <<Message("error", Absent)>> \in Seq(S)
    BY <1>2, <1>3 DEF BridgeEventType
  <2> QED
    BY <1>1, <1>5, <1>6, <2>1, <2>2 DEF Around
<1>9. ASSUME Reloads PROVE Around /\ Said
  <2>1. /\ UNCHANGED <<vars, provider, review, asked, toHost>> /\ doc.stage = "live"
        /\ reloads' \in 0 .. MaxReloads /\ doc' = NewDocument /\ toPage' = <<>>
    BY <1>1, <1>9, PageConstants DEF Reloads
  <2>2. NewDocument \in Document /\ NewDocument.stage = "loading" /\ NewDocument.awaits = 0
    BY Constants DEF NewDocument, Document
  <2> QED
    BY <1>1, <2>1, <2>2, EmptySeq DEF Around
<1>10. ASSUME NEW type \in BridgeEventType \ {"complete"}, doc.stage = "live", Says(type),
              type = "cancel" => provider = "mock"
       PROVE  Around /\ Said
  <2>1. Posts(<<Message(type, Absent)>>, doc) /\ UNCHANGED <<review, asked>>
    BY <1>10 DEF Says
  <2>2. <<Message(type, Absent)>> \in Seq(S)
    BY <1>2, <1>3, <1>10
  <2> QED
    BY <1>1, <1>6, <1>10, <2>1, <2>2 DEF Around
<1>11. ASSUME Tells PROVE Around /\ Said
  BY <1>10, <1>11 DEF Tells, BridgeEventType
<1>12. ASSUME Expires PROVE Around /\ Said
  <2> DEFINE d == [doc EXCEPT !.awaits = IF provider = "sumsub" THEN asked + 1 ELSE 0]
  <2>1. /\ doc.stage = "live" /\ asked < MaxRefreshes /\ asked' = asked + 1 /\ UNCHANGED review
        /\ Posts(<<Message("tokenExpired", Absent)>>, d)
    BY <1>12 DEF Expires
  <2>2. asked + 1 \in 0 .. MaxRefreshes /\ 0 \in 0 .. MaxRefreshes
    BY <1>1, <2>1, Constants
  <2>3. d \in Document /\ d.stage = "live" /\ (provider = "mock" => d.awaits = 0)
    BY <1>1, <2>1, <2>2 DEF Document
  <2>4. <<Message("tokenExpired", Absent)>> \in Seq(S)
    BY <1>2, <1>3 DEF BridgeEventType
  <2> HIDE DEF d
  <2> QED
    BY <1>1, <1>6, <2>1, <2>2, <2>3, <2>4 DEF Around
<1>13. ASSUME Clicks PROVE Around /\ Said
  <2>1. doc.stage = "live" /\ provider = "mock"
    BY <1>13 DEF Clicks
  <2>2. ASSUME NEW status \in {"approved", "declined"},
               Posts(<<Message("statusChanged", status), Message("complete", status)>>, doc),
               UNCHANGED <<review, asked>>
        PROVE  Around /\ Said
    <3>1. <<Message("statusChanged", status), Message("complete", status)>> \in Seq(S)
      BY <1>2, <1>4, <2>1 DEF BridgeEventType
    <3> QED
      BY <1>1, <1>6, <2>1, <2>2, <3>1 DEF Around
  <2> QED
    BY <1>10, <1>13, <2>1, <2>2 DEF Clicks, BridgeEventType
<1>14. ASSUME PageReceives PROVE Around /\ Said
  <2>1. /\ UNCHANGED <<vars, provider, review, asked, reloads, toHost>> /\ toPage # <<>>
        /\ toPage' = Tail(toPage) /\ doc' \in {doc, [doc EXCEPT !.awaits = 0]}
    BY <1>14 DEF PageReceives
  <2>2. [doc EXCEPT !.awaits = 0] \in Document /\ [doc EXCEPT !.awaits = 0].stage = doc.stage
        /\ [doc EXCEPT !.awaits = 0].awaits = 0
    BY <1>1, Constants DEF Document
  <2>3. doc.stage # "none"
    BY <2>1 DEF PageInv, PageShown
  <2>4. Tail(toPage) \in Seq(1 .. MaxRefreshes)
    BY <1>1, <2>1, HeadTailProperties
  <2> QED
    BY <1>1, <2>1, <2>2, <2>3, <2>4 DEF Around
<1> QED
  BY <1>7, <1>8, <1>9, <1>11, <1>12, <1>13, <1>14, AroundKeeps DEF S

\* A report of the SDK: what the page has said of the last review stays sayable,
\* as it completed nothing unless the review ended, and one that ended stays
LEMMA ReportKeeps ==
  ASSUME PageInv, NEW r \in Seen, Reports(r)
  PROVE  PageTypes' /\ PageShown' /\ OneScreen' /\ OutcomeIsSpoken'
<1> DEFINE S == Sayable(provider, review)
           T == Sayable(provider, r)
           said == <<Message("statusChanged", Lookup(r))>>
           completes == IF Lookup(r) \in Terminal THEN <<Message("complete", Lookup(r))>> ELSE <<>>
<1>1. /\ PageTypes /\ toHost \in Seq(S) /\ toPage \in Seq(1 .. MaxRefreshes) /\ doc \in Document
      /\ asked \in 0 .. MaxRefreshes /\ reloads \in 0 .. MaxReloads /\ review \in Seen \cup {NoReview}
  BY DEF PageInv, PageTypes
<1>2. /\ doc.stage = "live" /\ provider = "sumsub"
      /\ Ended => r = review
      /\ review' = r /\ UNCHANGED asked /\ Posts(said \o completes, doc)
  BY DEF Reports
<1>3. /\ r \in Review /\ r # NoReview /\ Lookup(r) \in Spoken
      /\ review # NoReview => Lookup(review) = MapStatus(review)
  BY <1>1, PageConstants, PageAndBackendAgree
<1>4. S \subseteq T
  BY <1>2, <1>3 DEF Sayable, Ended, Terminal
<1>5. said \o completes \in Seq(T)
  <2>1. Message("statusChanged", Lookup(r)) \in T
    BY <1>3, Incomplete DEF BridgeEventType
  <2>2. Lookup(r) \in Terminal => Message("complete", Lookup(r)) \in T
    BY <1>2, <1>3 DEF Sayable, Message, BridgeMessage, BridgeEventType
  <2> HIDE DEF T
  <2>3. said \in Seq(T) /\ completes \in Seq(T)
    BY <2>1, <2>2, EmptySeq
  <2> QED
    BY <2>3, ConcatProperties
<1> HIDE DEF said, completes, S, T
<1>6. toHost' \in Seq(T) /\ doc' = doc /\ UNCHANGED <<vars, provider, reloads, toPage>>
  BY <1>1, <1>2, <1>4, <1>5, PostsKeeps
<1>7. UNCHANGED <<machine, view, flights, mounted>> /\ Shown' = Shown /\ (UnderWay' <=> UnderWay)
  BY <1>6 DEF vars, runState, world, Shown, Embedded, UnderWay
<1>8. PageTypes'
  BY <1>1, <1>2, <1>6 DEF PageTypes, T
<1>9. PageShown'
  <2>1. Shown # 0
    BY <1>2 DEF PageInv, PageShown, NoDocument
  <2> QED
    BY <1>2, <1>6, <1>7, <2>1 DEF PageShown
<1>10. OneScreen'
  BY <1>7 DEF PageInv, OneScreen
<1>11. OutcomeIsSpoken'
  <2>1. ASSUME Shown # 0, machine.result # "none" PROVE r = review
    BY <1>2, <1>3, <2>1 DEF PageInv, OutcomeIsSpoken, Verdict, Ended
  <2> QED
    BY <1>2, <1>3, <1>6, <1>7, <2>1 DEF PageInv, OutcomeIsSpoken, Verdict
<1> QED
  BY <1>8, <1>9, <1>10, <1>11

-----------------------------------------------------------------------------
(* The theorems of the composition *)

LEMMA PageStepKeeps ==
  ASSUME PageInv, [PageNext]_allVars
  PROVE  PageInv'
<1>1. CASE PageNext
  <2>1. HookInv' /\ NothingAfterUnmount'
    BY <1>1, PageKeepsHook DEF PageInv, Keeps, NothingAfterUnmount
  <2>2. PageTypes' /\ PageShown' /\ OneScreen' /\ OutcomeIsSpoken'
    BY <1>1, HostKeeps, ReceiveKeeps, QuietPageKeeps, ReportKeeps
    DEF PageNext, HostStep, PageStep
  <2> QED
    BY <2>1, <2>2 DEF PageInv
<1>2. CASE UNCHANGED allVars
  <2>1. UNCHANGED vars /\ UNCHANGED pageVars
    BY <1>2 DEF allVars
  <2>2. HookInv' /\ NothingAfterUnmount'
    BY <2>1 DEF PageInv, HookInv, HookTypeOK, OneRun, NewestMayPost, NothingAfterUnmount, vars,
         runState, timerState, tokenState, world
  <2>3. /\ Shown' = Shown /\ (UnderWay' <=> UnderWay)
        /\ UNCHANGED <<machine, mounted, provider, review, doc, asked, reloads, toHost, toPage>>
    BY <2>1 DEF vars, pageVars, runState, world, Shown, Embedded, UnderWay
  <2>4. PageTypes' /\ PageShown' /\ OneScreen' /\ OutcomeIsSpoken'
    BY <2>3 DEF PageInv, PageTypes, PageShown, OneScreen, OutcomeIsSpoken
  <2> QED
    BY <2>2, <2>4 DEF PageInv
<1> QED
  BY <1>1, <1>2

LEMMA PageInitHolds == PageInit => PageInv
<1> SUFFICES ASSUME PageInit PROVE PageInv
  OBVIOUS
<1>1. HookInv /\ NothingAfterUnmount
  BY InitHolds DEF PageInit
<1>2. Shown = 0 /\ ~UnderWay /\ machine.result = "none"
  BY DEF PageInit, HookInit, Shown, Embedded, Embedding, UnderWay, Idle
<1>3. PageTypes
  BY Constants, PageConstants, EmptySeq DEF PageInit, PageTypes, NoDocument, Document
<1>4. PageShown /\ OneScreen /\ OutcomeIsSpoken
  BY <1>2 DEF PageInit, PageShown, OneScreen, OutcomeIsSpoken
<1> QED
  BY <1>1, <1>3, <1>4 DEF PageInv

THEOREM PageInvHolds == PageSpec => []PageInv
BY PageInitHolds, PageStepKeeps, PTL DEF PageSpec

\* Page and hook keep their types: a document is on screen exactly while the
\* component embeds one, and messages travel only to and from one (Leaves,
\* PageFollows).
THEOREM PageTypesHold == PageSpec => []PageTypeOK
<1>1. PageInv => PageTypeOK
  <2> SUFFICES ASSUME PageInv PROVE PageTypeOK
    OBVIOUS
  <2>1. toHost \in Seq(BridgeMessage)
    BY SayableIsMessage, SeqMonotonic DEF PageInv, PageTypes
  <2>2. (doc.stage = "none") <=> Embedded(view, mounted) = 0
    BY DEF PageInv, PageShown, Shown, NoDocument
  <2> QED
    BY <2>1, <2>2 DEF PageInv, PageTypes, PageShown, PageTypeOK, Shown, NoDocument
<1> QED
  BY <1>1, PageInvHolds, PTL

\* The outcome the host holds is the verdict the backend stores, however the
\* page's messages, the user's restarts and the runs' awaits interleave.
THEOREM OutcomeHolds == PageSpec => []OutcomeIsTheVerdict
<1>1. PageInv => OutcomeIsTheVerdict
  <2> SUFFICES ASSUME PageInv, review # NoReview PROVE OutcomeIsTheVerdict
    BY DEF OutcomeIsTheVerdict
  <2>1. review \in Review /\ provider = "sumsub" /\ Shown # 0
    BY PageConstants DEF PageInv, PageTypes, PageShown
  <2>2. Lookup(review) = Backend(review)
    BY <2>1, PageAndBackendAgree
  <2> QED
    BY <2>1, <2>2 DEF PageInv, OutcomeIsSpoken, OutcomeIsTheVerdict, Verdict, Shown
<1> QED
  BY <1>1, PageInvHolds, PTL

\* Whatever a page posts, and whenever it is heard, the hook around it keeps its
\* promises: the newest run's session wins (begin, runningRef).
THEOREM NewestWinsOverPage == PageSpec => NewestSessionWins
<1>1. PageInv /\ [PageNext]_allVars => [machine'.session \in {0, machine.session, runs}]_vars
  BY PageKeepsHook DEF PageInv, Keeps, allVars
<1> QED
  BY <1>1, PageInvHolds, PTL DEF PageSpec, NewestSessionWins

\* A page is given tokens in the order they were asked in, and of its own
\* session (useTokenRefresh).
THEOREM TokensFollowOnPage == PageSpec => TokensInOrder
<1>1. PageInv /\ [PageNext]_allVars =>
        [token' # token => token'.seq > token.seq /\ token'.session = machine.session]_vars
  BY PageKeepsHook DEF PageInv, Keeps, allVars
<1> QED
  BY <1>1, PageInvHolds, PTL DEF PageSpec, TokensInOrder

\* Nothing a page posts reaches the host of an unmounted component (mountedRef).
THEOREM UnmountedPageIsSilent == PageSpec => []NothingAfterUnmount
<1>1. PageInv => NothingAfterUnmount
  BY DEF PageInv
<1> QED
  BY <1>1, PageInvHolds, PTL

-----------------------------------------------------------------------------
(* What is on its way while the host hears of no failure *)

Unfailed == heard # "error"

\* The states of a machine whose page stands
Standing == {"verifying", "pending", "success", "offline"}

\* The machine is in the session on screen: no step but a failure takes it out
\* of a session whose page the component keeps
FlowGoesOn ==
  Linked /\ provider = "sumsub" /\ Shown # 0 =>
    machine.session = Shown /\ machine.status \in Standing

\* A document that is loaded anew awaits no token
AwaitsLive == doc.awaits # 0 => doc.stage = "live"

ComingInv == FlowGoesOn /\ AwaitsLive /\ TokenIsComing /\ VerdictIsComing

\* A message of that type is on its way to the host
OnItsWay(type) == \E i \in DOMAIN toHost : toHost[i].type = type

\* Whatever the host takes, the others stay on their way
LEMMA OthersStay ==
  ASSUME PageTypes, toHost # <<>>, toHost' = Tail(toHost), NEW type,
         OnItsWay(type), Head(toHost).type # type
  PROVE  OnItsWay(type)'
<1>1. PICK i \in DOMAIN toHost : toHost[i].type = type
  BY DEF OnItsWay
<1>2. toHost \in Seq(Sayable(provider, review))
  BY DEF PageTypes
<1>3. i \in 1 .. Len(toHost) /\ i # 1
  BY <1>1, <1>2
<1>4. i - 1 \in DOMAIN Tail(toHost) /\ Tail(toHost)[i - 1] = toHost[i]
  BY <1>2, <1>3
<1> QED
  BY <1>1, <1>4 DEF OnItsWay

\* And whatever the page posts; what it posts is on its way too
LEMMA PostedIsOnItsWay ==
  ASSUME PageTypes, Hears, NEW msgs \in Seq(BridgeMessage), NEW d, Posts(msgs, d)
  PROVE  /\ \A type : OnItsWay(type) => OnItsWay(type)'
         /\ \A j \in DOMAIN msgs : OnItsWay(msgs[j].type)'
<1>1. toHost' = toHost \o msgs /\ toHost \in Seq(Sayable(provider, review))
  BY DEF Posts, PageTypes
<1>2. ASSUME NEW type, OnItsWay(type) PROVE OnItsWay(type)'
  <2>1. PICK i \in DOMAIN toHost : toHost[i].type = type
    BY <1>2 DEF OnItsWay
  <2>2. i \in DOMAIN (toHost \o msgs) /\ (toHost \o msgs)[i] = toHost[i]
    BY <1>1, <2>1
  <2> QED
    BY <1>1, <2>1, <2>2 DEF OnItsWay
<1>3. ASSUME NEW j \in DOMAIN msgs PROVE OnItsWay(msgs[j].type)'
  <2>1. /\ Len(toHost) + j \in DOMAIN (toHost \o msgs)
        /\ (toHost \o msgs)[Len(toHost) + j] = msgs[j]
    BY <1>1, <1>3
  <2> QED
    BY <1>1, <2>1 DEF OnItsWay
<1> QED
  BY <1>2, <1>3

\* An event that is no failure leaves a machine that stands in its session, and
\* its outcome, if it brings none
LEMMA HeardWell ==
  ASSUME machine \in Machine, machine.status \in Standing,
         NEW e \in PageEvent \ {"cancel", "denied"}, HandleEvent(e), heard' # "error"
  PROVE  /\ mounted /\ machine'.session = machine.session /\ machine'.status \in Standing
         /\ machine'.result = IF e \in {"approved", "rejected"} THEN e ELSE machine.result
<1>1. CASE e = "tokenExpired"
  BY <1>1 DEF HandleEvent, AsksForToken, Quiet, FailWith
<1>2. CASE e # "tokenExpired"
  <2>1. mounted /\ machine' = PlannedAction(e) /\ PlannedCallback(e) # "error"
    BY <1>2 DEF HandleEvent
  <2>2. e \in {"applicantLoaded", "submitted", "progress", "approved", "rejected"}
    BY <1>2, <2>1 DEF PlannedCallback, PageEvent
  <2>3. CASE e = "applicantLoaded"
    BY <2>1, <2>3 DEF PlannedAction, Applicant, Machine
  <2>4. CASE e = "submitted"
    BY <2>1, <2>4 DEF PlannedAction, AwaitReview, Machine, Standing
  <2>5. CASE e = "progress"
    BY <2>1, <2>5 DEF PlannedAction
  <2>6. CASE e \in {"approved", "rejected"}
    <3>1. machine' = Outcome(machine, e)
      BY <2>1, <2>6 DEF PlannedAction
    <3> QED
      BY <2>1, <2>6, <3>1 DEF Outcome, Machine, Standing
  <2> QED
    BY <2>2, <2>3, <2>4, <2>5, <2>6
<1> QED
  BY <1>1, <1>2

\* A step of the host leaves a page on screen, in the machine's session and with
\* the machine's outcome, unless it takes it off or fails
LEMMA HostGoesOn ==
  ASSUME PageInv, FlowGoesOn, Linked, provider = "sumsub", HostStep, heard' # "error", Shown' # 0
  PROVE  /\ mounted' /\ machine'.session = Shown' /\ machine'.status \in Standing
         /\ Shown' = Shown => machine'.result = machine.result
<1>1. HookInv /\ OneScreen /\ machine \in Machine /\ ~Launches
  BY DEF PageInv, HookInv, HookTypeOK, Linked
<1>2. mounted'
  BY DEF Shown, Embedded
<1>3. ~(Start \/ Restart \/ Cancel \/ Unmount)
  <2>1. ~(Start \/ Restart)
    BY BeginHides
  <2>2. ~Cancel
    BY PageConstants DEF Cancel, Commits, Idle, Shown, Embedded, Embedding
  <2>3. ~Unmount
    BY <1>2 DEF Unmount
  <2> QED
    BY <2>1, <2>2, <2>3
<1>4. CASE Render
  <2>1. view' = machine /\ machine' = machine
    BY <1>4 DEF Render, Quiet
  <2>2. machine.status \in Embedding /\ Shown' = machine.session
    BY <2>1 DEF Shown, Embedded
  <2> QED
    BY <1>2, <2>1, <2>2 DEF Embedding, Standing
<1>5. ASSUME NEW r \in Run,
             CheckPermissions(r) \/ ProbeConnection(r) \/ StartSettles(r) \/ Abandons(r)
      PROVE  FALSE
  <2>1. flights[r] # "none" /\ UNCHANGED <<view, mounted>>
    BY <1>5 DEF CheckPermissions, ProbeConnection, StartSettles, Abandons, world
  <2>2. Shown = 0
    BY <1>1, <2>1 DEF OneScreen, UnderWay
  <2> QED
    BY <2>1, <2>2 DEF Shown, Embedded
<1>6. CASE GoOffline \/ GoOnline \/ RefreshSettles \/ \E t \in timers : TimerFires(t)
  <2>1. /\ UNCHANGED <<view, mounted>>
        /\ machine' \in {machine, Offline(machine)}
    <3>1. CASE GoOffline \/ GoOnline
      BY <3>1 DEF GoOffline, GoOnline, Quiet
    <3>2. ASSUME NEW t \in timers, TimerFires(t)
          PROVE  UNCHANGED <<view, mounted>> /\ machine' = machine
      BY <3>2 DEF TimerFires, world
    <3>3. ASSUME NEW q \in refreshes, RefreshAnswers(q) \/ RefreshFails(q)
          PROVE  UNCHANGED <<view, mounted>> /\ machine' = machine
      BY <3>3 DEF RefreshAnswers, RefreshFails, world, Quiet, FailWith
    <3> QED
      BY <1>6, <3>1, <3>2, <3>3 DEF RefreshSettles
  <2>2. Shown' = Shown
    BY <2>1 DEF Shown, Embedded
  <2>3. machine.session = Shown /\ machine.status \in Standing
    BY <2>2 DEF FlowGoesOn
  <2>4. /\ Offline(machine).session = machine.session /\ Offline(machine).result = machine.result
        /\ Offline(machine).status \in Standing
    BY <1>1 DEF Offline, Machine, Standing
  <2> QED
    BY <1>2, <2>1, <2>2, <2>3, <2>4
<1> QED
  BY <1>3, <1>4, <1>5, <1>6 DEF HostStep

\* A refresh that may post is answered with a token for the page, and no other
\* step of the host answers one
LEMMA HostBringsToken ==
  ASSUME PageInv, FlowGoesOn, Linked, HostStep, PageFollows, heard' # "error",
         Shown' = Shown, Shown # 0, doc # NoDocument, provider = "sumsub",
         NEW q \in refreshes, MayPost(q)
  PROVE  toPage' # <<>> \/ \E p \in refreshes' : MayPost(p)'
<1>1. mounted' /\ machine'.session = Shown /\ machine.session = Shown
  BY HostGoesOn DEF FlowGoesOn
<1>2. q.seq = seq /\ q.session = machine.session
  BY DEF MayPost
<1>3. ASSUME q \in refreshes', seq' = seq PROVE \E p \in refreshes' : MayPost(p)'
  BY <1>1, <1>2, <1>3 DEF MayPost
<1>4. CASE UNCHANGED tokenState
  BY <1>3, <1>4 DEF tokenState
<1>5. ASSUME NEW p \in refreshes, RefreshAnswers(p), p # q PROVE q \in refreshes' /\ seq' = seq
  BY <1>5 DEF RefreshAnswers
<1>6. CASE RefreshAnswers(q)
  <2>1. token' = q
    BY <1>6 DEF RefreshAnswers, Shown, Embedded
  <2>2. token.seq < seq
    BY <1>2 DEF PageInv, HookInv, NewestMayPost
  <2>3. token.seq \in Nat /\ seq \in Nat
    BY Constants DEF PageInv, HookInv, HookTypeOK, Refresh
  <2>4. token' # token
    BY <1>2, <2>1, <2>2, <2>3
  <2>5. Stays /\ (Native \/ PostsToken(Served))
    BY DEF Stays, Shown, Linked
  <2>6. toPage' = Append(toPage, token'.seq)
    BY <2>4, <2>5 DEF PageFollows
  <2>7. toPage \in Seq(1 .. MaxRefreshes)
    BY DEF PageInv, PageTypes
  <2>8. Len(toPage') = Len(toPage) + 1 /\ Len(toPage) \in Nat
    BY <2>6, <2>7
  <2>9. toPage' # <<>>
    BY <2>8, EmptySeq
  <2> QED
    BY <2>9
<1>7. ASSUME NEW p \in refreshes, RefreshFails(p) PROVE q \in refreshes' /\ seq' = seq
  <2>1. p.seq # seq
    BY <1>1, <1>7 DEF RefreshFails, FailWith, world
  <2> QED
    BY <1>2, <1>7, <2>1 DEF RefreshFails
<1>8. RefreshSettles \/ UNCHANGED tokenState
  <2>1. Start \/ Restart \/ Cancel \/ Unmount \/ Render \/ GoOffline \/ GoOnline => UNCHANGED tokenState
    BY DEF Start, Restart, Begin, Cancel, Unmount, Render, GoOffline, GoOnline
  <2>2. ASSUME NEW r \in Run,
               CheckPermissions(r) \/ ProbeConnection(r) \/ StartSettles(r) \/ Abandons(r)
        PROVE  UNCHANGED tokenState
    BY <2>2 DEF CheckPermissions, ProbeConnection, StartSettles, Abandons
  <2>3. ASSUME NEW t \in timers, TimerFires(t) PROVE UNCHANGED tokenState
    BY <2>3 DEF TimerFires
  <2> QED
    BY <2>1, <2>2, <2>3 DEF HostStep
<1> QED
  BY <1>3, <1>4, <1>5, <1>6, <1>7, <1>8 DEF RefreshSettles

LEMMA HostKeepsComing ==
  ASSUME PageInv, ComingInv, HostStep, PageFollows, heard' # "error"
  PROVE  ComingInv'
<1>1. Stays <=> Shown' = Shown
  BY DEF Stays, Shown
<1>2. provider' = provider /\ (Linked' <=> Linked)
  BY DEF PageFollows, Linked, Hears
<1>3. FlowGoesOn'
  BY <1>2, HostGoesOn DEF ComingInv, FlowGoesOn
<1>4. CASE ~Stays
  <2>1. doc'.awaits = 0 /\ review' = NoReview
    BY <1>4 DEF PageFollows, Leaves, NoDocument, NewDocument
  <2> QED
    BY <1>3, <2>1 DEF ComingInv, AwaitsLive, TokenIsComing, VerdictIsComing
<1>5. CASE Stays
  <2>1. UNCHANGED <<doc, toHost, review>> /\ Shown' = Shown
    BY <1>1, <1>5 DEF PageFollows, Leaves
  <2>2. AwaitsLive'
    BY <2>1 DEF ComingInv, AwaitsLive
  <2>3. TokenIsComing'
    <3>1. SUFFICES ASSUME Linked, doc.awaits # 0
                   PROVE  \/ \E i \in DOMAIN toHost' : toHost'[i].type = "tokenExpired"
                          \/ \E p \in refreshes' : MayPost(p)'
                          \/ toPage' # <<>>
      BY <1>2, <2>1 DEF TokenIsComing
    <3>2. doc # NoDocument /\ Shown # 0 /\ provider = "sumsub"
      BY <3>1 DEF PageInv, PageShown, PageTypes, NoDocument
    <3>3. CASE \E q \in refreshes : MayPost(q)
      BY <2>1, <3>1, <3>2, <3>3, HostBringsToken DEF ComingInv
    <3>4. CASE toPage # <<>>
      <4>1. toPage' = toPage \/ toPage' = Append(toPage, token'.seq)
        BY <1>5 DEF PageFollows
      <4>2. PICK n : n = token'.seq
        OBVIOUS
      <4>3. toPage \in Seq(1 .. MaxRefreshes)
        BY DEF PageInv, PageTypes
      <4>4. Append(toPage, n) # <<>>
        BY <4>3
      <4> QED
        BY <3>4, <4>1, <4>2, <4>4
    <3>5. CASE \E i \in DOMAIN toHost : toHost[i].type = "tokenExpired"
      BY <2>1, <3>5
    <3> QED
      BY <3>1, <3>3, <3>4, <3>5 DEF ComingInv, TokenIsComing
  <2>4. VerdictIsComing'
    <3>1. SUFFICES ASSUME Linked, review # NoReview
                   PROVE  machine'.result = machine.result
      BY <1>2, <2>1 DEF ComingInv, VerdictIsComing
    <3>2. Shown # 0 /\ provider = "sumsub"
      BY <3>1 DEF PageInv, PageShown, PageTypes
    <3> QED
      BY <2>1, <3>1, <3>2, HostGoesOn DEF ComingInv
  <2> QED
    BY <1>3, <2>2, <2>3, <2>4 DEF ComingInv
<1> QED
  BY <1>4, <1>5

\* A message the host takes asks for the token or brings the outcome, or leaves
\* both as they are
LEMMA ReceiveKeepsComing ==
  ASSUME PageInv, ComingInv, HostReceives, heard' # "error"
  PROVE  ComingInv'
<1> DEFINE m == Head(toHost)
<1>1. /\ toHost # <<>> /\ HandleEvent(Interpreted(m)) /\ toHost' = Tail(toHost)
      /\ UNCHANGED <<view, mounted, provider, review, doc, toPage>>
  BY DEF HostReceives, world
<1>2. m \in Sayable(provider, review) /\ m \in BridgeMessage /\ PageTypes
  BY <1>1, HeadIsSaid DEF PageInv
<1>3. Shown # 0 /\ Shown' = Shown
  BY <1>1 DEF PageInv, PageShown, Shown, Embedded
<1>4. AwaitsLive' /\ (Linked' <=> Linked)
  BY <1>1 DEF ComingInv, AwaitsLive, Linked, Hears
<1>5. CASE provider = "sumsub" /\ Linked
  <2>1. Interpreted(m) \in PageEvent \ {"cancel", "denied"}
    <3>1. m.type # "cancel"
      BY <1>2, <1>5 DEF Sayable
    <3> QED
      BY <1>2, <3>1 DEF Interpreted, BridgeMessage, BridgeEventType, PageEvent
  <2>2. /\ Interpreted(m) = "tokenExpired" <=> m.type = "tokenExpired"
        /\ Interpreted(m) \in {"approved", "rejected"} <=> m.type = "complete"
    BY <1>2 DEF Interpreted, BridgeMessage, BridgeEventType
  <2>3. machine \in Machine /\ machine.session = Shown /\ machine.status \in Standing
    BY <1>3, <1>5 DEF PageInv, HookInv, HookTypeOK, ComingInv, FlowGoesOn
  <2> DEFINE e == Interpreted(m)
  <2>4. HandleEvent(e) /\ e \in PageEvent \ {"cancel", "denied"}
    BY <1>1, <2>1
  <2> HIDE DEF e
  <2>5. /\ mounted /\ machine'.session = machine.session /\ machine'.status \in Standing
        /\ machine'.result = IF e \in {"approved", "rejected"} THEN e ELSE machine.result
    BY <2>3, <2>4, HeardWell
  <2>6. e = "tokenExpired" <=> m.type = "tokenExpired"
    BY <2>2 DEF e
  <2>7. e \in {"approved", "rejected"} <=> m.type = "complete"
    BY <2>2 DEF e
  <2> HIDE DEF m
  <2>8. FlowGoesOn'
    BY <1>3, <2>3, <2>5 DEF FlowGoesOn
  <2>9. TokenIsComing'
    <3>1. SUFFICES ASSUME doc.awaits # 0
                   PROVE  \/ OnItsWay("tokenExpired")'
                          \/ \E p \in refreshes' : MayPost(p)'
                          \/ toPage' # <<>>
      BY <1>1 DEF TokenIsComing, OnItsWay
    <3>2. CASE m.type = "tokenExpired"
      <4>1. /\ seq' = seq + 1
            /\ [seq |-> seq + 1, session |-> machine.session] \in refreshes'
        BY <2>3, <2>4, <2>6, <3>2 DEF HandleEvent, AsksForToken, FailWith
      <4> QED
        BY <1>1, <1>3, <2>3, <2>5, <4>1 DEF MayPost
    <3>3. CASE m.type # "tokenExpired" /\ \E q \in refreshes : MayPost(q)
      <4>1. UNCHANGED <<refreshes, seq>>
        BY <2>4, <2>6, <3>3 DEF HandleEvent
      <4> QED
        BY <1>1, <2>5, <3>3, <4>1 DEF MayPost
    <3>4. CASE m.type # "tokenExpired" /\ OnItsWay("tokenExpired")
      BY <1>1, <1>2, <3>4, OthersStay DEF m
    <3>5. CASE toPage # <<>>
      BY <1>1, <3>5
    <3> QED
      BY <1>5, <3>1, <3>2, <3>3, <3>4, <3>5 DEF ComingInv, TokenIsComing, OnItsWay
  <2>10. VerdictIsComing'
    <3>1. SUFFICES ASSUME review # NoReview, Backend(review) \in {"approved", "finallyRejected"}
                   PROVE  machine'.result # "none" \/ OnItsWay("complete")'
      BY <1>1 DEF VerdictIsComing, OnItsWay
    <3>2. CASE m.type = "complete"
      BY <2>5, <2>7, <3>2
    <3>3. CASE m.type # "complete" /\ OnItsWay("complete")
      BY <1>1, <1>2, <3>3, OthersStay DEF m
    <3>4. CASE m.type # "complete" /\ machine.result # "none"
      BY <2>5, <2>7, <3>4
    <3> QED
      BY <1>5, <3>1, <3>2, <3>3, <3>4 DEF ComingInv, VerdictIsComing, OnItsWay
  <2> QED
    BY <1>4, <2>8, <2>9, <2>10 DEF ComingInv
<1>6. CASE provider # "sumsub" \/ ~Linked
  <2>1. provider # "sumsub" => doc.awaits = 0 /\ review = NoReview
    BY <1>2 DEF PageTypes
  <2> QED
    BY <1>1, <1>4, <1>6, <2>1 DEF ComingInv, FlowGoesOn, TokenIsComing, VerdictIsComing
<1> QED
  BY <1>5, <1>6

\* A step of the page that awaits no other token, or asks for it, and leaves the
\* review or tells how it ended
LEMMA PageKeepsComing ==
  ASSUME PageInv, ComingInv, UNCHANGED vars, UNCHANGED provider, AwaitsLive',
         Linked => \A type : OnItsWay(type) => OnItsWay(type)',
         Linked /\ doc'.awaits # 0 => \/ doc'.awaits = doc.awaits /\ toPage' = toPage
                                      \/ OnItsWay("tokenExpired")',
         \/ UNCHANGED review
         \/ /\ Linked /\ review' # NoReview /\ Backend(review') \in {"approved", "finallyRejected"}
              => OnItsWay("complete")'
  PROVE  ComingInv'
<1>1. /\ UNCHANGED <<machine, view, mounted, refreshes, seq>> /\ Shown' = Shown
      /\ Linked' <=> Linked
  BY DEF vars, tokenState, world, Shown, Embedded, Linked, Hears
<1>2. FlowGoesOn'
  BY <1>1 DEF ComingInv, FlowGoesOn
<1>3. TokenIsComing'
  <2>1. SUFFICES ASSUME Linked, doc'.awaits # 0
                 PROVE  \/ OnItsWay("tokenExpired")'
                        \/ \E p \in refreshes' : MayPost(p)'
                        \/ toPage' # <<>>
    BY <1>1 DEF TokenIsComing, OnItsWay
  <2>2. CASE doc'.awaits = doc.awaits /\ toPage' = toPage
    <3>1. \/ OnItsWay("tokenExpired") \/ (\E q \in refreshes : MayPost(q)) \/ toPage # <<>>
      BY <2>1, <2>2 DEF ComingInv, TokenIsComing, OnItsWay
    <3>2. (\E q \in refreshes : MayPost(q)) => \E p \in refreshes' : MayPost(p)'
      BY <1>1 DEF MayPost
    <3> QED
      BY <2>1, <2>2, <3>1, <3>2
  <2> QED
    BY <2>1, <2>2
<1>4. VerdictIsComing'
  <2>1. SUFFICES ASSUME Linked, review' # NoReview,
                        Backend(review') \in {"approved", "finallyRejected"}
                 PROVE  machine'.result # "none" \/ OnItsWay("complete")'
    BY <1>1 DEF VerdictIsComing, OnItsWay, Backend, WebhookOf
  <2>2. CASE UNCHANGED review
    <3>1. machine.result # "none" \/ OnItsWay("complete")
      BY <2>1, <2>2 DEF ComingInv, VerdictIsComing, OnItsWay
    <3> QED
      BY <1>1, <2>1, <3>1
  <2> QED
    BY <2>1, <2>2
<1> QED
  BY <1>2, <1>3, <1>4 DEF ComingInv

\* What the pages post are messages of the bridge
LEMMA PostedMessages ==
  /\ \A type \in BridgeEventType, status \in Spoken \cup {Absent} :
       /\ Message(type, status) \in BridgeMessage /\ Message(type, status).type = type
       /\ <<Message(type, status)>> \in Seq(BridgeMessage)
  /\ NotFound \in Seq(BridgeMessage) /\ <<>> \in Seq(BridgeMessage)
<1>1. \A type \in BridgeEventType, status \in Spoken \cup {Absent} :
        Message(type, status) \in BridgeMessage /\ Message(type, status).type = type
  BY DEF Message, BridgeMessage
<1>2. \A x \in BridgeMessage : <<x>> \in Seq(BridgeMessage)
  OBVIOUS
<1>3. NotFound \in Seq(BridgeMessage)
  <2>1. PICK e, x \in BridgeMessage : e = Message("error", Absent) /\ x = Message("sessionExpired", Absent)
    BY <1>1 DEF BridgeEventType
  <2>2. NotFound = (IF Native THEN <<e>> ELSE <<>>) \o <<x>>
    BY <2>1 DEF NotFound
  <2>3. <<e>> \in Seq(BridgeMessage) /\ <<>> \in Seq(BridgeMessage) /\ <<x>> \in Seq(BridgeMessage)
    BY <1>2, EmptySeq
  <2> QED
    BY <2>2, <2>3, ConcatProperties
<1> QED
  BY <1>1, <1>2, <1>3, EmptySeq

\* A post that leaves what the document awaits, and the review
LEMMA PostKeepsComing ==
  ASSUME PageInv, ComingInv, NEW msgs \in Seq(BridgeMessage), NEW d, Posts(msgs, d),
         UNCHANGED review, d.awaits = doc.awaits, d.awaits # 0 => d.stage = "live"
  PROVE  ComingInv'
<1>1. UNCHANGED <<vars, provider, toPage>> /\ doc' = d
  BY DEF Posts
<1>2. Linked => \A type : OnItsWay(type) => OnItsWay(type)'
  BY PostedIsOnItsWay DEF PageInv, Linked
<1>3. AwaitsLive'
  BY <1>1 DEF AwaitsLive
<1> QED
  BY <1>1, <1>2, <1>3, PageKeepsComing

LEMMA PageStepKeepsComing ==
  ASSUME PageInv, ComingInv, PageStep
  PROVE  ComingInv'
<1>1. doc \in Document /\ PageTypes /\ AwaitsLive
  BY DEF PageInv, PageTypes, ComingInv
<1>2. /\ [doc EXCEPT !.stage = "live"].awaits = doc.awaits
      /\ [doc EXCEPT !.stage = "dead"].awaits = doc.awaits
      /\ [doc EXCEPT !.stage = "live"].stage = "live"
  BY <1>1 DEF Document
<1>3. CASE Loads \/ LoadFails
  <2>1. doc.stage = "loading" /\ doc.awaits = 0 /\ UNCHANGED review
    BY <1>1, <1>3 DEF Loads, LoadFails, AwaitsLive
  <2>2. \E msgs \in Seq(BridgeMessage),
           d \in {[doc EXCEPT !.stage = "live"], [doc EXCEPT !.stage = "dead"]} : Posts(msgs, d)
    <3>1. /\ <<Message("statusChanged", "incomplete")>> \in Seq(BridgeMessage)
          /\ <<Message("applicantLoaded", Absent)>> \in Seq(BridgeMessage)
          /\ <<Message("error", Absent)>> \in Seq(BridgeMessage)
          /\ NotFound \in Seq(BridgeMessage) /\ <<>> \in Seq(BridgeMessage)
      BY PostedMessages DEF BridgeEventType, Spoken
    <3> QED
      BY <1>3, <3>1 DEF Loads, LoadFails
  <2> QED
    BY <1>2, <2>1, <2>2, PostKeepsComing
<1>4. CASE Reloads
  <2>1. UNCHANGED <<vars, provider, review, toHost>> /\ doc'.awaits = 0
    BY <1>4 DEF Reloads, NewDocument
  <2>2. AwaitsLive' /\ \A type : OnItsWay(type) => OnItsWay(type)'
    BY <2>1 DEF AwaitsLive, OnItsWay
  <2> QED
    BY <2>1, <2>2, PageKeepsComing
<1>5. ASSUME NEW type \in BridgeEventType, Says(type), doc.stage = "live" PROVE ComingInv'
  BY <1>1, <1>5, PostedMessages, PostKeepsComing DEF Says, AwaitsLive
<1>6. CASE Tells
  BY <1>5, <1>6 DEF Tells, BridgeEventType
<1>7. CASE Expires
  <2> DEFINE d == [doc EXCEPT !.awaits = IF provider = "sumsub" THEN asked + 1 ELSE 0]
             msgs == <<Message("tokenExpired", Absent)>>
  <2>1. doc.stage = "live" /\ Posts(msgs, d) /\ UNCHANGED review
    BY <1>7 DEF Expires
  <2>2. d.stage = "live"
    BY <1>1, <2>1 DEF Document
  <2>3. msgs \in Seq(BridgeMessage) /\ 1 \in DOMAIN msgs /\ msgs[1].type = "tokenExpired"
    BY PostedMessages DEF BridgeEventType
  <2> HIDE DEF d, msgs
  <2>4. UNCHANGED <<vars, provider>> /\ doc' = d
    BY <2>1 DEF Posts
  <2>5. Linked => \A type : OnItsWay(type) => OnItsWay(type)'
    BY <1>1, <2>1, <2>3, PostedIsOnItsWay DEF Linked
  <2>6. Linked => OnItsWay("tokenExpired")'
    BY <1>1, <2>1, <2>3, PostedIsOnItsWay DEF Linked
  <2>7. AwaitsLive'
    BY <2>2, <2>4 DEF AwaitsLive
  <2> QED
    BY <2>1, <2>4, <2>5, <2>6, <2>7, PageKeepsComing
<1>8. CASE Clicks
  <2>1. ASSUME NEW status \in {"approved", "declined"},
               Posts(<<Message("statusChanged", status), Message("complete", status)>>, doc),
               UNCHANGED review
        PROVE  ComingInv'
    <3>1. PICK x, y \in BridgeMessage :
            x = Message("statusChanged", status) /\ y = Message("complete", status)
      BY PostedMessages DEF BridgeEventType, Spoken
    <3>2. <<x, y>> \in Seq(BridgeMessage) /\ Posts(<<x, y>>, doc)
      BY <2>1, <3>1
    <3> QED
      BY <1>1, <2>1, <3>2, PostKeepsComing DEF AwaitsLive
  <2> QED
    BY <1>5, <1>8, <2>1 DEF Clicks, BridgeEventType
<1>9. CASE PageReceives
  <2>1. UNCHANGED <<vars, provider, review, toHost>>
    BY <1>9 DEF PageReceives
  <2>2. doc'.awaits = 0
    BY <1>1, <1>9 DEF PageReceives, ReadsToken, TokenForm, AwaitsLive, Document
  <2>3. AwaitsLive' /\ \A type : OnItsWay(type) => OnItsWay(type)'
    BY <2>1, <2>2 DEF AwaitsLive, OnItsWay
  <2> QED
    BY <2>1, <2>2, <2>3, PageKeepsComing
<1>10. ASSUME NEW r \in Seen, Reports(r) PROVE ComingInv'
  <2> DEFINE said == <<Message("statusChanged", Lookup(r))>>
             completes == IF Lookup(r) \in Terminal THEN <<Message("complete", Lookup(r))>> ELSE <<>>
             msgs == said \o completes
  <2>1. Posts(msgs, doc) /\ review' = r /\ UNCHANGED <<vars, provider, toPage>> /\ doc' = doc
    BY <1>10 DEF Reports, Posts
  <2>2. Lookup(r) \in Spoken /\ Lookup(r) = Backend(r)
    BY PageConstants, PageAndBackendAgree
  <2>3. said \in Seq(BridgeMessage) /\ completes \in Seq(BridgeMessage)
    BY <2>2, PostedMessages DEF BridgeEventType
  <2>4. ASSUME Lookup(r) \in Terminal PROVE \E j \in DOMAIN msgs : msgs[j].type = "complete"
    <3>1. PICK x, y \in BridgeMessage :
            x = Message("statusChanged", Lookup(r)) /\ y = Message("complete", Lookup(r))
      BY <2>2, PostedMessages DEF BridgeEventType
    <3>2. msgs = <<x>> \o <<y>>
      BY <2>4, <3>1
    <3>3. 2 \in DOMAIN (<<x>> \o <<y>>) /\ (<<x>> \o <<y>>)[2] = y
      OBVIOUS
    <3>4. y.type = "complete"
      BY <3>1 DEF Message
    <3> QED
      BY <3>2, <3>3, <3>4
  <2> HIDE DEF said, completes
  <2>5. msgs \in Seq(BridgeMessage)
    BY <2>3, ConcatProperties
  <2> HIDE DEF msgs
  <2>6. Linked => \A type : OnItsWay(type) => OnItsWay(type)'
    BY <1>1, <2>1, <2>5, PostedIsOnItsWay DEF Linked
  <2>7. Linked /\ Backend(r) \in {"approved", "finallyRejected"} => OnItsWay("complete")'
    <3>1. SUFFICES ASSUME Linked, Backend(r) \in {"approved", "finallyRejected"}
                   PROVE  OnItsWay("complete")'
      OBVIOUS
    <3>2. PICK j \in DOMAIN msgs : msgs[j].type = "complete"
      BY <2>2, <2>4, <3>1 DEF Terminal
    <3>3. OnItsWay(msgs[j].type)'
      BY <1>1, <2>1, <2>5, <3>1, <3>2, PostedIsOnItsWay DEF Linked
    <3> QED
      BY <3>2, <3>3
  <2>8. AwaitsLive'
    BY <1>1, <2>1 DEF AwaitsLive
  <2> QED
    BY <2>1, <2>6, <2>7, <2>8, PageKeepsComing
<1> QED
  BY <1>3, <1>4, <1>6, <1>7, <1>8, <1>9, <1>10 DEF PageStep

LEMMA StepKeepsComing ==
  ASSUME PageInv, ComingInv, [PageNext]_allVars, Unfailed'
  PROVE  ComingInv'
<1>1. heard' # "error"
  BY DEF Unfailed
<1>2. CASE PageNext
  BY <1>1, <1>2, HostKeepsComing, ReceiveKeepsComing, PageStepKeepsComing DEF PageNext, HostStep
<1>3. CASE UNCHANGED allVars
  <2>1. UNCHANGED <<vars, provider, review, doc, toHost, toPage>>
    BY <1>3 DEF allVars, pageVars
  <2>2. AwaitsLive' /\ \A type : OnItsWay(type) => OnItsWay(type)'
    BY <2>1 DEF ComingInv, AwaitsLive, OnItsWay
  <2> QED
    BY <2>1, <2>2, PageKeepsComing
<1> QED
  BY <1>2, <1>3

LEMMA ComingInitHolds == PageInit => ComingInv
<1> SUFFICES ASSUME PageInit PROVE ComingInv
  OBVIOUS
<1>1. doc.awaits = 0 /\ review = NoReview /\ Shown = 0
  BY DEF PageInit, HookInit, NoDocument, Shown, Embedded, Embedding, Idle
<1> QED
  BY <1>1 DEF ComingInv, FlowGoesOn, AwaitsLive, TokenIsComing, VerdictIsComing

LEMMA ComingHolds == PageSpec /\ [](heard # "error") => []ComingInv
<1>1. heard # "error" <=> Unfailed
  BY DEF Unfailed
<1> QED
  BY <1>1, PageInitHolds, PageStepKeeps, ComingInitHolds, StepKeepsComing, PTL DEF PageSpec

\* As long as the host hears of no failure, an SDK never awaits a token that
\* nobody is bringing, however reloads, clicks, commits and late answers to
\* older refreshes interleave (expirationHandler, useTokenRefresh, setToken):
\* the safety half of TokenArrives.  What is left to its liveness is that
\* requests are answered and messages delivered.
THEOREM AwaitedTokenIsComing == PageSpec /\ [](heard # "error") => []TokenIsComing
<1>1. ComingInv => TokenIsComing
  BY DEF ComingInv
<1> QED
  BY <1>1, ComingHolds, PTL

\* As long as the host hears of no failure, the verdict of a review that ended
\* on screen is never lost on its way: the host holds an outcome, or the
\* message that brings it one waits, and nothing the page says in between, nor
\* a loss of the network, takes the flow out of its session
\* (onApplicantStatusChanged, handleEvent): the safety half of
\* VerdictReachesHost.
THEOREM EndedVerdictIsComing == PageSpec /\ [](heard # "error") => []VerdictIsComing
<1>1. ComingInv => VerdictIsComing
  BY DEF ComingInv
<1> QED
  BY <1>1, ComingHolds, PTL

-----------------------------------------------------------------------------
(* The session's origin: what the two halves of an embedding make of it, for *)
(* every set of hosts                                                       *)

\* The codes the schema lets a backend send (ErrorCodes of kyc-core)
WireCode == {"UNAUTHORIZED", "VALIDATION_ERROR", "PROVIDER_UNAVAILABLE",
             "SESSION_NOT_FOUND", "SESSION_CREATION_FAILED", "PERSISTENCE_FAILED"}

OfPage(url) == [origin |-> Reported(url), window |-> "frame"]

Web == {url \in Url : url.scheme # "other"}

LEMMA SomethingIsNamed == \A url \in Url : url # Nothing /\ Reported(url) # Nothing
  BY DEF Url, Nothing, Reported

\* A frame hears the page of every session a backend serves, however the
\* backend's public URL is spelled: the session pins the origin the browser
\* will report (publicOrigin, createMessageGuard).
THEOREM ServedPageIsHeard ==
  \A base \in Web, code \in WireCode :
    LET session == ProxyStart("data", code, base)
    IN  Accepts(session.allowedOrigin, OfPage(session.url))
<1> SUFFICES ASSUME NEW base \in Web, NEW code \in WireCode
             PROVE  Accepts(ProxyStart("data", code, base).allowedOrigin,
                            OfPage(ProxyStart("data", code, base).url))
  OBVIOUS
<1>1. ProxyStart("data", code, base) = Session(base, Reported(base))
  BY DEF ProxyStart, PublicOrigin, Web
<1>2. Reported(base) # Nothing
  BY SomethingIsNamed DEF Web
<1> QED
  BY <1>1, <1>2 DEF Accepts, OfPage, Session

\* A frame over a URL the host names itself, without a pin, hears its page
\* exactly when the URL is spelled as a browser reports origins: hostedSource
\* takes the origin as it is spelled (originOf, createMessageGuard).
THEOREM NamedPageIsHeardIfPlain ==
  \A url \in Web :
    LET session == HostedStart(Nothing, url, Nothing)
    IN  Accepts(session.allowedOrigin, OfPage(session.url)) <=> url.spelled = "plain"
<1> SUFFICES ASSUME NEW url \in Web
             PROVE  Accepts(HostedStart(Nothing, url, Nothing).allowedOrigin,
                            OfPage(HostedStart(Nothing, url, Nothing).url))
                      <=> url.spelled = "plain"
  OBVIOUS
<1>1. url # Nothing
  BY SomethingIsNamed DEF Web
<1>2. HostedStart(Nothing, url, Nothing) = Session(url, url)
  BY <1>1 DEF HostedStart, First, OriginOf, Web
<1>3. (Reported(url) = url) <=> url.spelled = "plain"
  BY DEF Reported, Web, Url
<1> QED
  BY <1>1, <1>2, <1>3 DEF Accepts, OfPage, Session

\* The WebView loads the page of a session a backend serves, and of a URL the
\* host names, whatever else it may visit, unless the URL names the port its
\* scheme implies (createHostedWebViewProps, createNavigationGuard).
THEOREM PageMayLoad ==
  \A url \in Web, code \in WireCode, navigation \in SUBSET Pattern :
    \A session \in {ProxyStart("data", code, url), HostedStart(Nothing, url, Nothing)} :
      url.spelled # "port" => Navigates(AllowList(session, navigation), session.url)
<1> SUFFICES ASSUME NEW url \in Web, NEW navigation \in SUBSET Pattern,
                    NEW pin \in {Reported(url), url}, url.spelled # "port"
             PROVE  Navigates(AllowList(Session(url, pin), navigation), url)
  <2>1. ASSUME NEW url \in Web, NEW code \in WireCode
        PROVE  /\ ProxyStart("data", code, url) = Session(url, Reported(url))
               /\ HostedStart(Nothing, url, Nothing) = Session(url, url)
    BY SomethingIsNamed DEF ProxyStart, PublicOrigin, HostedStart, First, OriginOf, Web
  <2> QED
    BY <2>1 DEF Session
<1>1. pin # Nothing /\ LowerCase(url) # Nothing
  BY SomethingIsNamed DEF Web, LowerCase, Url, Nothing
<1>2. Exactly(pin) \in AllowList(Session(url, pin), navigation)
  BY <1>1 DEF AllowList, First, Session
<1>3. LowerCase(pin) = LowerCase(url)
  BY DEF LowerCase, Reported, Web, Url, Spelling
<1>4. OriginLowered(url) = LowerCase(url)
  BY DEF OriginLowered, Web
<1>5. MatchesOrigin(Exactly(pin), OriginLowered(url))
  BY <1>3, <1>4 DEF MatchesOrigin, Exactly
<1> QED
  BY <1>1, <1>2, <1>4, <1>5 DEF Navigates

\* A WebView that pins anything visits the hosts its session and its host name,
\* and hosts under those they name with a wildcard: never another, and by a
\* wildcard never the bare domain (matchesOrigin).
THEOREM OnlyNamedHosts ==
  \A allowed \in SUBSET Pattern, url \in Url :
    allowed # {} /\ Navigates(allowed, url) =>
      \E pattern \in allowed :
        IF pattern.wild THEN /\ url.host \in Subdomain[pattern.origin.host]
                             /\ url.host # pattern.origin.host
                        ELSE url.host = pattern.origin.host
<1> SUFFICES ASSUME NEW allowed \in SUBSET Pattern, NEW url \in Url,
                    allowed # {}, Navigates(allowed, url)
             PROVE  \E pattern \in allowed :
                      IF pattern.wild THEN /\ url.host \in Subdomain[pattern.origin.host]
                                           /\ url.host # pattern.origin.host
                                      ELSE url.host = pattern.origin.host
  OBVIOUS
<1>1. PICK pattern \in allowed : MatchesOrigin(pattern, OriginLowered(url))
  BY DEF Navigates
<1>2. OriginLowered(url) # Nothing
  BY DEF Navigates
<1>3. OriginLowered(url).host = url.host
  BY <1>2 DEF OriginLowered, LowerCase, Url
<1>4. /\ LowerCase(pattern.origin).host = pattern.origin.host
      /\ pattern.origin.host \in Host /\ pattern.wild \in BOOLEAN
  BY DEF LowerCase, Pattern, Url
<1>5. CASE pattern.wild
  BY <1>1, <1>3, <1>4, <1>5, HostAssumption DEF MatchesOrigin
<1>6. CASE ~pattern.wild
  BY <1>1, <1>3, <1>4, <1>6 DEF MatchesOrigin
<1> QED
  BY <1>4, <1>5, <1>6

\* Whatever becomes of a start or a refresh through a proxy, the host is told a
\* code it knows: the backend's own, or that the session or the token failed
\* (createProxySource, getApolloErrorCode).
THEOREM FailuresAreCoded ==
  \A answered \in Answered, code \in WireCode, base \in Url, hasId \in BOOLEAN :
    /\ answered # "data" => ProxyStart(answered, code, base).error \in WireCode
    /\ answered # "data" \/ ~hasId =>
         ProxyRefresh(hasId, answered, code).error \in WireCode \cup {"TOKEN_REFRESH_FAILED"}
  BY DEF ProxyStart, ProxyRefresh, ApolloErrorCode, Rejected, WireCode, Answered
=============================================================================
