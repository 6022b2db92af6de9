# Verification of kyc

TLA+ models of this repository, the TLC runs that check them and the proofs
TLAPS checks. Paths are relative to `src/packages/` unless they start with
`docs/`.

## 1. The system

A user proves an identity to a provider (Sumsub, or a mock). The repository is
four packages and a service:

| Part | Code | State | Operations |
| --- | --- | --- | --- |
| Session store | `kyc-node/src/store.ts`, `knex/store.ts` | table `VerificationSession` (user, level, applicant, status), table `AuditLog` | create, conditional status update, conditional bind, four lookups, audit append, transaction |
| Verification service | `kyc-node/src/sessions.ts` | none of its own: everything between two awaits is in a handler's locals | `start`, `refresh`, `status`, `latestForUser`, `handleWebhookEvent`, `hostedPage` |
| Providers | `kyc-node/src/providers/*` | the provider's own (outside the repository); the mock's map of applicants | `createSession`, `getStatus`, `getStatusByUserId`, `refreshToken`, `parseWebhookEvent` |
| HTTP, GraphQL, registry, guards | `kyc-node/src/handlers.ts`, `express.ts`, `graphql.ts`, `registry.ts`, `production.ts`, `signature.ts` | none | routing, authentication, validation, answers that decide a retry |
| Service process | `kyc-service/src/server.ts`, `app.ts`, `sessions.ts`, `config.ts` | rate windows; the session capability, loaded once; requests in flight | boot guard, rate limit, routing, drain on SIGTERM |
| Pages | `kyc-node/src/providers/*/page.ts`, `bridge/script.ts`, `pages.ts` | the document's SDK and the token promise it awaits | status table, bridge messages, token requests |
| Client core | `kyc-core/src/verification/*`, `providers/sumsub/mapping.ts` | machine state; a session token | reducer, event plan, bridge protocol, sources, Sumsub's words |
| React and React Native hooks and components | `kyc-react/src/*`, `kyc-react-native/src/*` | refs beside the reducer: running, mounted, timer, refresh sequence | start, retry, restart, cancel, events of the page or SDK, token refresh |

Clients start a session and watch it through GraphQL; the provider posts
webhooks; a status read may look the provider up and write what it says. Every
handler awaits the store or the provider between its reads and its writes, so
any two of them interleave there. On the client, a run awaits the source while
the host, the page, timers and refreshes go on.

What is hard, part by part, and what makes the part correct:

- **Service.** A row read before an await is old when it is written after it. A
  webhook may be delivered twice, late and out of order; the process may die
  between a commit and the effect that follows it; `start` binds the applicant
  it minted while the first webhook already binds one. Correct means: a session
  shows only what the provider reported for its own applicant, an applicant of
  its own user; binding and verdict are final; the audit log is the history of
  the row; an acknowledged notice is accounted for, or had no session to go to.
- **Store.** The promises above rest on one transaction around read, update and
  audit row. The in-memory store restores a snapshot when a transaction throws;
  PostgreSQL holds a row lock at READ COMMITTED.
- **Hooks.** A run can be cancelled, unmounted or overtaken at each await, a
  refresh answered after a newer one, an outcome reported by an event and by a
  promise, a timer left behind by a ref that forgot it. The screen on show is of
  an earlier state than the machine. Correct means: one session, its newest
  token, one report of an outcome, and silence after the unmount.
- **Page and host.** They run apart: messages travel both ways while the page is
  reloaded, hidden or replaced. Correct means: the host holds the verdict the
  backend stores, an SDK that waits for a token gets it, a verdict ends the flow.
- **Native SDK.** Its source, its tokens and its flag are shared by components
  and by runs. Correct means: one SDK on screen, one session an attempt, one
  report of an outcome, no screen without a way on.
- **Process.** A notice is answered, lost, given up on and posted again over
  crashes and failures. Correct means: what is acknowledged was handled to its
  end once (committed, or set aside), genuine notices arrive, a drain ends and cuts nothing short, what boots can serve.
- **Rate limiter.** A bounded map that is swept when it is full and reset in
  place: a client gets its limit and no more by it, and it stays bounded.

`PROJECT.json` lists every component with what is modelled of it, and the
hazards of the code at the line where each bites.

## 2. Modules

| Module | Models |
| --- | --- |
| `SessionStore` | rows, statuses and the store's operations as operators on a table |
| `StoreAtomic` | the abstract specification of a transaction: one step, or none |
| `StorePostgres` | transactions over the Knex store, one action per SQL statement |
| `StoreMemory` | the same transactions over the in-memory store, one action per microtask |
| `VerificationService` | the six calls of `sessions.ts`, await by await, over the store and a provider |
| `SessionLifecycle` | the abstract specification of one session that the service promises |
| `ServiceClaims` | what the docs say of the service and the code refutes |
| `HttpSurface` | routes, callers, input checks, status codes and CORS headers of the HTTP surfaces, as operators |
| `ServiceConfig` | the boot guard, the registry and what each part reads of the environment, as operators |
| `KycService` | the process around the service: boot, requests, retries, SIGTERM, crashes; over the two above |
| `RateLimiter` | the limiter of the process |
| `VerificationHook` | both hooks, reducer, event plan, token refresh and the component's buttons |
| `SumsubVocabulary` | reviews, webhook types and mobile results, and the page's table, as operators |
| `NativeFlow` | the hook composed with the native source, its SDK, the session token provider and a second component |
| `HostedSession` | the hosted and proxy sources, the frame's guard and the WebView's allow-list, as operators |
| `HostedPage` | the hook composed with the page it embeds and the messages between them |
| `*Proofs` | the proofs about the module of that name and the operators it builds on (`ServiceTrailProofs`: about `VerificationService`) |
| `MC*` | instances for TLC |

Composition: `VerificationService` is written against the one-step transactions
of `StoreAtomic`, which `StorePostgres` is shown to implement. `KycService`
abstracts what `handleWebhookEvent` does to one step, `Concludes`: it committed or
set the notice aside, which is `VerificationService`'s to tell apart. `NativeFlow` and `HostedPage` extend
`VerificationHook` and join its actions with their own.

### VerificationService

A request is one call of a handler. `pc[r]` names the await it stands at,
`loc[r]` holds the locals that live across it, and each action is the code from
one await to the next; `Read(s)` is what a handler keeps of a row. A
transaction of the store is one step (`StartPersists`, `StartBinds`,
`WriteMismatch`, `WriteUpdates`, `WriteKeeps`: the optional bind, the mismatch
check, the status write and its audit row). `StoreFails`, `ProviderFails` and
`Lost` may strike at any await. Three variables are not in the code: `mark` and
`basis` of the locals and of the trail say which state a status was read in and
which notice it comes from, and `journal` is all the provider ever issued. A webhook's
locals carry two more, `stood` (the sessions of the notice's applicant when it
arrived) and `rows` (how many rows there were when it was set aside).

`sessions` and `created` are the table, `trail` the audit rows
`status_updated` and `audit` the count of the others, `effects` the entries
handed to the host's `onStatusTransition`. A webhook delivery picks any notice
of `journal`, so notices are lost, late, repeated and reordered.

`start`: `StartPersists`, then `StartMints` or `StartMintFails` and
`StartAuditsFailure`, then `StartBinds`. `refresh`: `RefreshReads`,
`RefreshMints`, `RefreshAudits`. `hostedPage`: `PageReads`, `PageMints`.
`status` and `latestForUser`: `StatusReads` or `LatestReads`, `Lookup`, then
the shared write. `handleWebhookEvent`: `WebhookArrives` or `WebhookIgnored`,
`WebhookReadsUnbound`, then the shared write, `Effect` and `EffectAudits`; or it
ends in `SetsAside`, answered `unknown_session` or `ignored_unknown_status` with
nothing written.

### The stores

A transaction runs one callback of `sessions.ts` (`Call`: start's insert, its
bind, or `writeStatus` with or without a bind). In `StorePostgres` `pc[t]` is
the statement about to be sent, `view[t]` the row as the callback has it,
`locker[s]` the row lock; `Commit` makes row and audit entry visible and may
lose its answer, `Breaks` is a failed statement or a dead process. `StoreMemory`
keeps the queue of microtasks (`ready`) and the tables a transaction copied when
it began (`saved`), which `Restores` puts back.

### KycService

`request[s]` is the request in a slot: its route, the notice it carries, where
it is in its handler, how often its provider call was tried, and whether its
caller still waits (`heard`). `capability` is the promise `app.ts` keeps of the
session module, then the state of Apollo behind it. `handled` and `acked` are
not in the code: the notices `handleWebhookEvent` returned an outcome for, and
those the provider has a 200 for. `env` is
any environment (`Env`); `Errors(env)` is the boot guard, and every part that
reads the environment again (`Verified`, `SessionSource`, `PublicBaseUrl`,
`ProviderName`) is its own operator.

### VerificationHook

`machine` is `stateRef`, advanced by every dispatched action at once; `view` is
what React last committed, which the page and the buttons on show belong to. A
click commits before the next event, so `Start`, `Restart` and `Cancel` of the
component commit (`Commits`); everything else waits for `Render`. `flights[r]`
is the await a run of `begin` stands at: `checking` (checkPermissions),
`probing` (NetInfo), `starting` (`source.start`), `launching`. `Native` chooses
the hook, `Launches` and `Refreshes` the kind of source, `Settings` whether the
host passes `onOpenSettings`, `Headless` whether a host calls the hook freely or
the component's buttons (`Buttons`) do. `timers` holds every `setTimeout` not
yet fired, `timerRef` the one the ref knows. `submitted` stands for
`statusChanged(pending)` too, `rejected` for every outcome but approved.

### NativeFlow

`sdk` is what became of this component's SDK, `launching` the flag of the
source, `elsewhere` the second component's SDK. Of the token provider `holds`
is its session id, `starting` the promise first calls share, `calls` each
caller's await; `opened` counts sessions asked of the backend. `source` may be
another `LaunchableSource`, which keeps that contract and no more.

### HostedPage and HostedSession

`doc` is the document on screen and the token request it awaits, `toHost` and
`toPage` the messages on their way. A document leaves the screen when the
committed view no longer embeds its session (`Embedded`, `Leaves`). Reviews are
records of status, answer and reject type, with absent and undocumented values;
`Lookup` is the page's table, `MapStatus` and `MapWebhook` the backend's.
`HostedSession` reduces a URL to its origin and how it is spelled (plain, in
capitals, or with the port its scheme implies).

### RateLimiter

`windows` is the JavaScript Map as a function of the keys it holds, `older` its
insertion order as a relation: `MapSet` leaves a key that is there where it is,
`Sweep` drops what has elapsed and then the first keys of that order. `admitted`
is not in the code: the answers of the last window's length that let a request
of the key through, which the promise is about. `Sweep` and `older` are stated
without positions so that the sweep's bound can be proved by counting.

## 3. Runs

| Run | Shows |
| --- | --- |
| `sumsub` | A Sumsub deployment. `TrailIsHistory`, `VerdictIsReported`, `AnswersAreHeld`, `EffectsAreCommittedOnce`, `TerminalIsFinal`, and `ImplementsLifecycle`: every step of every handler is a step of `SessionLifecycle` or a stutter |
| `mock` | A provider that mints the applicant at start, whose bind races the first webhooks; notices of two users' applicants, without level, user or status. `TypeOK`, `ApplicantIsOwners`, `NoticesAreAccountedFor` (of every answer given after the write), `SetAsideHadNoSession` (of the two given without one), `BindingIsFinal` |
| `store` | Three transactions over two sessions on PostgreSQL. `TypeOK`, `ReadIsCurrent`, `ChainIsUnbroken`, `SomeoneProceeds` (no lock kept by the dead), and `ImplementsOneStep`: a transaction is one step of `StoreAtomic` |
| `delivery` | The process. `ServiceTypeOK`, `AckMeansHandled`, `OnlyAuthentic`, `StartedCanServe`, `OrderlyDrain`, and under fairness `DrainCompletes`, `NoticesArrive` |
| `rate` | The limiter. `RateTypeOK`, `WindowsAreBounded`, `TwiceTheLimit`, `NobodyIsRefusedEarly` |
| `hook_web` | The browser component over a hosted page. `NothingAfterUnmount`, `NewestSessionWins`, `TokensInOrder` |
| `native` | The React Native component over the Sumsub SDK, beside a second one. `FlowTypeOK`, `OneSessionPerAttempt`, `OneSdkOnScreen`, `AdvisorySettlement`, and under fairness `ApprovalReachesHost`, `NoDeadScreen` |
| `page` | The React Native component over the Sumsub or the mock page. `PageTypeOK`, `OutcomeIsTheVerdict`, and under fairness `TokenArrives`, `VerdictReachesHost` |
| `claim_*` | Sentences of docs and comments that the code does not keep, section 6 |

**Bounds.** The service runs have three requests, two sessions and two notices.
Two requests make every race of two handlers and the third is the retry, or the
read, after it; a second notice is the contradicting or later verdict; a second
session is the wrong row to choose. A request serves one call, so a run is a
prefix of three calls, not a reset of the process. `mock` has a second user with
an applicant of their own, so that a lookup may find the wrong user's session.
`claim_level` starts from a state that calls which ended left behind
(`Onboarded`: a first level approved by its webhook, a second just started), so
that its requests are spent on what comes next. `sumsub` and `mock` have one
level; two levels are told apart in `claim_level`. `store` has three
transactions: two that race and one that waits or comes after. `delivery` has
two slots, so that a notice given up on and its redelivery, or a drain and a
request in flight, overlap; two boots, one crash between them; every
environment is started, and the traffic of four is explored, which between them
have and lack sessions, production, a webhook secret and a network provider.
The hook runs have two runs, timers and refreshes at most: one to be overtaken,
one to overtake it. `page` has one run, one token request, one reload and two
messages on their way, and a review of each kind. `rate` has four keys for three
places in the map, limits of one and two, a window of two ticks and a clock of
five, so a key's window elapses twice. Requests, levels, transactions,
clients and the applicants of one user in `mock` are symmetric; runs with a
liveness property use no symmetry. No run has a lookup by user id beside a
second user: `OwnersCorrect` proves that case.

**Deadlock** is not checked: requests and transactions are spent, a hook is
unmounted, a process exits, the clock ends.

**Fairness.** The service and store modules assume none: no property of theirs
needs a request to come back.

- `KycService`: the event loop runs what can run (weak fairness of boot, load,
  the end of a drain, and every step of a handler). For a genuine notice,
  strong fairness of its posting, reading, conclusion and answer: the provider posts
  what it has no 200 for again and again (`handlers.ts:239`), and of infinitely
  many deliveries one is not failed, timed out or given up on. `NoticesArrive`
  is stated for a process that in the end stays up with its sessions loaded.
- `NativeFlow`: a `setTimeout` that is not cleared fires, promises settle,
  requests are answered, React renders. Nothing is assumed of the applicant in
  the SDK, nor of any button.
- `HostedPage`: messages are delivered, refreshes answered, React renders.
  Nothing is assumed of the page, its SDK or the user.

## 4. Proofs

What TLC checks on small instances, these prove for every value of the
constants. Each transition system has an inductive invariant, preserved by one
step per action; the listed properties follow from it.

### VerificationServiceProofs

| Theorem | |
| --- | --- |
| `Invariant` | `Spec => []IInv` |
| `TypeCorrect` | `Spec => []TypeOK` |
| `VerdictCorrect` | `Spec => []VerdictIsReported` |
| `OwnersCorrect` | `Spec => []ApplicantIsOwners` |
| `BindingCorrect` | `Spec => BindingIsFinal` |
| `TerminalCorrect` | `Spec => TerminalIsFinal` |
| `Implements` | `Spec => ImplementsLifecycle`, the refinement |

None of these is inductive alone: the write is decided by what a handler read
before its last await. `IInv` adds what is still true of it then. `InFlight(r)`
says, for each await, that the session exists; that an applicant found by a
lookup, or minted by `start`, is the row owner's; that a handler at `lookup`
still holds the row's applicant (binding is final) or none; that a webhook
carries its own notice. `Warranted(r)` says of a status about to be written
that it was reported for the applicant the same transaction binds, or for the
one the row already has. `NoticesNameOwners` carries the assumption on the
provider into the state. Every step lets `Grows` (rows keep users and, once
bound, applicants; the journal only grows), so a request that stands still keeps
what its locals say (`OthersStay`); each handler's step then establishes
`InFlight` for itself. Handlers that write no row are covered by `Quiet`. For the
refinement, `StartPersists` is `Open`, a binding is `Bind` or a stutter, a status
written is `Decide` for the applicant the transaction leaves on the row, and a
notice with a status is `Report`; no other step touches rows or journal.

Assumptions: `ServiceAssumption` of that module (bounds are naturals, there is a
user, an applicant has one owner) and `NoticeAssumption` (a notice names the
owner of its applicant or no user, as Sumsub's `externalUserId` does).

### ServiceTrailProofs

| Theorem | |
| --- | --- |
| `TrailCorrect` | `Spec => []TrailIsHistory` |
| `EffectsCorrect` | `Spec => []EffectsAreCommittedOnce` |
| `AnswersCorrect` | `Spec => []AnswersAreHeld` |
| `NoticesCorrect` | `Spec => []NoticesAreAccountedFor` |
| `SetAsideCorrect` | `Spec => []SetAsideHadNoSession` |
| `MintsCorrect` | `Spec => []MintsAreOwn` |

What the service tells of a session, on top of `IInv`. A status is written
together with its entry or not at all (`StandsOrWrites`), so trail and row agree
(`HistInv`). `EffectInv` says that an entry waits for its effect in one request
only and was not handed over before: a new one is longer than the trail all
others point into. `Longer` says that trails and audit logs only grow, which
makes what was held or audited stay so; `Tells(r)` says that what a request saw
was held since its read (`Saw`) and what it answers is held or accounted for
(`Says`), and each handler's step lets its own request keep that (`Told`).
`AsideInv` is of the notices set aside: one that goes on to the second read
without a session had none of its applicant's at the first (a lookup finds one if
there is any, `FoundIfAny`, `UnboundIfAny`; well-founded induction on the ids
gives the newest, `NewestExists`), and rows neither change their user nor lose
their applicant afterwards.
`MintsAreOwn` is what stays true of the row `refresh` and `hostedPage` decided on
when they mint after the await (section 6): the applicant is still the session's
and its owner's, and the session was live when it was read (`MintInv`).

### StorePostgresProofs

| Theorem | |
| --- | --- |
| `InvHolds`, `TypesHold` | `Spec => []Inv`, `Spec => []TypeOK` |
| `ReadsStayCurrent` | `Spec => []ReadIsCurrent` |
| `ChainHolds` | `Spec => []ChainIsUnbroken` |
| `TransactionsAreAtomic` | `Spec => ImplementsOneStep`, the refinement |

`Knows(t)` says what a transaction may rely on before each statement: once it
holds the lock, the committed row is the one it saw; without it, that a row
bound to another applicant stays so, and that a status it read is one the row
holds or held (`Past`). A step of one transaction leaves the others what they
know (`OthersStillKnow`), because it moves only rows it has locked and those
only forward (`Forward`). `CommitIsOneStep` is the heart of the refinement: a
commit, on what the transaction knows, is `Creates`, `Binds`, `Changes`, `Keeps`
or `Refuses` of `StoreAtomic`; rollbacks are `Leaves`; every other statement is
invisible. Assumptions: `StoreAssumption`, `CallAssumption`,
`PostgresAssumption` (there is a user; a bind names an applicant).

### KycServiceProofs

`InvHolds`, `TypesHold` (`ServiceTypeOK`), `AcknowledgedIsHandled`
(`AckMeansHandled`), `HandledIsAuthentic` (`OnlyAuthentic`), `StartedServes`
(`StartedCanServe`), `DrainsInOrder` (`OrderlyDrain`), `DrainsShrink`
(`DrainShrinks`), `DrainsGoOn` (`DrainGoesOn`). The invariant says what a
request in each state of its handler carries (`Consistent`: past admission, its
notice was admitted; past `handleWebhookEvent`, it is handled), that a running process
passed the guard (`StartedWasChecked`), and that sessions a drain stopped have
nothing in flight (`StoppedIsDrained`). `DrainsShrink` and `DrainsGoOn` are the
safety halves of `DrainCompletes`: a draining process takes on no work (`Work`,
the steps a handler has left), each step of a handler leaves it less, and none
waits for anything but the sessions being loaded.

Of the operators of `ServiceConfig` and `HttpSurface` alone, for every
environment, request, origin and choice of the host:

| Theorem | |
| --- | --- |
| `MintsAreLive` | a mint over the package's registry is on live credentials in production |
| `MintsAreVouchedFor` | the access-token presets ask the provider for nobody unknown and on no unchecked input |
| `ServerErrorsAreCrashes` | before a session is read or a provider called, exactly two things are answered 500: the host's hook crashing on a valid mint, and a known caller's `levelName` or `locale` that is no text (section 6) |
| `OnlyListedOrigins` | no answer, the limiter's 429 included, allows an origin the host did not list |
| `SharedCachesAreTold` | an answer that depends on who asked varies on Origin |

The service marks an answer twice, in the token app and around every route;
`OnlyListedOrigins` and `SharedCachesAreTold` say that neither layer lets through
what the other keeps back.

### RateLimiterProofs

| Theorem | |
| --- | --- |
| `InvHolds`, `TypesHold` | `RateSpec => []RateInv`, `RateSpec => []RateTypeOK` |
| `HeapIsBounded` | `RateSpec => []WindowsAreBounded` |
| `LimitIsKept` | `RateSpec => []TwiceTheLimit` |
| `NobodyIsShort` | `RateSpec => []NobodyIsRefusedEarly` |

None of these promises is inductive. The bound on the map needs that a sweep makes
room: `Ordered` says the insertion order is one, so no two live keys have as many
keys after them, and of the keys kept by `Sweep` there are fewer than
`MaxWindows` (`SweepFits`, an injection into the numbers below it). The bound on
a key's answers needs to know of which window each was: `History` says that an
answer of the last window's length was given either in the window on show or in
one before it, that within each they are told apart by their count, and that a
count is at most the limit. Two windows of a limit each make twice the limit
(`NumberedIsBounded`). The other way round, `Filled` says that each number up to a
live window's count is that of an answer since the window began, so a client is
refused only after as many as its limit (`NumbersAreAnswers`). Nothing is assumed of the limits, the cap or the window
but that they are not zero (`RateAssumption`).

### HostedPageProofs

| Theorem | |
| --- | --- |
| `PageAndBackendAgree` | the page's table and the webhook say of every review what `mapSumsubStatus` says |
| `PageInvHolds`, `PageTypesHold` | `PageSpec => []PageInv`, `PageSpec => []PageTypeOK` |
| `OutcomeHolds` | `PageSpec => []OutcomeIsTheVerdict` |
| `NewestWinsOverPage`, `TokensFollowOnPage`, `UnmountedPageIsSilent` | the properties of the hook, over a page that runs apart from it |
| `AwaitedTokenIsComing` | `PageSpec /\ [](heard # "error") => []TokenIsComing` |
| `EndedVerdictIsComing` | `PageSpec /\ [](heard # "error") => []VerdictIsComing` |

`OutcomeIsTheVerdict` is not inductive, because the outcome the host holds was
posted earlier. `PageTypes` says of the messages on their way that a `complete`
of the Sumsub page carries the review's own status (`Sayable`; a review that
ended is not replaced, so it stays the one spoken of); `OneScreen`, that a page on screen is of the
machine's session, that no run is under way behind it, and that a page comes on
screen before a machine without an outcome; `PageShown`, that the messages of a
page leave with it. Together these make an outcome one its page spoke of while on
screen (`OutcomeIsSpoken`), and `PageAndBackendAgree` makes that the backend's
verdict. The hook's own part is `HookInv`, carried over by the lemmas
`NativeFlowProofs` cites too. Assumptions: `HookAssumption`, `PageAssumption`.

The last two are the safety halves of `TokenArrives` and `VerdictReachesHost`,
under the hypothesis of both: the host hears of no failure. Their invariant,
`ComingInv`, adds to `PageInv` that the machine stays in the session on screen,
in a state that is not idle, loading or failed (`FlowGoesOn`: a page of Sumsub
cannot cancel, a button commits before the next event, and no run is under way
behind a page), and that a document loaded anew awaits nothing (`AwaitsLive`).
Then a request for a token becomes a refresh that may post, that refresh becomes
a token on its way, and a `complete` becomes an outcome, which no later message
drops. `Linked` asks that page and host hear each other; a host that names its
page in capitals has neither (section 6).

Of the operators of `HostedSession`, for every URL and choice of the host:
`ServedPageIsHeard`, `NamedPageIsHeardIfPlain`, `PageMayLoad`, `OnlyNamedHosts`,
`FailuresAreCoded`.

### VerificationHookProofs and NativeFlowProofs

| Theorem | |
| --- | --- |
| `HookInvHolds` | `HookSpec => []HookInv` |
| `NewestWins` | `HookSpec => NewestSessionWins` |
| `TokensFollow` | `HookSpec => TokensInOrder` |
| `UnmountedIsSilent` | `HookSpec => []NothingAfterUnmount` |
| `FlowInvHolds`, `FlowTypesHold` | `FlowSpec => []FlowInv`, `FlowSpec => []FlowTypeOK` |
| `OneSession` | `FlowSpec => []OneSessionPerAttempt` |
| `OneSdk` | `FlowSpec => []OneSdkOnScreen` |
| `SettlementIsAdvisory` | `FlowSpec => AdvisorySettlement` |
| `NewestWinsInFlow` | `FlowSpec => NewestSessionWins` |
| `UnmountedFlowIsSilent` | `FlowSpec => []NothingAfterUnmount` |
| `NoScreenIsStuck` | `FlowSpec => []ScreenHasAWayOn` |

Every action of the hook has one lemma, `...Keeps`, that it lets `Keeps` hold;
`NativeFlow` cites the same lemmas for the actions it joins with its own.
`OneRun` (a run under way is the newest and holds `runningRef`) is why a session
is the newest run's; `NewestMayPost` (refresh numbers are unique, and the newest
may post only if it has not) is why tokens never go back. `FlowInv` adds
`TokensInv` (a session is held, or asked for, or neither, and `opened` says
which), `SdkInv` (over the Sumsub source the flag is up exactly while one SDK is
on screen) and `FinalInv` (a launch whose SDK has had its last event stands
before a settled machine until its promise is back, or the hook is unmounted).
`NoScreenIsStuck` is the safety half of `NoDeadScreen`: `WayInv` says that a
machine that waits (`Waiting`) without an outcome has a run under way, so a
screen that offers nothing is behind its machine, shows the outcome, or stands
over an await that comes back without the applicant.
Assumptions: `HookAssumption`, and for the flow `NativeAssumption`.

### Only model-checked

`SomeoneProceeds`, which is stated with ENABLED, and the properties that say
something happens in the end: `DrainCompletes`, `NoticesArrive`,
`ApprovalReachesHost`, `NoDeadScreen`, `TokenArrives`, `VerdictReachesHost`.
Liveness under fairness and ENABLED are outside what TLAPS proves. Every other
property of a passing run is a theorem. What those liveness properties rest on is
proved where it is a matter of single states and steps: `DrainsShrink` and
`DrainsGoOn` for `DrainCompletes`, `NoScreenIsStuck` for `NoDeadScreen`,
`AwaitedTokenIsComing` for `TokenArrives`, `EndedVerdictIsComing` for
`VerdictReachesHost`. These halves are theorems only; no run lists them.

## 5. Not modelled, and why

- Ties of `createdAt`: ids are in order of creation.
- A host's `authenticate` that throws: the service's own never does.
- A backend that answers a start with a null `url` or `allowedOrigin`
  (`proxySource.ts:86`), as kyc-node's never does: `ProxyStart` gives a session
  that names no page, and the component, which then stays on its launch screen, is
  not composed with one.
- What an answer holds beside its status and its CORS headers: CSP and the other
  security headers, markup, escaping, wording, themes, tracing, logging. No rule
  of the code reads them back.
- Which keys of an audit entry's metadata are kept (`audit.ts`): a filter.
- Request signing and the fields of the provider's requests.
- The browser hook over a launchable source: its `runLaunch` has the actions
  `NativeFlow` composes for the other hook, and no specification composes them
  with `Native = FALSE`.
- Which reason a camera permission was refused for; the builder options of the
  native SDK.
- `interpretSumsubWebMessage`, which no source of the repository calls, and the
  fake source's script of events (a source of another make in `NativeFlow` may do
  all it does).
- The foreign key's share lock of the audit INSERT: it can only delay.
- The migrate command, ports, and the wiring of the container, Vercel and
  Cloudflare entries beyond what they let a deployment load.
- `examples/`, `scripts/` and the mocks of React Native's modules.

## 6. Where the code and its words part

Checked by a run:

| Run | The words | The run |
| --- | --- | --- |
| `claim_level` | a second level's session proceeds on its own while the first one's verdict stands (`docs/architecture/backend.md:160`) | a status read of the second session looks its user up without a level and takes the first level's verdict |
| `claim_unknown` | `unknown_session` is answered when "neither the applicant id nor the external user id resolves to a session" (`docs/architecture/backend.md:158`) | `start` binds the applicant between the two reads of the webhook: the first finds no session of the applicant, the second no unbound one of the user, and the notice is answered 200 and its verdict neither written nor audited |
| `claim_memory` | a transaction of the memory store that throws restores both tables, "the same all-or-nothing guarantee a database transaction does" (`kyc-node/src/store.ts:157`) | it also undoes what other requests wrote, committed and answered since it began |
| `claim_declined` | `declined` arrives through `onComplete` (`docs/integration/error-codes.md:40`) | the Sumsub page posts `complete` for approved and finallyRejected alone: after `submitted`, a retryable decline leaves a pending screen with the page hidden, and no `onComplete` |

Met while modelling, in the models as the code has them, without a run of their
own:

- `refresh` and `hostedPage` decide on the row they read and mint after an await:
  a verdict committed in between gets a live token
  (`docs/architecture/backend.md:118`: a terminal session refuses one).
  `MintsCorrect` says what stays true of it.
- A second approved event overwrites the ref of a timer still set, and the page's
  own cancel leaves one behind: `onComplete` fires twice, over the idle flow or
  over a new run (`kyc-react/src/useIdentityVerification.ts:97`, 184, 192).
- `awaitReview` after an event that dropped the session, before React commits it,
  brings the component to `pending` without a session
  (`kyc-react/src/IdentityVerification.tsx:97`).
- `applicantLoaded` replaces the session object that `MountPoint`'s effect depends
  on, so the embed is mounted anew (`kyc-react/src/MountPoint.tsx:64`).
- The connection may go and come back while `start()` is awaited: its session is
  dispatched over `offline` (`kyc-react/src/useIdentityVerification.ts:350`).
- Any notice answered `unknown_session` is a 200, so the provider does not post it
  again (`kyc-node/src/handlers.ts:233`): a verdict that comes before its session
  is lost with no row and no audit entry, until a later notice or a status read
  brings it. `SetAsideCorrect` says when that may happen.
- A `levelName` or `locale` that is no text makes `value.trim` throw
  (`kyc-node/src/validation.ts:36`): 500 where the comment of the mint says "400 on
  bad input" (`kyc-node/src/handlers.ts:141`). GraphQL's types refuse it before.
- `SESSION_JWKS_URL` is not looked at by the boot guard, which promises "one message,
  every problem" (`kyc-service/src/app.ts:113`): what is no URL fails the boot by
  itself, after it (`VerifierThrows`).
- `cancel()`, and `start()`, ask nothing of the mount: a headless host that calls
  `cancel()` after the unmount hears `onCancel`
  (`kyc-react/src/useIdentityVerification.ts`; `NothingAfterUnmount` allows it).
- A window reset in place keeps its old position in the limiter's map, so a sweep
  may drop a newer one than `kyc-service/src/server.ts:86` says.
- With sessions loaded, Apollo's own SIGTERM listener stops Apollo and sends the
  signal again, which ends the process with requests in flight
  (`Resignals`; `kyc-service/src/sessions.ts:128`,
  `docs/operations/production.md:358`).
- `listAuditEntries` orders by a timestamp taken at the start of a transaction; a
  transaction that waited for a row's lock is listed before the one it waited for
  (`kyc-node/src/knex/store.ts:173`).
- `reset()` of the session token provider does not forget a start in flight
  (`kyc-core/src/verification/sessionToken.ts:33`).
- The `blocked` permission screen of React Native with `onOpenSettings` offers no
  "Try again"; `docs/integration/native-sdk.md` names both.
- A URL a host names in capitals, or with the port its scheme implies, pins an
  origin the browser never reports, and the frame drops every message
  (`NamedPageIsHeardIfPlain`; `kyc-core/src/verification/hostedSource.ts:51`).

## 7. What is left

1. `StoreMemory`: what its `claim_memory` leaves true (a transaction that runs
   alone is all or nothing) as a property and a theorem.
2. The page in a browser's frame beside the WebView, and two runs of it.
3. `VerificationService` over two levels with notices of both.
