------------------------- MODULE VerificationService -------------------------
(***************************************************************************)
(* createVerificationService of kyc-node (sessions.ts) over the session    *)
(* store: requests of clients and webhooks of the provider, each a handler *)
(* that awaits the store or the provider several times, interleaved at     *)
(* every await.  A transaction of the store is one step; a request may     *)
(* fail or be lost (the process dies) at any await.                        *)
(*                                                                         *)
(* The provider is outside the repository: its journal is the sequence of  *)
(* notices it ever issued, each the review of one applicant at that time.  *)
(* Any notice may be delivered at any time, in any order, any number of    *)
(* times.                                                                  *)
(***************************************************************************)
EXTENDS SessionStore, Sequences

CONSTANTS
  Request,          \* the requests served, each one call of a handler
  MaxSessions,      \* bound: rows created
  MaxNotices,       \* bound: notices the provider issues
  NoticeKinds,      \* the notices it may issue
  NoUser,           \* a notice without externalUserId
  Owner,            \* the user an applicant was filed under
  MintsApplicant,   \* createSession answers with an applicant (mock provider)
  UserLookup        \* supportsUserStatusLookup (Sumsub)

ASSUME ServiceAssumption ==
  /\ MaxSessions \in Nat /\ MaxNotices \in Nat
  /\ User # {} /\ NoUser \notin User
  /\ Owner \in [Applicant -> User]
  /\ MintsApplicant \in BOOLEAN /\ UserLookup \in BOOLEAN

VARIABLES
  sessions,    \* table VerificationSession
  created,     \* how many of its rows exist
  trail,       \* AuditLog, action status_updated, per session
  audit,       \* AuditLog, the other actions: how many rows, per session
  effects,     \* the entries of the trail handed to the host's effect, in order
  journal,     \* provider: every notice issued
  applicants,  \* provider: the applicants it has on file
  pc, loc      \* where each request stands, and its local variables

vars == <<sessions, created, trail, audit, effects, journal, applicants, pc, loc>>
table    == <<sessions, created>>
provider == <<journal, applicants>>

SessionId == 1 .. MaxSessions
Session == 1 .. created
NoStatus == "none"

AuditAction == {"session_created", "creation_failed", "token_refreshed",
                "terminal_status", "applicant_mismatch", "effect_failed"}

TrailEntry == [previousStatus : Status, status : Status,
               source : {"api", "webhook"},
               basis : 0 .. MaxNotices]  \* the notice the status was taken from

Notice == [applicant : Applicant, level : Level \cup {NoLevel},
           status : Status \cup {NoStatus}, user : User \cup {NoUser}]

ASSUME NoticeAssumption ==
  /\ NoticeKinds \subseteq Notice
  /\ \A n \in NoticeKinds : n.user \in {Owner[n.applicant], NoUser}

PC == {"idle", "start_mint", "creation_failed", "start_bind",
       "refresh_mint", "refresh_audit", "page_mint", "lookup",
       "unbound", "apply", "effect", "effect_audit", "done"}

Answer == Status \cup
  {"", "started", "PERSISTENCE_FAILED", "PROVIDER_UNAVAILABLE",
   "SESSION_NOT_FOUND", "VALIDATION_ERROR", "refreshed", "page", "404", "502",
   "ignored_unknown_status", "unknown_session", "updated", "unchanged",
   "rejected_terminal", "rejected_unbound", "500", "lost"}

Local == [sid : 0 .. MaxSessions,
          seen : Status,                               \* status of the row read
          mark : Nat,                                  \* length of its trail then
          entry : Nat,                                 \* the entry of the trail this request wrote
          applicant : Applicant \cup {NoApplicant},    \* of the row read, the notice or the answer
          bind : BOOLEAN,                              \* bind it in the same transaction
          status : Status,                             \* status to write
          basis : 0 .. MaxNotices,
          source : {"api", "webhook"},
          stood : SUBSET SessionId,                    \* history: the sessions of the notice's applicant at its arrival
          rows : 0 .. MaxSessions,                     \* history: the rows there were when it was set aside
          answer : Answer]

Blank == [sid |-> 0, seen |-> "initial", mark |-> 0, entry |-> 0,
          applicant |-> NoApplicant,
          bind |-> FALSE, status |-> "initial", basis |-> 0, source |-> "api",
          stood |-> {}, rows |-> 0, answer |-> ""]

TypeOK ==
  /\ created \in 0 .. MaxSessions
  /\ sessions \in [SessionId -> Row]
  /\ trail \in [SessionId -> Seq(TrailEntry)]
  /\ audit \in [SessionId -> [AuditAction -> Nat]]
  /\ effects \in [SessionId -> Seq(Nat)]
  /\ journal \in Seq(Notice)
  /\ applicants \subseteq Applicant
  /\ pc \in [Request -> PC]
  /\ loc \in [Request -> Local]

\* No row yet; what a row that does not exist holds is never read
Init ==
  /\ created = 0
  /\ sessions = [s \in SessionId |-> NewRow(CHOOSE u \in User : TRUE, NoLevel)]
  /\ trail = [s \in SessionId |-> <<>>]
  /\ audit = [s \in SessionId |-> [k \in AuditAction |-> 0]]
  /\ effects = [s \in SessionId |-> <<>>]
  /\ journal = <<>>
  /\ applicants = {}
  /\ pc = [r \in Request |-> "idle"]
  /\ loc = [r \in Request |-> Blank]

-----------------------------------------------------------------------------
\* Helpers: the next await of a request, its end, an audit row

Goto(r, next, local) ==
  /\ pc' = [pc EXCEPT ![r] = next]
  /\ loc' = [loc EXCEPT ![r] = local]

\* The locals go with the handler; a read's view and a webhook's outcome say
\* which session, applicant and status they are about
Finish(r, answer) ==
  Goto(r, "done", [Blank EXCEPT !.sid = loc[r].sid, !.mark = loc[r].mark,
                                !.applicant = loc[r].applicant, !.status = loc[r].status,
                                !.source = loc[r].source, !.answer = answer])

Ends(r, answer) == Goto(r, "done", [Blank EXCEPT !.answer = answer])

Audit(s, action) == audit' = [audit EXCEPT ![s][action] = @ + 1]

\* What a request keeps of the row it read
Read(s) == [Blank EXCEPT !.sid = s, !.seen = sessions[s].status,
                         !.mark = Len(trail[s]),
                         !.applicant = sessions[s].applicant]

-----------------------------------------------------------------------------
\* service.start

\* The row and its session_created entry, in one transaction
StartPersists(r, u, lvl) ==
  /\ pc[r] = "idle"
  /\ created < MaxSessions
  /\ created' = created + 1
  /\ sessions' = [sessions EXCEPT ![created + 1] = NewRow(u, lvl)]
  /\ Audit(created + 1, "session_created")
  /\ Goto(r, "start_mint", [Blank EXCEPT !.sid = created + 1])
  /\ UNCHANGED <<trail, effects, provider>>

\* The transaction fails: nothing is written
StartFailsToPersist(r) ==
  /\ pc[r] = "idle"
  /\ Ends(r, "PERSISTENCE_FAILED")
  /\ UNCHANGED <<table, trail, audit, effects, provider>>

\* provider.createSession answers with a token, and with a new applicant when
\* the provider files one at once
StartMints(r) ==
  /\ pc[r] = "start_mint"
  /\ IF MintsApplicant
     THEN \E a \in Applicant \ applicants :
            /\ Owner[a] = sessions[loc[r].sid].user
            /\ applicants' = applicants \cup {a}
            /\ Goto(r, "start_bind", [loc[r] EXCEPT !.applicant = a])
     ELSE Ends(r, "started") /\ UNCHANGED applicants
  /\ UNCHANGED <<table, trail, audit, effects, journal>>

\* provider.createSession rejects: audited outside the transaction, then thrown
StartMintFails(r) ==
  /\ pc[r] = "start_mint"
  /\ Goto(r, "creation_failed", loc[r])
  /\ UNCHANGED <<table, trail, audit, effects, provider>>

StartAuditsFailure(r) ==
  /\ pc[r] = "creation_failed"
  /\ Audit(loc[r].sid, "creation_failed")
  /\ Ends(r, "PROVIDER_UNAVAILABLE")
  /\ UNCHANGED <<table, trail, effects, provider>>

\* The row that bindApplicantId answers with is not looked at
StartBinds(r) ==
  /\ pc[r] = "start_bind"
  /\ sessions' = [sessions EXCEPT ![loc[r].sid] = BindApplicantId(@, loc[r].applicant)]
  /\ Finish(r, "started")
  /\ UNCHANGED <<created, trail, audit, effects, provider>>

-----------------------------------------------------------------------------
\* service.refresh and service.hostedPage: read the row, then ask for a token

\* requireOwned: another user's session is a missing one
RefreshReads(r, u, s) ==
  /\ pc[r] = "idle"
  /\ IF sessions[s].user # u
     THEN Ends(r, "SESSION_NOT_FOUND")
     ELSE IF sessions[s].status \in Terminal
          THEN Ends(r, "VALIDATION_ERROR")
          ELSE Goto(r, "refresh_mint", Read(s))
  /\ UNCHANGED <<table, trail, audit, effects, provider>>

RefreshMints(r) ==
  /\ pc[r] = "refresh_mint"
  /\ Goto(r, "refresh_audit", loc[r])
  /\ UNCHANGED <<table, trail, audit, effects, provider>>

RefreshAudits(r) ==
  /\ pc[r] = "refresh_audit"
  /\ Audit(loc[r].sid, "token_refreshed")
  /\ Ends(r, "refreshed")
  /\ UNCHANGED <<table, trail, effects, provider>>

\* The session id is the capability: no owner is asked for
PageReads(r, s) ==
  /\ pc[r] = "idle"
  /\ IF sessions[s].status \in Terminal
     THEN Ends(r, "404")
     ELSE Goto(r, "page_mint", Read(s))
  /\ UNCHANGED <<table, trail, audit, effects, provider>>

PageMints(r) ==
  /\ pc[r] = "page_mint"
  /\ Ends(r, "page")
  /\ UNCHANGED <<table, trail, audit, effects, provider>>

-----------------------------------------------------------------------------
\* service.status, service.latestForUser and reconcile

\* A terminal row is answered as read; any other is checked with the provider
StatusReads(r, u, s) ==
  /\ pc[r] = "idle"
  /\ IF sessions[s].user # u
     THEN Ends(r, "SESSION_NOT_FOUND")
     ELSE IF sessions[s].status \in Terminal
          THEN Goto(r, "done", [Read(s) EXCEPT !.answer = sessions[s].status])
          ELSE Goto(r, "lookup", Read(s))
  /\ UNCHANGED <<table, trail, audit, effects, provider>>

\* The user's newest session; the provider is asked only with `reconcile`
LatestReads(r, u, reconcile) ==
  /\ pc[r] = "idle"
  /\ \E s \in LatestForUser(sessions, Session, u) :
       IF reconcile /\ sessions[s].status \notin Terminal
       THEN Goto(r, "lookup", Read(s))
       ELSE Goto(r, "done", [Read(s) EXCEPT !.answer = sessions[s].status])
  /\ UNCHANGED <<table, trail, audit, effects, provider>>

\* The provider's current review of an applicant: its newest notice with a
\* status, none before the first
Reviews(a) == {i \in 1 .. Len(journal) :
                 journal[i].applicant = a /\ journal[i].status # NoStatus}

\* The applicant found is not passed on to the write
BugReconcilesUnbound(r, a, bind, i) ==
  Goto(r, "apply", [loc[r] EXCEPT !.basis = i,
         !.status = IF i = 0 THEN "initial" ELSE journal[i].status])

Reconciles(r, a, bind, i) ==
  Goto(r, "apply", [loc[r] EXCEPT
         !.applicant = a, !.bind = bind, !.basis = i,
         !.status = IF i = 0 THEN "initial" ELSE journal[i].status])

\* provider.getStatus(a), or the status of the applicant getStatusByUserId found
LookupAnswers(r, a, bind) ==
  \/ Reviews(a) = {} /\ Reconciles(r, a, bind, 0)
  \/ \E i \in Newest(Reviews(a)) : Reconciles(r, a, bind, i)

\* reconcile: by the applicant the row had when it was read, else by the user
Lookup(r) ==
  /\ pc[r] = "lookup"
  /\ \/ /\ loc[r].applicant # NoApplicant
        /\ LookupAnswers(r, loc[r].applicant, FALSE)
     \/ /\ loc[r].applicant = NoApplicant /\ UserLookup
        /\ LET known == {a \in applicants : Owner[a] = sessions[loc[r].sid].user}
           IN  \/ known = {} /\ Reconciles(r, NoApplicant, FALSE, 0)
               \/ \E a \in known : LookupAnswers(r, a, TRUE)
     \/ /\ loc[r].applicant = NoApplicant /\ ~UserLookup
        /\ Finish(r, loc[r].seen)
  /\ UNCHANGED <<table, trail, audit, effects, provider>>

-----------------------------------------------------------------------------
\* service.handleWebhookEvent: two reads, then the write

\* What a webhook keeps of the notice it carries
Carries(i) == [Blank EXCEPT !.basis = i, !.source = "webhook",
                            !.applicant = journal[i].applicant,
                            !.status = journal[i].status,
                            !.stood = {s \in Session :
                                         sessions[s].applicant = journal[i].applicant}]

\* Acknowledged, and nothing is written, audited or kept of it
SetsAside(r, local, answer) ==
  Goto(r, "done", [local EXCEPT !.rows = created, !.answer = answer])

\* if (!event.status) dropped
BugAnyNotice(i) == TRUE

Actionable(i) == journal[i].status # NoStatus

\* First read.  No session of the applicant, or none on the notice's level:
\* look for an unbound one of the user next
WebhookArrives(r, i) ==
  LET found == SessionByApplicant(sessions, Session, journal[i].applicant,
                                  journal[i].level)
      askUser(s) == /\ journal[i].user # NoUser
                    /\ s # 0 => /\ journal[i].level # NoLevel
                                /\ sessions[s].level # journal[i].level
      next(s) == IF askUser(s) THEN Goto(r, "unbound", [Carries(i) EXCEPT !.sid = s])
                 ELSE IF s = 0 THEN SetsAside(r, Carries(i), "unknown_session")
                 ELSE Goto(r, "apply", [Carries(i) EXCEPT !.sid = s])
  IN
  /\ pc[r] = "idle"
  /\ Actionable(i)
  /\ \/ found = {} /\ next(0)
     \/ \E s \in found : next(s)
  /\ UNCHANGED <<table, trail, audit, effects, provider>>

\* A notice that names no status is acknowledged and dropped
WebhookIgnored(r, i) ==
  /\ pc[r] = "idle"
  /\ ~Actionable(i)
  /\ SetsAside(r, [Blank EXCEPT !.basis = i, !.source = "webhook"], "ignored_unknown_status")
  /\ UNCHANGED <<table, trail, audit, effects, provider>>

\* Second read: the user's newest unbound session is bound by the write; else
\* the session of the first read, if any, takes the status
WebhookReadsUnbound(r) ==
  LET found == LatestUnboundForUser(sessions, Session, journal[loc[r].basis].user)
  IN
  /\ pc[r] = "unbound"
  /\ \/ \E s \in found : Goto(r, "apply", [loc[r] EXCEPT !.sid = s, !.bind = TRUE])
     \/ found = {} /\ loc[r].sid # 0 /\ Goto(r, "apply", loc[r])
     \/ found = {} /\ loc[r].sid = 0 /\ SetsAside(r, loc[r], "unknown_session")
  /\ UNCHANGED <<table, trail, audit, effects, provider>>

-----------------------------------------------------------------------------
\* applyStatusTransition: writeStatus, one transaction, then runEffects

\* A read answers with what the provider said, not with the row
BugAnswersFound(r, outcome, row) ==
  IF loc[r].source = "webhook" THEN outcome ELSE loc[r].status

\* What the handler answers with: a webhook the outcome, a read the row's status
Outcome(r, outcome, row) == IF loc[r].source = "webhook" THEN outcome ELSE row.status

\* The row binding leaves, when the write asks for one
Bound(r) == LET row == sessions[loc[r].sid]
            IN  IF loc[r].bind THEN BindApplicantId(row, loc[r].applicant) ELSE row

\* The row bindApplicantId answers with is not compared
BugNeverMismatched(r) == FALSE

Mismatched(r) == loc[r].bind /\ Bound(r).applicant # loc[r].applicant

\* The row belongs to another applicant: refused, and audited as such
WriteMismatch(r) ==
  /\ pc[r] = "apply"
  /\ Mismatched(r)
  /\ Audit(loc[r].sid, "applicant_mismatch")
  /\ Finish(r, Outcome(r, "rejected_unbound", Bound(r)))
  /\ UNCHANGED <<table, trail, effects, provider>>

\* The previous status taken from the read before the transaction
BugEntryOfStaleRead(r) ==
  [previousStatus |-> loc[r].seen, status |-> loc[r].status,
   source |-> loc[r].source, basis |-> loc[r].basis]

Entry(r) ==
  [previousStatus |-> Bound(r).status, status |-> loc[r].status,
   source |-> loc[r].source, basis |-> loc[r].basis]

\* Binding, the conditional write and its status_updated entry
WriteUpdates(r) ==
  LET s == loc[r].sid  row == UpdateSessionStatus(Bound(r), loc[r].status)
  IN
  /\ pc[r] = "apply"
  /\ ~Mismatched(r)
  /\ WriteOutcome(Bound(r), loc[r].status) = "updated"
  /\ sessions' = [sessions EXCEPT ![s] = row]
  /\ trail' = [trail EXCEPT ![s] = Append(@, Entry(r))]
  /\ Goto(r, "effect", [loc[r] EXCEPT !.entry = Len(trail[s]) + 1,
                                      !.answer = Outcome(r, "updated", row)])
  /\ UNCHANGED <<created, audit, effects, provider>>

\* Same status, or a terminal row: the binding stays; a refused webhook is
\* audited, a refused read is not
WriteKeeps(r) ==
  LET s == loc[r].sid  outcome == WriteOutcome(Bound(r), loc[r].status)
  IN
  /\ pc[r] = "apply"
  /\ ~Mismatched(r)
  /\ outcome # "updated"
  /\ sessions' = [sessions EXCEPT ![s] = Bound(r)]
  /\ IF outcome = "rejected_terminal" /\ loc[r].source = "webhook"
     THEN Audit(s, "terminal_status") ELSE UNCHANGED audit
  /\ Finish(r, Outcome(r, outcome, Bound(r)))
  /\ UNCHANGED <<created, trail, effects, provider>>

\* An effect that throws is called again
BugEffectRetries(r) ==
  /\ pc[r] = "effect"
  /\ effects' = [effects EXCEPT ![loc[r].sid] = Append(@, loc[r].entry)]
  /\ Finish(r, loc[r].answer) \/ Goto(r, "effect", loc[r])
  /\ UNCHANGED <<table, trail, audit, provider>>

\* effects.onStatusTransition, after the commit; the host's effect may throw
Effect(r) ==
  /\ pc[r] = "effect"
  /\ effects' = [effects EXCEPT ![loc[r].sid] = Append(@, loc[r].entry)]
  /\ \/ Finish(r, loc[r].answer)
     \/ Goto(r, "effect_audit", loc[r])
  /\ UNCHANGED <<table, trail, audit, provider>>

EffectAudits(r) ==
  /\ pc[r] = "effect_audit"
  /\ Audit(loc[r].sid, "effect_failed")
  /\ Finish(r, loc[r].answer)
  /\ UNCHANGED <<table, trail, effects, provider>>

-----------------------------------------------------------------------------
\* Failures

\* The store rejects.  A webhook answers 500 and will be retried; reconcile
\* swallows the error and answers with the row it read
StoreFails(r) ==
  /\ \/ /\ pc[r] \in {"start_bind", "refresh_audit", "creation_failed", "unbound"}
        /\ Ends(r, "500")
     \/ /\ pc[r] \in {"apply", "effect_audit"}
        /\ IF loc[r].source = "webhook" THEN Ends(r, "500") ELSE Finish(r, loc[r].seen)
  /\ UNCHANGED <<table, trail, audit, effects, provider>>

\* The provider rejects (createSession: StartMintFails)
ProviderFails(r) ==
  /\ \/ pc[r] = "refresh_mint" /\ Ends(r, "PROVIDER_UNAVAILABLE")
     \/ pc[r] = "page_mint" /\ Ends(r, "502")
     \/ pc[r] = "lookup" /\ Finish(r, loc[r].seen)
  /\ UNCHANGED <<table, trail, audit, effects, provider>>

\* The process dies, or the connection with it, and the call is lost
Lost(r) ==
  /\ pc[r] \notin {"idle", "done"}
  /\ Ends(r, "lost")
  /\ UNCHANGED <<table, trail, audit, effects, provider>>

\* The provider reviews an applicant, and files it if it is new; it may also
\* send a notice that names no status
ProviderNotifies(n) ==
  /\ Len(journal) < MaxNotices
  /\ n.applicant \in applicants \/ ~MintsApplicant
  /\ journal' = Append(journal, n)
  /\ applicants' = applicants \cup {n.applicant}
  /\ UNCHANGED <<table, trail, audit, effects, pc, loc>>

-----------------------------------------------------------------------------
Client(r) ==
  \/ StartFailsToPersist(r)
  \/ \E u \in User :
       \/ \E lvl \in Level \cup {NoLevel} : StartPersists(r, u, lvl)
       \/ \E s \in Session : RefreshReads(r, u, s) \/ StatusReads(r, u, s)
       \/ \E reconcile \in BOOLEAN : LatestReads(r, u, reconcile)
  \/ \E s \in Session : PageReads(r, s)

Webhook(r) ==
  \E i \in 1 .. Len(journal) : WebhookArrives(r, i) \/ WebhookIgnored(r, i)

\* The next await of a request already under way comes back
Continues(r) ==
  \/ StartMints(r) \/ StartMintFails(r) \/ StartAuditsFailure(r) \/ StartBinds(r)
  \/ RefreshMints(r) \/ RefreshAudits(r) \/ PageMints(r)
  \/ Lookup(r) \/ WebhookReadsUnbound(r)
  \/ WriteMismatch(r) \/ WriteUpdates(r) \/ WriteKeeps(r)
  \/ Effect(r) \/ EffectAudits(r)

Fails(r) == StoreFails(r) \/ ProviderFails(r) \/ Lost(r)

Next ==
  \/ \E r \in Request : Client(r) \/ Webhook(r) \/ Continues(r) \/ Fails(r)
  \/ \E n \in NoticeKinds : ProviderNotifies(n)

Spec == Init /\ [][Next]_vars

-----------------------------------------------------------------------------
\* Properties

\* The status_updated rows of a session are its history without a gap: each
\* starts from the status the one before it left, the first from the status
\* createSession wrote, none leaves a terminal status, and the row holds what
\* the last one wrote.  The row and its audit row commit in one transaction.
StatusAfter(s, i) == IF i = 0 THEN "initial" ELSE trail[s][i].status

TrailIsHistory ==
  \A s \in Session :
    /\ \A i \in 1 .. Len(trail[s]) :
         /\ trail[s][i].previousStatus = StatusAfter(s, i - 1)
         /\ trail[s][i].previousStatus \notin Terminal \cup {trail[s][i].status}
    /\ sessions[s].status = StatusAfter(s, Len(trail[s]))

\* No session shows a status its own applicant never had at the provider: the
\* optional binding and the write are one transaction, a mismatch refuses both,
\* and a lookup made for an applicant is written to a row still bound to it.
Reported(a, status) ==
  \E i \in 1 .. Len(journal) : journal[i].applicant = a /\ journal[i].status = status

VerdictIsReported ==
  \A s \in Session :
    sessions[s].status # "initial" =>
      /\ sessions[s].applicant # NoApplicant
      /\ Reported(sessions[s].applicant, sessions[s].status)

\* No session is ever bound to an applicant filed under another user, although
\* handleWebhookEvent looks sessions up by whatever user the notice names.
ApplicantIsOwners ==
  \A s \in Session :
    sessions[s].applicant # NoApplicant =>
      Owner[sessions[s].applicant] = sessions[s].user

\* The host's effect runs for committed changes only and never twice for one:
\* runEffects follows the commit and skips "unchanged" and refused writes, so
\* a notice delivered again or racing a status read does not repeat it.
EffectsAreCommittedOnce ==
  \A s \in Session : \A i, j \in 1 .. Len(effects[s]) :
    /\ effects[s][i] \in 1 .. Len(trail[s])
    /\ i # j => effects[s][i] # effects[s][j]

\* A status answered to a client is one its session held when the request read
\* it or later: never the provider's claim when the write was refused, never
\* the status of a transaction that did not commit.
HeldSince(s, i, status) ==
  \E j \in i .. Len(trail[s]) : StatusAfter(s, j) = status

AnswersAreHeld ==
  \A r \in Request :
    pc[r] = "done" /\ loc[r].answer \in Status =>
      HeldSince(loc[r].sid, loc[r].mark, loc[r].answer)

\* An acknowledged notice that reached the write is accounted for: its status
\* was held by a session of its applicant, or the refusal is in the audit log
\* under its reason.  (A 200 stops the provider's retries.  The two other answers
\* that are a 200 write nothing: SetAsideHadNoSession.)
NoticesAreAccountedFor ==
  \A r \in Request :
    pc[r] = "done" =>
      LET s == loc[r].sid  answer == loc[r].answer IN
      /\ answer \in {"updated", "unchanged"} =>
           /\ sessions[s].applicant = loc[r].applicant
           /\ HeldSince(s, 0, loc[r].status)
      /\ answer = "rejected_terminal" =>
           sessions[s].status \in Terminal /\ audit[s]["terminal_status"] > 0
      /\ answer = "rejected_unbound" =>
           /\ sessions[s].applicant \notin {NoApplicant, loc[r].applicant}
           /\ audit[s]["applicant_mismatch"] > 0

\* A notice acknowledged without a trace, whose verdict only a later notice or
\* status read can bring, had no session to go to: ignored_unknown_status names
\* no status, and for unknown_session no session was its applicant's when it
\* came in, whatever their levels, and none of the user it names was left
\* unbound by its second read.  No more is true: a session bound to its
\* applicant between the two reads is missed by both.
SetAsideHadNoSession ==
  \A r \in Request :
    pc[r] = "done" =>
      LET notice == journal[loc[r].basis] IN
      /\ loc[r].answer = "ignored_unknown_status" => notice.status = NoStatus
      /\ loc[r].answer = "unknown_session" =>
           /\ loc[r].stood = {}
           /\ \A s \in 1 .. loc[r].rows :
                sessions[s].user = notice.user => sessions[s].applicant # NoApplicant

\* A token is asked for the session's own applicant, whoever bound it since, and
\* for a session that was live when refresh or hostedPage read it.  A verdict
\* found at the token's return is one committed after that read: no more is
\* true, for the row is not read again.
Minting == {"refresh_mint", "refresh_audit", "page_mint"}

MintsAreOwn ==
  \A r \in Request : pc[r] \in Minting =>
    LET s == loc[r].sid  a == loc[r].applicant IN
    /\ s \in Session
    /\ a # NoApplicant => sessions[s].applicant = a /\ Owner[a] = sessions[s].user
    /\ loc[r].mark \in 0 .. Len(trail[s])
    /\ StatusAfter(s, loc[r].mark) \notin Terminal

\* approved and finallyRejected are never left, whichever of a webhook, a late
\* notice or a status read that looked the provider up before carries the write.
TerminalIsFinal ==
  [][\A s \in Session : sessions[s].status \in Terminal =>
       sessions'[s].status = sessions[s].status]_vars

\* A session once bound keeps its applicant: start's own bind, a webhook and a
\* reconciling read may race for it, and only one of them wins.
BindingIsFinal ==
  [][\A s \in Session : sessions[s].applicant # NoApplicant =>
       sessions'[s].applicant = sessions[s].applicant]_vars

-----------------------------------------------------------------------------
(***************************************************************************)
(* The inductive invariant.  What a request read is old by the time it     *)
(* writes: these conjuncts say what is still true of it then.              *)
(***************************************************************************)

\* The locals of a webhook that has read once are its notice's
CarriesNotice(r) ==
  /\ loc[r].basis \in 1 .. Len(journal)
  /\ loc[r].applicant = journal[loc[r].basis].applicant
  /\ loc[r].status = journal[loc[r].basis].status
  /\ ~loc[r].bind

\* A status about to be written was reported for the applicant to bind, or for
\* the one the row already has
Warranted(r) ==
  LET a == loc[r].applicant  row == sessions[loc[r].sid] IN
  /\ loc[r].bind => a \in Applicant /\ Owner[a] = row.user
  /\ loc[r].status # "initial" =>
       a \in Applicant /\ Reported(a, loc[r].status) /\ (loc[r].bind \/ row.applicant = a)

InFlight(r) ==
  LET a == loc[r].applicant  s == loc[r].sid IN
  /\ pc[r] \notin {"idle", "done", "unbound"} => s \in Session
  /\ pc[r] = "start_bind" => a \in Applicant /\ Owner[a] = sessions[s].user
  /\ pc[r] = "lookup" => /\ a # NoApplicant => sessions[s].applicant = a
                         /\ ~loc[r].bind
  /\ pc[r] = "unbound" => /\ CarriesNotice(r)
                          /\ s # 0 => s \in Session /\ sessions[s].applicant = a
  /\ pc[r] = "apply" => Warranted(r)

NoticesNameOwners ==
  \A i \in 1 .. Len(journal) : journal[i].user \in {Owner[journal[i].applicant], NoUser}

JournalBounded == Len(journal) <= MaxNotices

IInv == /\ TypeOK /\ JournalBounded /\ VerdictIsReported /\ ApplicantIsOwners /\ NoticesNameOwners
        /\ \A r \in Request : InFlight(r)

-----------------------------------------------------------------------------
\* The whole service implements SessionLifecycle: every step of a handler opens
\* a session, binds it, decides it as the provider reported, or leaves it alone.
Lifecycle == INSTANCE SessionLifecycle WITH
               rows <- sessions, opened <- Session,
               reported <- {p \in Applicant \X Status : Reported(p[1], p[2])}

ImplementsLifecycle == Lifecycle!LifeSpec
=============================================================================
