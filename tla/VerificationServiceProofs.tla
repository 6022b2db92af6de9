---------------------- MODULE VerificationServiceProofs ----------------------
(***************************************************************************)
(* Theorems about VerificationService, for every number of requests,       *)
(* sessions, notices, users, applicants and levels.                        *)
(***************************************************************************)
EXTENDS VerificationService, TLAPS

\* The local variables a handler starts from are well typed
LEMMA BlankIsLocal == Blank \in Local
  BY ServiceAssumption, SMT DEF Blank, Local, Status, Answer

\* One request moves and the others stand still
Others(r) == \A q \in Request \ {r} : pc'[q] = pc[q] /\ loc'[q] = loc[q]

\* Moving a request on keeps the two request variables well typed
LEMMA GotoType ==
  ASSUME TypeOK, NEW r \in Request, NEW next \in PC, NEW local \in Local,
         Goto(r, next, local)
  PROVE  /\ pc' \in [Request -> PC] /\ loc' \in [Request -> Local]
         /\ pc'[r] = next /\ loc'[r] = local /\ Others(r)
  BY DEF TypeOK, Goto, Others

\* So does ending it, with the locals an answer is about or with none
LEMMA FinishType ==
  ASSUME TypeOK, NEW r \in Request, NEW answer \in Answer,
         Finish(r, answer) \/ Ends(r, answer)
  PROVE  /\ pc' \in [Request -> PC] /\ loc' \in [Request -> Local]
         /\ Others(r) /\ InFlight(r)'
<1> DEFINE local == [Blank EXCEPT !.sid = loc[r].sid, !.mark = loc[r].mark,
                       !.applicant = loc[r].applicant, !.status = loc[r].status,
                       !.source = loc[r].source, !.answer = answer]
<1>1. local \in Local /\ [Blank EXCEPT !.answer = answer] \in Local
  BY BlankIsLocal DEF TypeOK, Local
<1>2. "done" \in PC
  BY DEF PC
<1>3. Goto(r, "done", local) \/ Goto(r, "done", [Blank EXCEPT !.answer = answer])
  BY DEF Finish, Ends
<1>4. /\ pc' \in [Request -> PC] /\ loc' \in [Request -> Local]
      /\ pc'[r] = "done" /\ Others(r)
  BY <1>1, <1>2, <1>3, GotoType
<1> QED BY <1>4 DEF InFlight

\* And setting a notice aside
LEMMA SetsAsideType ==
  ASSUME TypeOK, NEW r \in Request, NEW local \in Local, NEW answer \in Answer,
         SetsAside(r, local, answer)
  PROVE  /\ pc' \in [Request -> PC] /\ loc' \in [Request -> Local]
         /\ Others(r) /\ InFlight(r)'
<1> DEFINE next == [local EXCEPT !.rows = created, !.answer = answer]
<1>1. next \in Local
  BY DEF TypeOK, Local
<1>2. "done" \in PC
  BY DEF PC
<1>3. Goto(r, "done", next)
  BY DEF SetsAside
<1>4. /\ pc' \in [Request -> PC] /\ loc' \in [Request -> Local]
      /\ pc'[r] = "done" /\ Others(r)
  BY <1>1, <1>2, <1>3, GotoType
<1> QED BY <1>4 DEF InFlight

\* A read hands the request well-typed locals
LEMMA ReadIsLocal ==
  ASSUME TypeOK, NEW s \in SessionId
  PROVE  Read(s) \in Local
<1>1. /\ sessions[s].status \in Status
      /\ sessions[s].applicant \in Applicant \cup {NoApplicant}
  BY DEF TypeOK, Row
<1>2. Len(trail[s]) \in Nat
  BY DEF TypeOK
<1>3. s \in 0 .. MaxSessions
  BY ServiceAssumption DEF SessionId
<1> QED BY <1>1, <1>2, <1>3, BlankIsLocal DEF Read, Local

\* An audit row is one more of its action
LEMMA AuditType ==
  ASSUME TypeOK, NEW s \in SessionId, NEW action \in AuditAction, Audit(s, action)
  PROVE  audit' \in [SessionId -> [AuditAction -> Nat]]
  BY DEF TypeOK, Audit

-----------------------------------------------------------------------------
\* What every step keeps: rows, their users, bindings and verdicts, and the journal
Grows ==
  /\ created' \in created .. MaxSessions
  /\ \A s \in Session :
       /\ sessions'[s].user = sessions[s].user
       /\ sessions[s].applicant # NoApplicant =>
            sessions'[s].applicant = sessions[s].applicant
       /\ sessions[s].status \in Terminal => sessions'[s].status = sessions[s].status
  /\ Len(journal) <= Len(journal')
  /\ \A i \in 1 .. Len(journal) : journal'[i] = journal[i]

\* The journal only grows, so what it reported stays reported
LEMMA ReportedStays ==
  ASSUME TypeOK, TypeOK', Grows, NEW a, NEW status, Reported(a, status)
  PROVE  Reported(a, status)'
<1>1. Len(journal) \in Nat /\ Len(journal') \in Nat
  BY DEF TypeOK
<1> QED BY <1>1 DEF Reported, Grows

\* A request that stands still keeps what its locals say true
LEMMA OthersStay ==
  ASSUME TypeOK, TypeOK', Grows, NEW q \in Request, InFlight(q),
         pc'[q] = pc[q], loc'[q] = loc[q]
  PROVE  InFlight(q)'
<1> DEFINE a == loc[q].applicant  s == loc[q].sid
<1>1. Session \subseteq Session' /\ created \in Nat /\ created' \in Nat
  BY ServiceAssumption DEF Grows, TypeOK, Session
<1>2. s \in Session => /\ sessions'[s].user = sessions[s].user
                       /\ sessions[s].applicant # NoApplicant =>
                            sessions'[s].applicant = sessions[s].applicant
  BY DEF Grows
<1>3. Len(journal) \in Nat /\ Len(journal') \in Nat
  BY DEF TypeOK
<1>4. CarriesNotice(q) => CarriesNotice(q)' /\ a \in Applicant
  <2>1. loc[q].basis \in 1 .. Len(journal) => journal[loc[q].basis] \in Notice
    BY DEF TypeOK
  <2> QED BY <1>3, <2>1 DEF CarriesNotice, Grows, Notice
<1>5. s \in Session /\ Warranted(q) => Warranted(q)'
  <2>1. Reported(a, loc[q].status) => Reported(a, loc[q].status)'
    BY ReportedStays
  <2> QED BY <1>2, <2>1, StoreAssumption DEF Warranted
<1> QED BY <1>1, <1>2, <1>4, <1>5, StoreAssumption DEF InFlight

\* Steps that leave the sessions and the journal alone keep what is said of them
LEMMA QuietSteps ==
  ASSUME IInv, UNCHANGED <<sessions, created, journal>>
  PROVE  /\ Grows /\ JournalBounded'
         /\ VerdictIsReported' /\ ApplicantIsOwners' /\ NoticesNameOwners'
<1>1. created \in Nat /\ created <= MaxSessions /\ Len(journal) \in Nat
  BY ServiceAssumption DEF IInv, TypeOK
<1> QED BY <1>1, ServiceAssumption
        DEF IInv, Grows, VerdictIsReported, ApplicantIsOwners, NoticesNameOwners,
            Reported, Session, JournalBounded

-----------------------------------------------------------------------------
\* A request under way is about a session that exists
LEMMA Placed ==
  ASSUME IInv, NEW r \in Request, pc[r] \notin {"idle", "done", "unbound"}
  PROVE  /\ loc[r] \in Local /\ loc[r].sid \in Session /\ loc[r].sid \in SessionId
         /\ loc[r].sid # 0 /\ sessions[loc[r].sid] \in Row
<1>1. loc[r] \in Local /\ loc[r].sid \in Session
  BY DEF IInv, TypeOK, InFlight
<1>2. created \in Nat /\ created <= MaxSessions
  BY ServiceAssumption DEF IInv, TypeOK
<1>3. loc[r].sid \in SessionId /\ loc[r].sid # 0
  BY <1>1, <1>2, ServiceAssumption DEF Session, SessionId
<1>4. sessions[loc[r].sid] \in Row
  BY <1>3 DEF IInv, TypeOK
<1> QED BY <1>1, <1>3, <1>4

\* A session that exists has a row
LEMMA SessionIsId ==
  ASSUME IInv, NEW s \in Session
  PROVE  s \in SessionId /\ sessions[s] \in Row /\ s # 0
<1>1. created \in Nat /\ created <= MaxSessions
  BY ServiceAssumption DEF IInv, TypeOK
<1>2. s \in SessionId /\ s # 0
  BY <1>1, ServiceAssumption DEF Session, SessionId
<1> QED BY <1>2 DEF IInv, TypeOK

\* What a step of request r that leaves sessions and journal alone must show
Quiet(r) == /\ TypeOK' /\ InFlight(r)' /\ Others(r)
            /\ UNCHANGED <<sessions, created, journal>>

\* A step that only ends a request, with perhaps an audit row or an effect
LEMMA QuietEnd ==
  ASSUME IInv, NEW r \in Request, NEW answer \in Answer,
         Finish(r, answer) \/ Ends(r, answer),
         UNCHANGED <<table, trail, provider>>,
         UNCHANGED audit \/ (\E s \in SessionId, k \in AuditAction : Audit(s, k)),
         effects' \in [SessionId -> Seq(Nat)]
  PROVE  Quiet(r)
<1>1. TypeOK
  BY DEF IInv
<1>2. /\ pc' \in [Request -> PC] /\ loc' \in [Request -> Local]
      /\ Others(r) /\ InFlight(r)'
  BY <1>1, FinishType
<1>3. audit' \in [SessionId -> [AuditAction -> Nat]]
  BY <1>1, AuditType DEF TypeOK
<1> QED BY <1>1, <1>2, <1>3 DEF Quiet, TypeOK, table, provider

\* A step that sets a notice aside
LEMMA QuietAside ==
  ASSUME IInv, NEW r \in Request, NEW local \in Local, NEW answer \in Answer,
         SetsAside(r, local, answer),
         UNCHANGED <<table, trail, audit, effects, provider>>
  PROVE  Quiet(r)
<1>1. TypeOK
  BY DEF IInv
<1>2. /\ pc' \in [Request -> PC] /\ loc' \in [Request -> Local]
      /\ Others(r) /\ InFlight(r)'
  BY <1>1, SetsAsideType
<1> QED BY <1>1, <1>2 DEF Quiet, TypeOK, table, provider

\* A step that only takes a request to its next await
LEMMA QuietGoto ==
  ASSUME IInv, NEW r \in Request, NEW next \in PC, NEW local \in Local,
         Goto(r, next, local),
         UNCHANGED <<table, trail, audit, journal>>, applicants' \subseteq Applicant,
         effects' \in [SessionId -> Seq(Nat)],
         InFlight(r)'
  PROVE  Quiet(r)
<1>1. TypeOK
  BY DEF IInv
<1>2. /\ pc' \in [Request -> PC] /\ loc' \in [Request -> Local] /\ Others(r)
  BY <1>1, GotoType
<1> QED BY <1>1, <1>2 DEF Quiet, TypeOK, table

\* The awaits that ask nothing more of a request than its session
Plain == {"start_mint", "creation_failed", "refresh_mint", "refresh_audit",
          "page_mint", "effect", "effect_audit"}

LEMMA InFlightPlain ==
  ASSUME TypeOK, NEW r \in Request, NEW local \in Local, NEW next \in Plain,
         Goto(r, next, local), local.sid \in Session'
  PROVE  InFlight(r)'
<1>1. next \in PC
  BY DEF PC, Plain
<1>2. pc'[r] = next /\ loc'[r] = local
  BY <1>1, GotoType
<1> QED BY <1>2 DEF InFlight, Plain

-----------------------------------------------------------------------------
\* The steps of start that leave the sessions alone
LEMMA StartSteps ==
  ASSUME IInv, NEW r \in Request,
         \/ StartFailsToPersist(r) \/ StartMints(r) \/ StartMintFails(r)
         \/ StartAuditsFailure(r)
  PROVE  Quiet(r)
<1>0. {"PERSISTENCE_FAILED", "PROVIDER_UNAVAILABLE", "started"} \subseteq Answer
  BY DEF Answer
<1>t. TypeOK /\ effects \in [SessionId -> Seq(Nat)] /\ applicants \subseteq Applicant
  BY DEF IInv, TypeOK
<1>1. CASE StartFailsToPersist(r)
  <2>1. /\ Ends(r, "PERSISTENCE_FAILED")
        /\ UNCHANGED <<table, trail, audit, effects, provider>>
    BY <1>1 DEF StartFailsToPersist
  <2> QED BY <1>0, <1>t, <2>1, QuietEnd
<1>2. CASE StartMints(r)
  <2>1. loc[r].sid \in Session /\ loc[r] \in Local /\ "start_bind" \in PC
    BY <1>2, Placed DEF StartMints, PC
  <2>2. CASE MintsApplicant
    <3>1. PICK a \in Applicant \ applicants :
            /\ Owner[a] = sessions[loc[r].sid].user
            /\ applicants' = applicants \cup {a}
            /\ Goto(r, "start_bind", [loc[r] EXCEPT !.applicant = a])
      BY <1>2, <2>2 DEF StartMints
    <3> DEFINE local == [loc[r] EXCEPT !.applicant = a]
    <3>2. local \in Local /\ local.sid = loc[r].sid /\ local.applicant = a
      BY <2>1 DEF Local
    <3>3. pc'[r] = "start_bind" /\ loc'[r] = local
      BY <1>t, <2>1, <3>1, <3>2, GotoType
    <3>4. UNCHANGED <<table, trail, audit, effects, journal>>
      BY <1>2 DEF StartMints
    <3>5. InFlight(r)'
      BY <2>1, <3>1, <3>2, <3>3, <3>4 DEF InFlight, table, Session
    <3>6. applicants' \subseteq Applicant
      BY <1>t, <3>1
    <3>7. effects' \in [SessionId -> Seq(Nat)] /\ Goto(r, "start_bind", local)
      BY <1>t, <3>1, <3>4
    <3> HIDE DEF local
    <3> QED BY <2>1, <3>2, <3>4, <3>5, <3>6, <3>7, QuietGoto
  <2>3. CASE ~MintsApplicant
    <3>1. /\ Ends(r, "started")
          /\ UNCHANGED <<table, trail, audit, effects, provider>>
      BY <1>2, <2>3 DEF StartMints, provider
    <3> QED BY <1>0, <1>t, <3>1, QuietEnd
  <2> QED BY <2>2, <2>3
<1>3. CASE StartMintFails(r)
  <2>1. loc[r].sid \in Session /\ loc[r] \in Local
    BY <1>3, Placed DEF StartMintFails
  <2>2. /\ Goto(r, "creation_failed", loc[r])
        /\ UNCHANGED <<table, trail, audit, effects, provider>>
    BY <1>3 DEF StartMintFails
  <2>3. InFlight(r)'
    BY <1>t, <2>1, <2>2, InFlightPlain DEF Plain, table, Session
  <2>4. "creation_failed" \in PC
    BY DEF PC
  <2> QED BY <1>t, <2>1, <2>2, <2>3, <2>4, QuietGoto DEF provider
<1>4. CASE StartAuditsFailure(r)
  <2>1. loc[r].sid \in SessionId /\ "creation_failed" \in AuditAction
    BY <1>4, Placed DEF StartAuditsFailure, AuditAction
  <2>2. /\ Ends(r, "PROVIDER_UNAVAILABLE")
        /\ Audit(loc[r].sid, "creation_failed")
        /\ UNCHANGED <<table, trail, effects, provider>>
    BY <1>4 DEF StartAuditsFailure
  <2> QED BY <1>0, <1>t, <2>1, <2>2, QuietEnd
<1> QED BY <1>1, <1>2, <1>3, <1>4

-----------------------------------------------------------------------------
\* refresh, hostedPage, status and latestForUser: the read, from which a
\* request goes on to the provider or ends
LEMMA ReadSteps ==
  ASSUME IInv, NEW r \in Request,
         \/ \E u \in User, s \in Session : RefreshReads(r, u, s) \/ StatusReads(r, u, s)
         \/ \E s \in Session : PageReads(r, s)
         \/ \E u \in User, reconcile \in BOOLEAN : LatestReads(r, u, reconcile)
  PROVE  Quiet(r)
<1>t. /\ TypeOK /\ effects \in [SessionId -> Seq(Nat)] /\ applicants \subseteq Applicant
      /\ {"VALIDATION_ERROR", "SESSION_NOT_FOUND", "404"} \subseteq Answer
      /\ {"refresh_mint", "page_mint", "lookup", "done"} \subseteq PC
  BY DEF IInv, TypeOK, Answer, PC
<1>1. /\ UNCHANGED <<table, trail, audit, effects, provider>>
      /\ \/ \E answer \in Answer : Ends(r, answer)
         \/ \E s \in Session, next \in {"refresh_mint", "page_mint", "lookup"} :
              Goto(r, next, Read(s))
         \/ \E s \in Session :
              Goto(r, "done", [Read(s) EXCEPT !.answer = sessions[s].status])
  BY <1>t DEF RefreshReads, StatusReads, PageReads, LatestReads, LatestForUser, Newest
<1>2. ASSUME NEW answer \in Answer, Ends(r, answer)
      PROVE  Quiet(r)
  BY <1>t, <1>1, <1>2, QuietEnd
<1>3. ASSUME NEW s \in Session, NEW next \in {"refresh_mint", "page_mint", "lookup"},
             Goto(r, next, Read(s))
      PROVE  Quiet(r)
  <2>1. Read(s) \in Local
    BY <1>t, SessionIsId, ReadIsLocal
  <2>2. /\ Read(s).sid = s /\ Read(s).applicant = sessions[s].applicant
        /\ ~Read(s).bind
    BY DEF Read, Blank
  <2>3. pc'[r] = next /\ loc'[r] = Read(s)
    BY <1>t, <1>3, <2>1, GotoType
  <2>4. UNCHANGED <<created, sessions>>
    BY <1>1 DEF table
  <2>5. loc'[r].sid \in Session' /\ sessions'[loc'[r].sid].applicant = loc'[r].applicant
    BY <2>2, <2>3, <2>4 DEF Session
  <2>6. InFlight(r)'
    BY <2>2, <2>3, <2>5 DEF InFlight
  <2> QED BY <1>t, <1>1, <1>3, <2>1, <2>6, QuietGoto DEF provider
<1>4. ASSUME NEW s \in Session,
             Goto(r, "done", [Read(s) EXCEPT !.answer = sessions[s].status])
      PROVE  Quiet(r)
  <2> DEFINE local == [Read(s) EXCEPT !.answer = sessions[s].status]
  <2>1. Read(s) \in Local /\ sessions[s] \in Row
    BY <1>t, SessionIsId, ReadIsLocal
  <2>2. local \in Local
    BY <2>1 DEF Local, Row, Answer
  <2>3. pc'[r] = "done"
    BY <1>t, <1>4, <2>2, GotoType
  <2>4. InFlight(r)'
    BY <2>3 DEF InFlight
  <2> HIDE DEF local
  <2> QED BY <1>t, <1>1, <1>4, <2>2, <2>4, QuietGoto DEF provider, local
<1> QED BY <1>1, <1>2, <1>3, <1>4

\* The tokens of refresh and hostedPage, and refresh's audit row
LEMMA TokenSteps ==
  ASSUME IInv, NEW r \in Request,
         RefreshMints(r) \/ RefreshAudits(r) \/ PageMints(r)
  PROVE  Quiet(r)
<1>t. /\ TypeOK /\ effects \in [SessionId -> Seq(Nat)] /\ applicants \subseteq Applicant
      /\ {"refreshed", "page"} \subseteq Answer
      /\ "refresh_audit" \in PC /\ "token_refreshed" \in AuditAction
  BY DEF IInv, TypeOK, Answer, PC, AuditAction
<1>1. CASE RefreshMints(r)
  <2>1. loc[r].sid \in Session /\ loc[r] \in Local
    BY <1>1, Placed DEF RefreshMints
  <2>2. /\ Goto(r, "refresh_audit", loc[r])
        /\ UNCHANGED <<table, trail, audit, effects, provider>>
    BY <1>1 DEF RefreshMints
  <2>3. InFlight(r)'
    BY <1>t, <2>1, <2>2, InFlightPlain DEF Plain, table, Session
  <2> QED BY <1>t, <2>1, <2>2, <2>3, QuietGoto DEF provider
<1>2. CASE RefreshAudits(r)
  <2>1. loc[r].sid \in SessionId
    BY <1>2, Placed DEF RefreshAudits
  <2>2. /\ Ends(r, "refreshed") /\ Audit(loc[r].sid, "token_refreshed")
        /\ UNCHANGED <<table, trail, effects, provider>>
    BY <1>2 DEF RefreshAudits
  <2> QED BY <1>t, <2>1, <2>2, QuietEnd
<1>3. CASE PageMints(r)
  <2>1. Ends(r, "page") /\ UNCHANGED <<table, trail, audit, effects, provider>>
    BY <1>3 DEF PageMints
  <2> QED BY <1>t, <2>1, QuietEnd
<1> QED BY <1>1, <1>2, <1>3

\* The lookup of reconcile: what it will write is warranted by the provider
LEMMA LookupStep ==
  ASSUME IInv, NEW r \in Request, Lookup(r)
  PROVE  Quiet(r)
<1>t. /\ TypeOK /\ effects \in [SessionId -> Seq(Nat)] /\ applicants \subseteq Applicant
      /\ "apply" \in PC
  BY DEF IInv, TypeOK, PC
<1>u. pc[r] = "lookup" /\ UNCHANGED <<table, trail, audit, effects, provider>>
  BY DEF Lookup
<1>p. loc[r] \in Local /\ loc[r].sid \in Session /\ sessions[loc[r].sid] \in Row
  BY <1>u, Placed
<1>l. (loc[r].applicant # NoApplicant => sessions[loc[r].sid].applicant = loc[r].applicant)
  BY <1>u DEF IInv, InFlight
<1>1. ASSUME NEW a \in Applicant \cup {NoApplicant}, NEW bind \in BOOLEAN,
             NEW i \in Reviews(a) \cup {0}, Reconciles(r, a, bind, i),
             bind => a \in Applicant /\ Owner[a] = sessions[loc[r].sid].user,
             i # 0 => a \in Applicant /\ (bind \/ sessions[loc[r].sid].applicant = a)
      PROVE  Quiet(r)
  <2> DEFINE status == IF i = 0 THEN "initial" ELSE journal[i].status
             local == [loc[r] EXCEPT !.applicant = a, !.bind = bind, !.basis = i,
                                     !.status = status]
  <2>1. i # 0 => /\ i \in 1 .. Len(journal) /\ journal[i] \in Notice
                 /\ journal[i].applicant = a /\ journal[i].status # NoStatus
    BY <1>t DEF Reviews, TypeOK
  <2>2. status \in Status /\ (status # "initial" => i # 0 /\ Reported(a, status))
    BY <2>1 DEF Reported, Notice, Status
  <2>3. i \in 0 .. MaxNotices
    <3>1. CASE i = 0
      BY <3>1, ServiceAssumption
    <3>2. CASE i # 0
      BY <2>1, <3>2, ServiceAssumption DEF IInv, JournalBounded
    <3> QED BY <3>1, <3>2
  <2>4. local \in Local
    BY <1>p, <2>2, <2>3 DEF Local
  <2>5. /\ local.sid = loc[r].sid /\ local.applicant = a /\ local.bind = bind
        /\ local.status = status
    BY <1>p DEF Local
  <2>6. Goto(r, "apply", local)
    BY <1>1 DEF Reconciles
  <2> HIDE DEF local, status
  <2>7. pc'[r] = "apply" /\ loc'[r] = local
    BY <1>t, <2>4, <2>6, GotoType
  <2>8. Warranted(r)'
    BY <1>1, <1>u, <2>2, <2>5, <2>7 DEF Warranted, Reported, table, provider
  <2>9. InFlight(r)'
    BY <1>u, <1>p, <2>5, <2>7, <2>8 DEF InFlight, table, Session
  <2> QED BY <1>t, <1>u, <2>4, <2>6, <2>9, QuietGoto DEF provider
<1>2. CASE loc[r].applicant # NoApplicant
  <2>1. loc[r].applicant \in Applicant
    BY <1>2, <1>p DEF Local
  <2>2. LookupAnswers(r, loc[r].applicant, FALSE)
    BY <1>2 DEF Lookup
  <2>3. \E i \in Reviews(loc[r].applicant) \cup {0} : Reconciles(r, loc[r].applicant, FALSE, i)
    BY <2>2 DEF LookupAnswers, Newest
  <2> QED BY <1>1, <1>2, <1>l, <2>1, <2>3
<1>3. CASE loc[r].applicant = NoApplicant /\ UserLookup
  <2> DEFINE known == {a \in applicants : Owner[a] = sessions[loc[r].sid].user}
  <2>1. \/ Reconciles(r, NoApplicant, FALSE, 0)
        \/ \E a \in known : LookupAnswers(r, a, TRUE)
    BY <1>3 DEF Lookup
  <2>2. ASSUME NEW a \in known, LookupAnswers(r, a, TRUE)
        PROVE  Quiet(r)
    <3>1. \E i \in Reviews(a) \cup {0} : Reconciles(r, a, TRUE, i)
      BY <2>2 DEF LookupAnswers, Newest
    <3>2. a \in Applicant /\ Owner[a] = sessions[loc[r].sid].user
      BY <1>t
    <3> QED BY <1>1, <3>1, <3>2
  <2>3. CASE Reconciles(r, NoApplicant, FALSE, 0)
    BY <1>1, <2>3
  <2> QED BY <2>1, <2>2, <2>3
<1>4. CASE loc[r].applicant = NoApplicant /\ ~UserLookup
  <2>1. Finish(r, loc[r].seen) /\ loc[r].seen \in Answer
    BY <1>4, <1>p DEF Lookup, Local, Answer
  <2> QED BY <1>t, <1>u, <2>1, QuietEnd
<1> QED BY <1>2, <1>3, <1>4, ServiceAssumption

-----------------------------------------------------------------------------
\* The two reads of a webhook
\* What a webhook keeps of its notice is well typed
LEMMA CarriesIsLocal ==
  ASSUME IInv, NEW i \in 1 .. Len(journal), Actionable(i)
  PROVE  /\ journal[i] \in Notice /\ journal[i].applicant \in Applicant
         /\ journal[i].status \in Status /\ i \in 0 .. MaxNotices
         /\ Carries(i) \in Local
<1>1. /\ journal[i] \in Notice /\ journal[i].applicant \in Applicant
      /\ journal[i].status \in Status /\ i \in 0 .. MaxNotices
  <2>1. journal[i] \in Notice /\ Len(journal) \in Nat
    BY DEF IInv, TypeOK
  <2>2. journal[i].status # NoStatus
    BY DEF Actionable
  <2>3. i \in 0 .. MaxNotices
    BY <2>1, ServiceAssumption DEF IInv, JournalBounded
  <2> QED BY <2>1, <2>2, <2>3 DEF Notice
<1>2. Carries(i) \in Local
  <2> DEFINE stood == {s \in Session : sessions[s].applicant = journal[i].applicant}
  <2>1. Carries(i) = [Blank EXCEPT !.basis = i, !.source = "webhook",
                        !.applicant = journal[i].applicant,
                        !.status = journal[i].status, !.stood = stood]
    BY DEF Carries
  <2>2. stood \in SUBSET SessionId
    BY SessionIsId
  <2> HIDE DEF stood
  <2> QED BY <1>1, <2>1, <2>2, BlankIsLocal DEF Local
<1> QED BY <1>1, <1>2

LEMMA WebhookReads ==
  ASSUME IInv, NEW r \in Request,
         \/ \E i \in 1 .. Len(journal) : WebhookArrives(r, i) \/ WebhookIgnored(r, i)
         \/ WebhookReadsUnbound(r)
  PROVE  Quiet(r)
<1>t. /\ TypeOK /\ effects \in [SessionId -> Seq(Nat)] /\ applicants \subseteq Applicant
      /\ {"unknown_session", "ignored_unknown_status"} \subseteq Answer
      /\ {"unbound", "apply"} \subseteq PC
  BY DEF IInv, TypeOK, Answer, PC
<1>1. ASSUME NEW i \in 1 .. Len(journal), WebhookArrives(r, i)
      PROVE  Quiet(r)
  <2> DEFINE found == SessionByApplicant(sessions, Session, journal[i].applicant,
                                         journal[i].level)
  <2>1. /\ journal[i] \in Notice /\ journal[i].applicant \in Applicant
        /\ journal[i].status \in Status /\ i \in 0 .. MaxNotices
        /\ Carries(i) \in Local
    BY <1>1, CarriesIsLocal DEF WebhookArrives
  <2>2. \A s \in found : s \in Session /\ sessions[s].applicant = journal[i].applicant
    BY DEF SessionByApplicant, Newest, Preferred
  <2>3. UNCHANGED <<table, trail, audit, effects, provider>>
    BY <1>1 DEF WebhookArrives
  <2>4. \E s \in {0} \cup found :
          \/ Goto(r, "unbound", [Carries(i) EXCEPT !.sid = s])
          \/ SetsAside(r, Carries(i), "unknown_session")
          \/ s # 0 /\ Goto(r, "apply", [Carries(i) EXCEPT !.sid = s])
    BY <1>1 DEF WebhookArrives
  <2>5. ASSUME NEW s \in {0} \cup found, NEW next \in {"unbound", "apply"},
               next = "apply" => s # 0,
               Goto(r, next, [Carries(i) EXCEPT !.sid = s])
        PROVE  Quiet(r)
    <3> DEFINE local == [Carries(i) EXCEPT !.sid = s]
    <3>1. s \in 0 .. MaxSessions /\ (s # 0 => s \in Session)
      <4>1. s # 0 => s \in Session
        BY <2>2
      <4>2. s \in Session => s \in SessionId
        BY SessionIsId
      <4> QED BY <4>1, <4>2, ServiceAssumption DEF SessionId
    <3>2. Carries(i) \in Local
      BY <2>1
    <3>3. local \in Local
      BY <3>1, <3>2 DEF Local
    <3>4. /\ local.sid = s /\ local.applicant = journal[i].applicant
          /\ local.status = journal[i].status /\ local.basis = i /\ ~local.bind
      BY DEF Carries, Blank
    <3> HIDE DEF local
    <3>5. pc'[r] = next /\ loc'[r] = local
      BY <1>t, <2>5, <3>3, GotoType DEF local
    <3>6. UNCHANGED <<journal, sessions, created>>
      BY <2>3 DEF table, provider
    <3>7. CarriesNotice(r)' /\ loc'[r].applicant \in Applicant
      BY <2>1, <3>4, <3>5, <3>6 DEF CarriesNotice
    <3>8. loc'[r].sid # 0 => /\ loc'[r].sid \in Session'
                             /\ sessions'[loc'[r].sid].applicant = loc'[r].applicant
      BY <2>2, <3>1, <3>4, <3>5, <3>6 DEF Session
    <3>9. next = "apply" => Warranted(r)' /\ loc'[r].sid \in Session'
      BY <2>5, <3>4, <3>5, <3>7, <3>8 DEF Warranted, CarriesNotice, Reported
    <3>10. InFlight(r)'
      BY <2>5, <3>5, <3>7, <3>8, <3>9 DEF InFlight
    <3> QED BY <1>t, <2>3, <2>5, <3>3, <3>10, QuietGoto DEF provider, local
  <2>6. CASE SetsAside(r, Carries(i), "unknown_session")
    BY <1>t, <2>1, <2>3, <2>6, QuietAside
  <2> QED BY <2>4, <2>5, <2>6
<1>2. ASSUME NEW i \in 1 .. Len(journal), WebhookIgnored(r, i)
      PROVE  Quiet(r)
  <2> DEFINE local == [Blank EXCEPT !.basis = i, !.source = "webhook"]
  <2>1. /\ SetsAside(r, local, "ignored_unknown_status")
        /\ UNCHANGED <<table, trail, audit, effects, provider>>
    BY <1>2 DEF WebhookIgnored
  <2>2. i \in 0 .. MaxNotices
    BY <1>t, ServiceAssumption DEF IInv, JournalBounded, TypeOK
  <2>3. local \in Local
    BY <2>2, BlankIsLocal DEF Local
  <2> HIDE DEF local
  <2> QED BY <1>t, <2>1, <2>3, QuietAside
<1>3. CASE WebhookReadsUnbound(r)
  <2> DEFINE i == loc[r].basis
             found == LatestUnboundForUser(sessions, Session, journal[i].user)
  <2>1. pc[r] = "unbound" /\ UNCHANGED <<table, trail, audit, effects, provider>>
    BY <1>3 DEF WebhookReadsUnbound
  <2>2. /\ CarriesNotice(r) /\ loc[r] \in Local
        /\ loc[r].sid # 0 => /\ loc[r].sid \in Session
                             /\ sessions[loc[r].sid].applicant = loc[r].applicant
    BY <1>t, <2>1 DEF IInv, InFlight, TypeOK
  <2>3. /\ i \in 1 .. Len(journal) /\ journal[i] \in Notice
        /\ journal[i].applicant = loc[r].applicant /\ loc[r].applicant \in Applicant
        /\ journal[i].user \in {Owner[loc[r].applicant], NoUser}
        /\ Reported(loc[r].applicant, loc[r].status)
    <3>1. i \in 1 .. Len(journal) /\ loc[r].applicant = journal[i].applicant
          /\ loc[r].status = journal[i].status
      BY <2>2 DEF CarriesNotice
    <3>2. journal[i] \in Notice
      BY <1>t, <3>1 DEF TypeOK
    <3> QED BY <3>1, <3>2 DEF IInv, NoticesNameOwners, Reported, Notice
  <2>4. UNCHANGED <<journal, sessions, created>>
    BY <2>1 DEF table, provider
  <2>5. ASSUME NEW s \in found, Goto(r, "apply", [loc[r] EXCEPT !.sid = s, !.bind = TRUE])
        PROVE  Quiet(r)
    <3> DEFINE local == [loc[r] EXCEPT !.sid = s, !.bind = TRUE]
    <3>1. s \in Session /\ sessions[s].user = journal[i].user
      BY DEF LatestUnboundForUser, Newest
    <3>2. s \in 0 .. MaxSessions /\ sessions[s].user \in User
      BY <3>1, SessionIsId, ServiceAssumption DEF SessionId, Row
    <3>3. sessions[s].user = Owner[loc[r].applicant]
      BY <2>3, <3>1, <3>2, ServiceAssumption
    <3>4. /\ local \in Local /\ local.sid = s /\ local.applicant = loc[r].applicant
          /\ local.status = loc[r].status /\ local.bind
      BY <2>2, <3>2 DEF Local
    <3> HIDE DEF local
    <3>5. pc'[r] = "apply" /\ loc'[r] = local
      BY <1>t, <2>5, <3>4, GotoType DEF local
    <3>6. Warranted(r)'
      BY <2>3, <2>4, <3>3, <3>4, <3>5 DEF Warranted, Reported
    <3>7. InFlight(r)'
      BY <2>4, <3>1, <3>4, <3>5, <3>6 DEF InFlight, Session
    <3> QED BY <1>t, <2>1, <2>5, <3>4, <3>7, QuietGoto DEF provider, local
  <2>6. CASE loc[r].sid # 0 /\ Goto(r, "apply", loc[r])
    <3>1. pc'[r] = "apply" /\ loc'[r] = loc[r]
      BY <1>t, <2>2, <2>6, GotoType
    <3>2. Warranted(r)'
      BY <2>2, <2>3, <2>4, <2>6, <3>1 DEF Warranted, Reported, CarriesNotice
    <3>3. InFlight(r)'
      BY <2>2, <2>4, <2>6, <3>1, <3>2 DEF InFlight, Session
    <3> QED BY <1>t, <2>1, <2>2, <2>6, <3>3, QuietGoto DEF provider
  <2>7. CASE SetsAside(r, loc[r], "unknown_session")
    BY <1>t, <2>1, <2>2, <2>7, QuietAside
  <2> QED BY <1>3, <2>5, <2>6, <2>7 DEF WebhookReadsUnbound
<1> QED BY <1>1, <1>2, <1>3

-----------------------------------------------------------------------------
\* What is said of rows and journal
Rows == VerdictIsReported /\ ApplicantIsOwners /\ NoticesNameOwners /\ JournalBounded

\* A row written with the same user, the same binding or one of its owner's,
\* and a status its applicant was reported with
LEMMA RowWrite ==
  ASSUME IInv, NEW s \in Session, NEW row \in Row,
         sessions' = [sessions EXCEPT ![s] = row], UNCHANGED <<created, journal>>,
         row.user = sessions[s].user,
         sessions[s].applicant # NoApplicant => row.applicant = sessions[s].applicant,
         row.applicant # NoApplicant => Owner[row.applicant] = row.user,
         sessions[s].status \in Terminal => row.status = sessions[s].status,
         row.status # "initial" => /\ row.applicant # NoApplicant
                                   /\ Reported(row.applicant, row.status)
  PROVE  Grows /\ Rows' /\ sessions' \in [SessionId -> Row]
<1>1. created \in Nat /\ created <= MaxSessions /\ Len(journal) \in Nat
  BY ServiceAssumption DEF IInv, TypeOK
<1>2. sessions \in [SessionId -> Row] /\ s \in SessionId /\ Session \subseteq SessionId
  BY SessionIsId DEF IInv, TypeOK
<1>3. sessions' \in [SessionId -> Row] /\ sessions'[s] = row
      /\ \A t \in Session : t # s => sessions'[t] = sessions[t]
  BY <1>2
<1>4. Session' = Session
  BY DEF Session
<1>5. Grows
  BY <1>1, <1>3, ServiceAssumption DEF Grows
<1>6. VerdictIsReported'
  BY <1>3, <1>4 DEF IInv, VerdictIsReported, Reported
<1>7. ApplicantIsOwners'
  BY <1>3, <1>4 DEF IInv, ApplicantIsOwners
<1>8. NoticesNameOwners' /\ JournalBounded'
  BY DEF IInv, NoticesNameOwners, JournalBounded
<1> QED BY <1>3, <1>5, <1>6, <1>7, <1>8 DEF Rows

\* The row that binding leaves for a warranted write that finds no mismatch
LEMMA BoundRow ==
  ASSUME IInv, NEW r \in Request, pc[r] = "apply"
  PROVE  LET old == sessions[loc[r].sid]  row == Bound(r) IN
         /\ row \in Row /\ row.user = old.user /\ row.status = old.status
         /\ old.applicant # NoApplicant => row.applicant = old.applicant
         /\ row.applicant # NoApplicant => Owner[row.applicant] = row.user
         /\ ~Mismatched(r) /\ loc[r].status # "initial" =>
              /\ row.applicant # NoApplicant
              /\ Reported(row.applicant, loc[r].status)
         /\ row.status # "initial" =>
              row.applicant # NoApplicant /\ Reported(row.applicant, row.status)
<1> DEFINE old == sessions[loc[r].sid]
<1>1. loc[r] \in Local /\ loc[r].sid \in Session /\ old \in Row
  BY Placed
<1>2. Warranted(r)
  BY DEF IInv, InFlight
<1>3. /\ old.applicant # NoApplicant => Owner[old.applicant] = old.user
      /\ old.status # "initial" =>
           old.applicant # NoApplicant /\ Reported(old.applicant, old.status)
  BY <1>1 DEF IInv, ApplicantIsOwners, VerdictIsReported
<1>4. CASE loc[r].bind
  <2>1. Bound(r) = IF old.applicant \in {NoApplicant, loc[r].applicant}
                   THEN [old EXCEPT !.applicant = loc[r].applicant] ELSE old
    BY <1>4 DEF Bound, BindApplicantId
  <2>2. loc[r].applicant \in Applicant /\ Owner[loc[r].applicant] = old.user
    BY <1>2, <1>4 DEF Warranted
  <2> QED BY <1>1, <1>2, <1>3, <1>4, <2>1, <2>2, StoreAssumption
          DEF Row, Warranted, Mismatched
<1>5. CASE ~loc[r].bind
  <2>1. Bound(r) = old
    BY <1>5 DEF Bound
  <2> QED BY <1>1, <1>2, <1>3, <1>5, <2>1, StoreAssumption DEF Warranted
<1> QED BY <1>4, <1>5

\* What a step of request r that writes a row must show
Writes(r) == TypeOK' /\ InFlight(r)' /\ Others(r) /\ Grows /\ Rows'

\* The transaction of applyStatusTransition
LEMMA WriteSteps ==
  ASSUME IInv, NEW r \in Request, WriteMismatch(r) \/ WriteUpdates(r) \/ WriteKeeps(r)
  PROVE  Quiet(r) \/ Writes(r)
<1> DEFINE s == loc[r].sid  old == sessions[s]
<1>t. /\ TypeOK /\ pc[r] = "apply" /\ effects \in [SessionId -> Seq(Nat)]
      /\ {"updated", "unchanged", "rejected_terminal", "rejected_unbound"} \subseteq Answer
      /\ Status \subseteq Answer /\ "effect" \in PC
      /\ {"applicant_mismatch", "terminal_status"} \subseteq AuditAction
  BY DEF IInv, TypeOK, Answer, PC, AuditAction, WriteMismatch, WriteUpdates, WriteKeeps
<1>p. loc[r] \in Local /\ s \in Session /\ s \in SessionId /\ old \in Row
  BY <1>t, Placed
<1>b. /\ Bound(r) \in Row /\ Bound(r).user = old.user /\ Bound(r).status = old.status
      /\ old.applicant # NoApplicant => Bound(r).applicant = old.applicant
      /\ Bound(r).applicant # NoApplicant => Owner[Bound(r).applicant] = Bound(r).user
      /\ Bound(r).status # "initial" =>
           Bound(r).applicant # NoApplicant /\ Reported(Bound(r).applicant, Bound(r).status)
      /\ ~Mismatched(r) /\ loc[r].status # "initial" =>
           Bound(r).applicant # NoApplicant /\ Reported(Bound(r).applicant, loc[r].status)
  BY <1>t, BoundRow
<1>o. \A outcome \in {"updated", "unchanged", "rejected_terminal", "rejected_unbound"},
        row \in Row : Outcome(r, outcome, row) \in Answer
  BY <1>t DEF Outcome, Row
<1>1. CASE WriteMismatch(r)
  <2>1. /\ Finish(r, Outcome(r, "rejected_unbound", Bound(r)))
        /\ Audit(s, "applicant_mismatch")
        /\ UNCHANGED <<table, trail, effects, provider>>
    BY <1>1 DEF WriteMismatch
  <2>2. Outcome(r, "rejected_unbound", Bound(r)) \in Answer
    BY <1>b, <1>o
  <2> QED BY <1>t, <1>p, <2>1, <2>2, QuietEnd
<1>2. CASE WriteUpdates(r)
  <2> DEFINE row == UpdateSessionStatus(Bound(r), loc[r].status)
             local == [loc[r] EXCEPT !.entry = Len(trail[s]) + 1,
                                     !.answer = Outcome(r, "updated", row)]
  <2>1. /\ ~Mismatched(r) /\ WriteOutcome(Bound(r), loc[r].status) = "updated"
        /\ sessions' = [sessions EXCEPT ![s] = row]
        /\ trail' = [trail EXCEPT ![s] = Append(@, Entry(r))]
        /\ Goto(r, "effect", local)
        /\ UNCHANGED <<created, audit, effects, provider>>
    BY <1>2 DEF WriteUpdates
  <2>2. row = [Bound(r) EXCEPT !.status = loc[r].status] /\ loc[r].status \in Status
    BY <1>p, <2>1 DEF UpdateSessionStatus, Local
  <2>u. old.status \notin Terminal
    BY <1>b, <2>1 DEF WriteOutcome
  <2>3. /\ row \in Row /\ row.user = Bound(r).user
        /\ row.applicant = Bound(r).applicant /\ row.status = loc[r].status
    BY <1>b, <2>2 DEF Row
  <2>4. UNCHANGED <<created, journal>>
    BY <2>1 DEF provider
  <2>5. local \in Local /\ local.sid = s
    <3>1. trail[s] \in Seq(TrailEntry) /\ Len(trail[s]) + 1 \in Nat
      BY <1>t, <1>p DEF TypeOK
    <3>2. Outcome(r, "updated", row) \in Answer
      BY <1>o, <2>3
    <3> HIDE DEF row
    <3> QED BY <1>p, <3>1, <3>2 DEF Local
  <2> HIDE DEF row, local
  <2>6. Grows /\ Rows' /\ sessions' \in [SessionId -> Row]
    BY <1>b, <1>p, <2>1, <2>3, <2>4, <2>u, RowWrite
  <2>7. pc' \in [Request -> PC] /\ loc' \in [Request -> Local] /\ Others(r)
    BY <1>t, <2>1, <2>5, GotoType
  <2>8. InFlight(r)'
    <3>1. Session' = Session
      BY <2>4 DEF Session
    <3> QED BY <1>t, <1>p, <2>1, <2>5, <3>1, InFlightPlain DEF Plain
  <2>9. trail' \in [SessionId -> Seq(TrailEntry)]
    <3>1. Entry(r) \in TrailEntry
      BY <1>b, <1>p DEF Entry, TrailEntry, Row, Local
    <3>2. trail \in [SessionId -> Seq(TrailEntry)] /\ trail[s] \in Seq(TrailEntry)
      BY <1>t, <1>p DEF TypeOK
    <3>3. Append(trail[s], Entry(r)) \in Seq(TrailEntry)
      BY <3>1, <3>2
    <3>4. trail' = [trail EXCEPT ![s] = Append(trail[s], Entry(r))]
      BY <2>1
    <3> QED BY <3>2, <3>3, <3>4
  <2>10. TypeOK'
    BY <1>t, <2>1, <2>6, <2>7, <2>9 DEF TypeOK, provider
  <2> QED BY <2>6, <2>7, <2>8, <2>10 DEF Writes
<1>3. CASE WriteKeeps(r)
  <2> DEFINE outcome == WriteOutcome(Bound(r), loc[r].status)
  <2>0. ~Mismatched(r) /\ outcome \in {"unchanged", "rejected_terminal"}
    BY <1>3 DEF WriteKeeps, WriteOutcome
  <2> HIDE DEF outcome
  <2>1. /\ sessions' = [sessions EXCEPT ![s] = Bound(r)]
        /\ UNCHANGED audit \/ Audit(s, "terminal_status")
        /\ Finish(r, Outcome(r, outcome, Bound(r)))
        /\ UNCHANGED <<created, trail, effects, provider>>
    BY <1>3 DEF WriteKeeps, outcome
  <2>2. Outcome(r, outcome, Bound(r)) \in Answer
    BY <1>b, <1>o, <2>0
  <2>3. UNCHANGED <<created, journal>>
    BY <2>1 DEF provider
  <2>4. Grows /\ Rows' /\ sessions' \in [SessionId -> Row]
    BY <1>b, <1>p, <2>1, <2>3, RowWrite
  <2>5. audit' \in [SessionId -> [AuditAction -> Nat]]
    BY <1>t, <1>p, <2>1, AuditType DEF TypeOK
  <2>6. pc' \in [Request -> PC] /\ loc' \in [Request -> Local] /\ Others(r) /\ InFlight(r)'
    BY <1>t, <2>1, <2>2, FinishType
  <2>7. TypeOK'
    BY <1>t, <2>1, <2>4, <2>5, <2>6 DEF TypeOK, provider
  <2> QED BY <2>4, <2>6, <2>7 DEF Writes
<1> QED BY <1>1, <1>2, <1>3

\* The host's effect and the audit of one that threw
LEMMA EffectSteps ==
  ASSUME IInv, NEW r \in Request, Effect(r) \/ EffectAudits(r)
  PROVE  Quiet(r)
<1> DEFINE s == loc[r].sid
<1>t. /\ TypeOK /\ effects \in [SessionId -> Seq(Nat)] /\ applicants \subseteq Applicant
      /\ "effect_audit" \in PC /\ "effect_failed" \in AuditAction
  BY DEF IInv, TypeOK, PC, AuditAction
<1>p. loc[r] \in Local /\ s \in Session /\ s \in SessionId
  BY Placed DEF Effect, EffectAudits
<1>a. loc[r].answer \in Answer /\ loc[r].entry \in Nat
  BY <1>p DEF Local
<1>1. CASE Effect(r)
  <2>1. /\ effects' = [effects EXCEPT ![s] = Append(effects[s], loc[r].entry)]
        /\ Finish(r, loc[r].answer) \/ Goto(r, "effect_audit", loc[r])
        /\ UNCHANGED <<table, trail, audit, provider>>
    BY <1>1 DEF Effect
  <2>2. effects' \in [SessionId -> Seq(Nat)]
    <3>1. effects[s] \in Seq(Nat)
      BY <1>t, <1>p
    <3>2. Append(effects[s], loc[r].entry) \in Seq(Nat)
      BY <1>a, <3>1
    <3> QED BY <1>t, <2>1, <3>2
  <2>3. CASE Finish(r, loc[r].answer)
    BY <1>a, <2>1, <2>2, <2>3, QuietEnd
  <2>4. CASE Goto(r, "effect_audit", loc[r])
    <3>1. InFlight(r)'
      BY <1>t, <1>p, <2>1, <2>4, InFlightPlain DEF Plain, table, Session
    <3> QED BY <1>t, <1>p, <2>1, <2>2, <2>4, <3>1, QuietGoto DEF provider
  <2> QED BY <2>1, <2>3, <2>4
<1>2. CASE EffectAudits(r)
  <2>1. /\ Audit(s, "effect_failed") /\ Finish(r, loc[r].answer)
        /\ UNCHANGED <<table, trail, effects, provider>>
    BY <1>2 DEF EffectAudits
  <2> QED BY <1>t, <1>p, <1>a, <2>1, QuietEnd
<1> QED BY <1>1, <1>2

\* A store or a provider that rejects, and a call that is lost, end the request
LEMMA FailSteps ==
  ASSUME IInv, NEW r \in Request, Fails(r)
  PROVE  Quiet(r)
<1>t. /\ effects \in [SessionId -> Seq(Nat)] /\ loc[r] \in Local
      /\ {"500", "PROVIDER_UNAVAILABLE", "502", "lost"} \cup Status \subseteq Answer
  BY DEF IInv, TypeOK, Answer
<1>1. loc[r].seen \in Answer
  BY <1>t DEF Local
<1>2. /\ \E answer \in Answer : Finish(r, answer) \/ Ends(r, answer)
      /\ UNCHANGED <<table, trail, audit, effects, provider>>
  BY <1>t, <1>1 DEF Fails, StoreFails, ProviderFails, Lost
<1> QED BY <1>t, <1>2, QuietEnd

-----------------------------------------------------------------------------
\* start's transaction: a row more, which nobody's locals speak of yet
LEMMA PersistStep ==
  ASSUME IInv, NEW r \in Request, NEW u \in User, NEW lvl \in Level \cup {NoLevel},
         StartPersists(r, u, lvl)
  PROVE  Writes(r)
<1> DEFINE n == created + 1  row == NewRow(u, lvl)
           local == [Blank EXCEPT !.sid = n]
<1>t. /\ TypeOK /\ created \in Nat /\ MaxSessions \in Nat /\ created < MaxSessions
      /\ "start_mint" \in PC /\ "session_created" \in AuditAction
  BY ServiceAssumption DEF IInv, TypeOK, StartPersists, PC, AuditAction
<1>1. /\ created' = n /\ sessions' = [sessions EXCEPT ![n] = row]
      /\ Audit(n, "session_created") /\ Goto(r, "start_mint", local)
      /\ UNCHANGED <<trail, effects, provider>>
  BY DEF StartPersists
<1>2. n \in SessionId /\ n \in Session' /\ Session' = Session \cup {n} /\ n \notin Session
      /\ created' \in 0 .. MaxSessions
  BY <1>t, <1>1 DEF SessionId, Session
<1>3. row \in Row /\ row.status = "initial" /\ row.applicant = NoApplicant
  BY DEF NewRow, Row, Status
<1>4. local \in Local /\ local.sid = n
  <2>1. n \in 0 .. MaxSessions
    BY <1>t
  <2> QED BY <2>1, BlankIsLocal DEF Local
<1> HIDE DEF row, local
<1>5. /\ sessions' \in [SessionId -> Row] /\ sessions'[n] = row
      /\ \A s \in Session : sessions'[s] = sessions[s]
  BY <1>t, <1>1, <1>2, <1>3 DEF TypeOK
<1>6. Grows
  <2>1. Len(journal) \in Nat /\ journal' = journal
    BY <1>t, <1>1 DEF TypeOK, provider
  <2> QED BY <1>t, <1>1, <1>5, <2>1 DEF Grows
<1>7. Rows'
  <2>1. journal' = journal
    BY <1>1 DEF provider
  <2>2. VerdictIsReported'
    BY <1>2, <1>3, <1>5, <2>1 DEF IInv, VerdictIsReported, Reported
  <2>3. ApplicantIsOwners'
    BY <1>2, <1>3, <1>5 DEF IInv, ApplicantIsOwners
  <2>4. NoticesNameOwners' /\ JournalBounded'
    BY <2>1 DEF IInv, NoticesNameOwners, JournalBounded
  <2> QED BY <2>2, <2>3, <2>4 DEF Rows
<1>8. pc' \in [Request -> PC] /\ loc' \in [Request -> Local] /\ Others(r)
  BY <1>t, <1>1, <1>4, GotoType
<1>9. InFlight(r)'
  BY <1>t, <1>1, <1>2, <1>4, InFlightPlain DEF Plain
<1>10. TypeOK'
  BY <1>t, <1>1, <1>2, <1>5, <1>8, AuditType DEF TypeOK, provider
<1> QED BY <1>6, <1>7, <1>8, <1>9, <1>10 DEF Writes

\* start's own binding: the applicant is one of the row's user, and a row
\* already bound keeps the one it has
LEMMA BindStep ==
  ASSUME IInv, NEW r \in Request, StartBinds(r)
  PROVE  Writes(r)
<1> DEFINE s == loc[r].sid  a == loc[r].applicant  old == sessions[s]
           row == BindApplicantId(old, a)
<1>t. /\ TypeOK /\ pc[r] = "start_bind" /\ "started" \in Answer
  BY DEF IInv, TypeOK, StartBinds, Answer
<1>p. /\ loc[r] \in Local /\ s \in Session /\ s \in SessionId /\ old \in Row
      /\ a \in Applicant /\ Owner[a] = old.user
  BY <1>t, Placed DEF IInv, InFlight
<1>1. /\ sessions' = [sessions EXCEPT ![s] = row] /\ Finish(r, "started")
      /\ UNCHANGED <<created, trail, audit, effects, provider>>
  BY DEF StartBinds
<1>2. /\ row \in Row /\ row.user = old.user /\ row.status = old.status
      /\ old.applicant # NoApplicant => row.applicant = old.applicant
      /\ row.applicant = old.applicant \/ row.applicant = a
  BY <1>p DEF BindApplicantId, Row
<1>3. /\ old.applicant # NoApplicant => Owner[old.applicant] = old.user
      /\ old.status # "initial" =>
           old.applicant # NoApplicant /\ Reported(old.applicant, old.status)
  BY <1>p DEF IInv, ApplicantIsOwners, VerdictIsReported
<1> HIDE DEF row
<1>4. UNCHANGED <<created, journal>>
  BY <1>1 DEF provider
<1>5. Grows /\ Rows' /\ sessions' \in [SessionId -> Row]
  BY <1>p, <1>1, <1>2, <1>3, <1>4, RowWrite
<1>6. pc' \in [Request -> PC] /\ loc' \in [Request -> Local] /\ Others(r) /\ InFlight(r)'
  BY <1>t, <1>1, FinishType
<1>7. TypeOK'
  BY <1>t, <1>1, <1>5, <1>6 DEF TypeOK, provider
<1> QED BY <1>5, <1>6, <1>7 DEF Writes

\* A notice issued: the journal grows by one, nothing else moves
LEMMA NotifyStep ==
  ASSUME IInv, NEW n \in NoticeKinds, ProviderNotifies(n)
  PROVE  TypeOK' /\ Grows /\ Rows'
<1>t. /\ TypeOK /\ journal \in Seq(Notice) /\ Len(journal) \in Nat /\ n \in Notice
      /\ n.user \in {Owner[n.applicant], NoUser} /\ created \in Nat /\ created <= MaxSessions
  BY ServiceAssumption, NoticeAssumption DEF IInv, TypeOK
<1>1. /\ Len(journal) < MaxNotices /\ journal' = Append(journal, n)
      /\ applicants' = applicants \cup {n.applicant}
      /\ UNCHANGED <<sessions, created, trail, audit, effects, pc, loc>>
  BY DEF ProviderNotifies, table
<1>2. /\ journal' \in Seq(Notice) /\ Len(journal') = Len(journal) + 1
      /\ \A i \in 1 .. Len(journal) : journal'[i] = journal[i]
      /\ journal'[Len(journal) + 1] = n
  BY <1>t, <1>1
<1>3. n.applicant \in Applicant
  BY <1>t DEF Notice
<1>4. TypeOK'
  BY <1>t, <1>1, <1>2, <1>3 DEF TypeOK
<1>5. Grows
  BY <1>t, <1>1, <1>2, ServiceAssumption DEF Grows
<1>6. JournalBounded'
  BY <1>t, <1>1, <1>2, ServiceAssumption DEF JournalBounded
<1>7. NoticesNameOwners'
  <2>1. \A i \in 1 .. Len(journal') : i \in 1 .. Len(journal) \/ i = Len(journal) + 1
    BY <1>t, <1>2
  <2> QED BY <1>t, <1>2, <2>1 DEF IInv, NoticesNameOwners
<1>8. VerdictIsReported'
  <2> SUFFICES ASSUME NEW s \in Session', sessions'[s].status # "initial"
               PROVE  sessions'[s].applicant # NoApplicant
                      /\ Reported(sessions[s].applicant, sessions[s].status)'
    BY <1>1 DEF VerdictIsReported
  <2>1. s \in Session /\ sessions'[s] = sessions[s]
    BY <1>1 DEF Session
  <2>2. sessions[s].applicant # NoApplicant /\ Reported(sessions[s].applicant, sessions[s].status)
    BY <2>1 DEF IInv, VerdictIsReported
  <2> QED BY <1>t, <1>1, <1>4, <1>5, <2>1, <2>2, <1>2 DEF Reported
<1>9. ApplicantIsOwners'
  BY <1>1 DEF IInv, ApplicantIsOwners, Session
<1> QED BY <1>4, <1>5, <1>6, <1>7, <1>8, <1>9 DEF Rows

-----------------------------------------------------------------------------
\* Every state starts in the invariant
LEMMA InitInv == Init => IInv
<1> SUFFICES ASSUME Init PROVE IInv
  OBVIOUS
<1>1. Session = {} /\ created = 0 /\ Len(journal) = 0
  <2>1. created = 0 /\ journal = <<>>
    BY DEF Init
  <2>2. 1 .. 0 = {}
    OBVIOUS
  <2>3. Len(<<>>) = 0
    OBVIOUS
  <2> QED BY <2>1, <2>2, <2>3 DEF Session
<1>2. TypeOK
  <2>1. (CHOOSE u \in User : TRUE) \in User
    BY ServiceAssumption
  <2>2. NewRow(CHOOSE u \in User : TRUE, NoLevel) \in Row
    BY <2>1 DEF NewRow, Row, Status
  <2>3. 0 \in 0 .. MaxSessions /\ "idle" \in PC
    BY ServiceAssumption DEF PC
  <2>4. /\ sessions \in [SessionId -> Row] /\ trail \in [SessionId -> Seq(TrailEntry)]
        /\ effects \in [SessionId -> Seq(Nat)] /\ journal \in Seq(Notice)
    <3> DEFINE row == NewRow(CHOOSE u \in User : TRUE, NoLevel)
    <3>1. row \in Row
      BY <2>2
    <3>2. /\ sessions = [s \in SessionId |-> row] /\ trail = [s \in SessionId |-> <<>>]
          /\ effects = [s \in SessionId |-> <<>>] /\ journal = <<>>
      BY DEF Init
    <3> HIDE DEF row
    <3>3. <<>> \in Seq(TrailEntry) /\ <<>> \in Seq(Nat) /\ <<>> \in Seq(Notice)
      OBVIOUS
    <3>4. sessions \in [SessionId -> Row]
      BY <3>1, <3>2
    <3> QED BY <3>2, <3>3, <3>4
  <2>5. audit \in [SessionId -> [AuditAction -> Nat]]
    BY DEF Init
  <2>6. pc \in [Request -> PC] /\ loc \in [Request -> Local]
    BY <2>3, BlankIsLocal DEF Init
  <2> QED BY <2>3, <2>4, <2>5, <2>6 DEF TypeOK, Init
<1>3. \A r \in Request : InFlight(r)
  BY DEF Init, InFlight
<1> QED BY <1>1, <1>2, <1>3, ServiceAssumption
        DEF IInv, JournalBounded, VerdictIsReported, ApplicantIsOwners, NoticesNameOwners

\* What a step of one request leaves: the invariant, whatever the others hold
LEMMA OneMoves ==
  ASSUME IInv, NEW r \in Request, Quiet(r) \/ Writes(r)
  PROVE  IInv' /\ Grows
<1>1. TypeOK /\ TypeOK' /\ InFlight(r)' /\ Others(r)
  BY DEF IInv, Quiet, Writes
<1>2. Grows /\ Rows'
  BY QuietSteps DEF Quiet, Writes, Rows
<1>3. ASSUME NEW q \in Request PROVE InFlight(q)'
  <2>1. CASE q = r
    BY <1>1, <2>1
  <2>2. CASE q # r
    <3>1. pc'[q] = pc[q] /\ loc'[q] = loc[q] /\ InFlight(q)
      BY <1>1, <2>2 DEF Others, IInv
    <3> QED BY <1>1, <1>2, <3>1, OthersStay
  <2> QED BY <2>1, <2>2
<1> QED BY <1>1, <1>2, <1>3 DEF IInv, Rows

\* Every step keeps the invariant, and what Grows says of it
LEMMA NextInv == IInv /\ [Next]_vars => IInv' /\ Grows
<1> SUFFICES ASSUME IInv, [Next]_vars PROVE IInv' /\ Grows
  OBVIOUS
<1>1. ASSUME NEW r \in Request, Client(r) PROVE IInv' /\ Grows
  <2>1. CASE StartFailsToPersist(r)
    BY <2>1, StartSteps, OneMoves
  <2>2. CASE \E u \in User, lvl \in Level \cup {NoLevel} : StartPersists(r, u, lvl)
    BY <2>2, PersistStep, OneMoves
  <2>3. CASE \/ \E u \in User, s \in Session : RefreshReads(r, u, s) \/ StatusReads(r, u, s)
             \/ \E s \in Session : PageReads(r, s)
             \/ \E u \in User, reconcile \in BOOLEAN : LatestReads(r, u, reconcile)
    BY <2>3, ReadSteps, OneMoves
  <2> QED BY <1>1, <2>1, <2>2, <2>3 DEF Client
<1>2. ASSUME NEW r \in Request, Webhook(r) \/ WebhookReadsUnbound(r)
      PROVE  IInv' /\ Grows
  BY <1>2, WebhookReads, OneMoves DEF Webhook
<1>3. ASSUME NEW r \in Request, Continues(r) PROVE IInv' /\ Grows
  <2>1. CASE StartMints(r) \/ StartMintFails(r) \/ StartAuditsFailure(r)
    BY <2>1, StartSteps, OneMoves
  <2>2. CASE StartBinds(r)
    BY <2>2, BindStep, OneMoves
  <2>3. CASE RefreshMints(r) \/ RefreshAudits(r) \/ PageMints(r)
    BY <2>3, TokenSteps, OneMoves
  <2>4. CASE Lookup(r)
    BY <2>4, LookupStep, OneMoves
  <2>5. CASE WriteMismatch(r) \/ WriteUpdates(r) \/ WriteKeeps(r)
    BY <2>5, WriteSteps, OneMoves
  <2>6. CASE Effect(r) \/ EffectAudits(r)
    BY <2>6, EffectSteps, OneMoves
  <2> QED BY <1>2, <1>3, <2>1, <2>2, <2>3, <2>4, <2>5, <2>6 DEF Continues
<1>4. ASSUME NEW r \in Request, Fails(r) PROVE IInv' /\ Grows
  BY <1>4, FailSteps, OneMoves
<1>5. ASSUME NEW q \in Request, pc' = pc, loc' = loc, TypeOK', Grows
      PROVE  InFlight(q)'
  BY <1>5, OthersStay DEF IInv
<1>6. ASSUME NEW n \in NoticeKinds, ProviderNotifies(n) PROVE IInv' /\ Grows
  <2>1. TypeOK' /\ Grows /\ Rows' /\ pc' = pc /\ loc' = loc
    BY <1>6, NotifyStep DEF ProviderNotifies
  <2> QED BY <1>5, <2>1 DEF IInv, Rows
<1>7. ASSUME UNCHANGED vars PROVE IInv' /\ Grows
  <2>1. /\ UNCHANGED <<sessions, created, journal>> /\ pc' = pc /\ loc' = loc /\ TypeOK'
    BY <1>7 DEF vars, IInv, TypeOK
  <2>2. Grows /\ Rows'
    BY <2>1, QuietSteps DEF Rows
  <2> QED BY <1>5, <2>1, <2>2 DEF IInv, Rows
<1> QED BY <1>1, <1>2, <1>3, <1>4, <1>6, <1>7 DEF Next

\* IInv is an invariant of the service, for every value of the constants: what
\* a handler read before its await and writes after it is still warranted then.
THEOREM Invariant == Spec => []IInv
  BY InitInv, NextInv, PTL DEF Spec

\* The variables keep their types: no handler writes a status, a session or an
\* applicant that is not one, nor numbers a session beyond those created.
THEOREM TypeCorrect == Spec => []TypeOK
<1>1. IInv => TypeOK
  BY DEF IInv
<1> QED BY <1>1, Invariant, PTL

\* No session ever shows a status the provider did not report for the applicant
\* the session is bound to, however the webhooks, the status reads, their stale
\* reads, retries, failures and crashes interleave.
THEOREM VerdictCorrect == Spec => []VerdictIsReported
<1>1. IInv => VerdictIsReported
  BY DEF IInv
<1> QED BY <1>1, Invariant, PTL

\* No session is ever bound to an applicant filed under another user.
THEOREM OwnersCorrect == Spec => []ApplicantIsOwners
<1>1. IInv => ApplicantIsOwners
  BY DEF IInv
<1> QED BY <1>1, Invariant, PTL

\* No step ever rebinds a session: start's own bind, the webhooks and the
\* reconciling reads may race for it, and the first one stands.
THEOREM BindingCorrect == Spec => BindingIsFinal
<1>1. IInv /\ [Next]_vars =>
        [\A s \in Session : sessions[s].applicant # NoApplicant =>
           sessions'[s].applicant = sessions[s].applicant]_vars
  BY NextInv DEF Grows
<1> QED BY <1>1, Invariant, PTL DEF Spec, BindingIsFinal

\* No step ever changes a terminal status.
THEOREM TerminalCorrect == Spec => TerminalIsFinal
<1>1. IInv /\ [Next]_vars =>
        [\A s \in Session : sessions[s].status \in Terminal =>
           sessions'[s].status = sessions[s].status]_vars
  BY NextInv DEF Grows
<1> QED BY <1>1, Invariant, PTL DEF Spec, TerminalIsFinal

-----------------------------------------------------------------------------
(***************************************************************************)
(* The service implements SessionLifecycle.                                *)
(***************************************************************************)
LifeStep == [Lifecycle!LifeNext]_(Lifecycle!life)

\* What leaves sessions and journal alone is a stutter
LEMMA LifeStutters ==
  ASSUME UNCHANGED <<sessions, created, journal>>
  PROVE  LifeStep
  BY DEF LifeStep, Lifecycle!life, Session, Reported

\* Opening a session
LEMMA LifeOpens ==
  ASSUME IInv, NEW r \in Request, NEW u \in User, NEW lvl \in Level \cup {NoLevel},
         StartPersists(r, u, lvl)
  PROVE  LifeStep
<1> DEFINE s == created + 1
<1>1. /\ s \in SessionId /\ s \notin Session /\ Session' = Session \cup {s}
  BY ServiceAssumption DEF StartPersists, IInv, TypeOK, Session, SessionId
<1>2. sessions' = [sessions EXCEPT ![s] = NewRow(u, lvl)] /\ UNCHANGED journal
  BY DEF StartPersists, provider
<1> HIDE DEF s
<1>3. Lifecycle!Open(s)
  BY <1>1, <1>2 DEF Lifecycle!Open, Lifecycle!NewRow, NewRow, Reported
<1> QED BY <1>1, <1>3 DEF LifeStep, Lifecycle!LifeNext

\* Binding a session, or finding it bound
LEMMA LifeBinds ==
  ASSUME IInv, NEW s \in Session, NEW a \in Applicant, Owner[a] = sessions[s].user,
         sessions' = [sessions EXCEPT ![s] = BindApplicantId(sessions[s], a)],
         UNCHANGED <<created, journal>>
  PROVE  LifeStep
<1>1. s \in SessionId /\ sessions[s] \in Row /\ sessions \in [SessionId -> Row]
  BY SessionIsId DEF IInv, TypeOK
<1>2. CASE sessions[s].applicant = NoApplicant
  <2>1. sessions' = [sessions EXCEPT ![s].applicant = a]
    BY <1>2 DEF BindApplicantId
  <2>2. Lifecycle!Bind(s, a)
    BY <1>2, <2>1 DEF Lifecycle!Bind, Session, Reported
  <2> QED BY <1>1, <2>2 DEF LifeStep, Lifecycle!LifeNext
<1>3. CASE sessions[s].applicant # NoApplicant
  <2>1. BindApplicantId(sessions[s], a) = sessions[s]
    BY <1>1, <1>3 DEF BindApplicantId, Row
  <2>2. sessions' = sessions
    BY <1>1, <2>1
  <2> QED BY <2>2, LifeStutters
<1> QED BY <1>2, <1>3

\* The write of a status, with the binding it was asked for
LEMMA LifeDecides ==
  ASSUME IInv, NEW r \in Request, WriteUpdates(r)
  PROVE  LifeStep
<1> DEFINE s == loc[r].sid  old == sessions[s]  a == Bound(r).applicant  status == loc[r].status
<1>1. /\ pc[r] = "apply" /\ ~Mismatched(r) /\ UNCHANGED <<created, journal>>
      /\ WriteOutcome(Bound(r), status) = "updated"
      /\ sessions' = [sessions EXCEPT ![s] = UpdateSessionStatus(Bound(r), status)]
  BY DEF WriteUpdates, provider
<1>2. /\ s \in Session /\ s \in SessionId /\ old \in Row /\ loc[r] \in Local
  BY <1>1, Placed
<1>3. /\ Bound(r) \in Row /\ Bound(r).user = old.user /\ Bound(r).status = old.status
      /\ old.applicant # NoApplicant => a = old.applicant
      /\ a # NoApplicant => Owner[a] = Bound(r).user
      /\ status # "initial" => a # NoApplicant /\ Reported(a, status)
      /\ old.status # "initial" => a # NoApplicant
  BY <1>1, BoundRow
<1>4. old.status # status /\ old.status \notin Terminal
  BY <1>1, <1>3 DEF WriteOutcome
<1>5. a \in Applicant /\ status \in Status
  BY <1>2, <1>3, <1>4 DEF Row, Local
<1>6. Bound(r) = [old EXCEPT !.applicant = a]
  BY <1>2, <1>3 DEF Bound, BindApplicantId, Row
<1>7. sessions' = [sessions EXCEPT ![s].applicant = a, ![s].status = status]
  <2>1. UpdateSessionStatus(Bound(r), status) = [Bound(r) EXCEPT !.status = status]
    BY <1>1 DEF UpdateSessionStatus
  <2> QED BY <1>1, <1>2, <1>6, <2>1 DEF IInv, TypeOK
<1>8. Lifecycle!Decide(s, a, status)
  BY <1>1, <1>2, <1>3, <1>4, <1>5, <1>7
  DEF Lifecycle!Decide, Lifecycle!Terminal, Terminal, Session, Reported
<1> QED BY <1>2, <1>5, <1>8 DEF LifeStep, Lifecycle!LifeNext, Lifecycle!Status, Status

\* The provider's report
LEMMA LifeReports ==
  ASSUME IInv, NEW n \in NoticeKinds, ProviderNotifies(n)
  PROVE  LifeStep
<1> DEFINE reported == {p \in Applicant \X Status : Reported(p[1], p[2])}
<1>1. /\ n \in Notice /\ journal \in Seq(Notice)
      /\ journal' = Append(journal, n) /\ UNCHANGED <<sessions, created>>
  BY NoticeAssumption DEF ProviderNotifies, IInv, TypeOK, table
<1>2. ASSUME NEW a, NEW status
      PROVE  Reported(a, status)' <=> Reported(a, status) \/ (a = n.applicant /\ status = n.status)
  <2>1. /\ Len(journal') = Len(journal) + 1 /\ Len(journal) \in Nat
        /\ journal'[Len(journal) + 1] = n
        /\ \A i \in 1 .. Len(journal) : journal'[i] = journal[i]
    BY <1>1
  <2>2. \A i : i \in 1 .. Len(journal) + 1 <=> i \in 1 .. Len(journal) \/ i = Len(journal) + 1
    BY <2>1
  <2> QED BY <2>1, <2>2 DEF Reported
<1>3. CASE n.status = NoStatus
  <2>1. NoStatus \notin Status
    BY DEF NoStatus, Status
  <2>2. reported' = reported
    BY <1>2, <1>3, <2>1
  <2> QED BY <1>1, <2>2 DEF LifeStep, Lifecycle!life, Session
<1>4. CASE n.status # NoStatus
  <2>1. n.applicant \in Applicant /\ n.status \in Status
    BY <1>1, <1>4 DEF Notice
  <2>2. reported' = reported \cup {<<n.applicant, n.status>>}
    BY <1>2, <2>1
  <2>3. Lifecycle!Report
    BY <1>1, <2>1, <2>2 DEF Lifecycle!Report, Lifecycle!Status, Status, Session
  <2> QED BY <2>3 DEF LifeStep, Lifecycle!LifeNext
<1> QED BY <1>3, <1>4

LEMMA StepsAreLife == IInv /\ [Next]_vars => LifeStep
<1> SUFFICES ASSUME IInv, [Next]_vars PROVE LifeStep
  OBVIOUS
<1>1. ASSUME NEW r \in Request, Client(r) PROVE LifeStep
  <2>1. CASE UNCHANGED <<table, provider>>
    BY <2>1, LifeStutters DEF table, provider
  <2> QED BY <1>1, <2>1, LifeOpens
          DEF Client, StartFailsToPersist, RefreshReads, StatusReads, LatestReads, PageReads
<1>2. ASSUME NEW r \in Request, Webhook(r) PROVE LifeStep
  BY <1>2, LifeStutters DEF Webhook, WebhookArrives, WebhookIgnored, table, provider
<1>3. ASSUME NEW r \in Request, StartBinds(r) PROVE LifeStep
  <2>1. /\ loc[r].sid \in Session /\ loc[r].applicant \in Applicant
        /\ Owner[loc[r].applicant] = sessions[loc[r].sid].user
    BY <1>3, Placed DEF StartBinds, IInv, InFlight
  <2>2. sessions' = [sessions EXCEPT ![loc[r].sid] = BindApplicantId(sessions[loc[r].sid], loc[r].applicant)]
        /\ UNCHANGED <<created, journal>>
    BY <1>3 DEF StartBinds, provider
  <2> QED BY <2>1, <2>2, LifeBinds
<1>4. ASSUME NEW r \in Request, WriteKeeps(r) PROVE LifeStep
  <2>1. /\ pc[r] = "apply" /\ UNCHANGED <<created, journal>>
        /\ sessions' = [sessions EXCEPT ![loc[r].sid] = Bound(r)]
    BY <1>4 DEF WriteKeeps, provider
  <2>2. loc[r].sid \in Session /\ loc[r].sid \in SessionId /\ Warranted(r)
    BY <2>1, Placed DEF IInv, InFlight
  <2>3. CASE loc[r].bind
    BY <2>1, <2>2, <2>3, LifeBinds DEF Warranted, Bound
  <2>4. CASE ~loc[r].bind
    <3>1. sessions' = sessions
      BY <2>1, <2>2, <2>4 DEF Bound, IInv, TypeOK
    <3> QED BY <2>1, <3>1, LifeStutters
  <2> QED BY <2>3, <2>4
<1>5. ASSUME NEW r \in Request, Continues(r) PROVE LifeStep
  <2>1. CASE UNCHANGED <<sessions, created, journal>>
    BY <2>1, LifeStutters
  <2> QED BY <1>3, <1>4, <1>5, <2>1, LifeDecides
          DEF Continues, StartMints, StartMintFails, StartAuditsFailure, RefreshMints, RefreshAudits,
              PageMints, Lookup, WebhookReadsUnbound, WriteMismatch, Effect, EffectAudits, table, provider
<1>6. ASSUME NEW r \in Request, Fails(r) PROVE LifeStep
  BY <1>6, LifeStutters DEF Fails, StoreFails, ProviderFails, Lost, table, provider
<1>7. CASE UNCHANGED vars
  BY <1>7, LifeStutters DEF vars
<1> QED BY <1>1, <1>2, <1>5, <1>6, <1>7, LifeReports DEF Next

LEMMA InitIsLife == Init => Lifecycle!LifeInit
<1> SUFFICES ASSUME Init PROVE Lifecycle!LifeInit
  OBVIOUS
<1>1. sessions \in [SessionId -> Row]
  BY InitInv DEF IInv, TypeOK
<1>2. created = 0 /\ journal = <<>>
  BY DEF Init
<1>3. 1 .. 0 = {} /\ Len(<<>>) = 0
  OBVIOUS
<1> QED BY <1>1, <1>2, <1>3
        DEF Lifecycle!LifeInit, Lifecycle!Row, Lifecycle!Status, Row, Status, Session, Reported

\* The service implements the lifecycle: every step of every handler opens a
\* session, binds it to an applicant of its user, decides it as the provider
\* reported, or leaves it alone.
THEOREM Implements == Spec => ImplementsLifecycle
  BY InitIsLife, StepsAreLife, Invariant, PTL
  DEF Spec, ImplementsLifecycle, Lifecycle!LifeSpec, LifeStep
=============================================================================
