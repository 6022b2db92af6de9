-------------------------- MODULE ServiceTrailProofs --------------------------
(***************************************************************************)
(* Theorems about what VerificationService tells of a session: its audit   *)
(* trail, the effects its host runs, the statuses and outcomes it answers. *)
(* They rest on the invariant of VerificationServiceProofs.                *)
(***************************************************************************)
EXTENDS VerificationServiceProofs, WellFoundedInduction

\* The trail of every session is its history, and one not created has none
HistInv ==
  /\ TrailIsHistory
  /\ \A s \in SessionId \ Session : trail[s] = <<>>

\* Trails and audit logs only grow
Longer ==
  \A s \in SessionId :
    /\ Len(trail[s]) <= Len(trail'[s])
    /\ \A i \in 1 .. Len(trail[s]) : trail'[s][i] = trail[s][i]
    /\ \A k \in AuditAction : audit[s][k] <= audit'[s][k]

-----------------------------------------------------------------------------
(* The steps, by what they do to trails *)

\* No status moves and no session is created
Stands == /\ UNCHANGED <<trail, created>>
          /\ \A s \in Session : sessions'[s].status = sessions[s].status

LEMMA StandsOrWrites ==
  ASSUME IInv, Next
  PROVE  \/ Stands
         \/ \E r \in Request : WriteUpdates(r)
         \/ \E r \in Request, u \in User, lvl \in Level \cup {NoLevel} : StartPersists(r, u, lvl)
<1>0. ASSUME UNCHANGED <<table, trail>> PROVE Stands
  BY <1>0 DEF Stands, table
<1>1. ASSUME NEW r \in Request, StartBinds(r) PROVE Stands
  <2> DEFINE s == loc[r].sid
  <2>1. sessions' = [sessions EXCEPT ![s] = BindApplicantId(sessions[s], loc[r].applicant)]
        /\ UNCHANGED <<created, trail>>
    BY <1>1 DEF StartBinds
  <2>2. s \in SessionId /\ sessions[s] \in Row
    BY <1>1, Placed DEF StartBinds
  <2>3. BindApplicantId(sessions[s], loc[r].applicant).status = sessions[s].status
    BY <2>2 DEF BindApplicantId, Row
  <2> HIDE DEF s
  <2> QED BY <2>1, <2>2, <2>3, SessionIsId DEF Stands, IInv, TypeOK
<1>2. ASSUME NEW r \in Request, WriteKeeps(r) PROVE Stands
  <2> DEFINE s == loc[r].sid
  <2>1. sessions' = [sessions EXCEPT ![s] = Bound(r)] /\ UNCHANGED <<created, trail>>
        /\ pc[r] = "apply"
    BY <1>2 DEF WriteKeeps
  <2>2. s \in SessionId /\ Bound(r).status = sessions[s].status
    BY <2>1, Placed, BoundRow
  <2> HIDE DEF s
  <2> QED BY <2>1, <2>2, SessionIsId DEF Stands, IInv, TypeOK
<1>3. ASSUME NEW r \in Request, Client(r),
             ~ \E u \in User, lvl \in Level \cup {NoLevel} : StartPersists(r, u, lvl)
      PROVE  Stands
  BY <1>0, <1>3 DEF Client, StartFailsToPersist, RefreshReads, StatusReads, LatestReads, PageReads
<1>4. ASSUME NEW r \in Request, Webhook(r) PROVE Stands
  BY <1>0, <1>4 DEF Webhook, WebhookArrives, WebhookIgnored
<1>5. ASSUME NEW r \in Request, Continues(r), ~WriteUpdates(r) PROVE Stands
  BY <1>0, <1>1, <1>2, <1>5
  DEF Continues, StartMints, StartMintFails, StartAuditsFailure, RefreshMints, RefreshAudits,
      PageMints, Lookup, WebhookReadsUnbound, WriteMismatch, Effect, EffectAudits
<1>6. ASSUME NEW r \in Request, Fails(r) PROVE Stands
  BY <1>0, <1>6 DEF Fails, StoreFails, ProviderFails, Lost
<1>7. ASSUME NEW n \in NoticeKinds, ProviderNotifies(n) PROVE Stands
  BY <1>0, <1>7 DEF ProviderNotifies
<1> QED BY <1>3, <1>4, <1>5, <1>6, <1>7 DEF Next

\* The one write of a status: the row, and an entry that follows the last one
LEMMA WriteAppends ==
  ASSUME IInv, HistInv, NEW r \in Request, WriteUpdates(r)
  PROVE  LET s == loc[r].sid IN
         /\ s \in Session /\ s \in SessionId /\ created' = created
         /\ trail' = [trail EXCEPT ![s] = Append(trail[s], Entry(r))]
         /\ Entry(r).previousStatus = StatusAfter(s, Len(trail[s]))
         /\ Entry(r).status = loc[r].status
         /\ Entry(r).previousStatus \notin Terminal \cup {loc[r].status}
         /\ sessions' = [sessions EXCEPT ![s] = UpdateSessionStatus(Bound(r), loc[r].status)]
         /\ UpdateSessionStatus(Bound(r), loc[r].status).status = loc[r].status
         /\ UpdateSessionStatus(Bound(r), loc[r].status).applicant = Bound(r).applicant
<1> DEFINE s == loc[r].sid
<1>1. /\ pc[r] = "apply" /\ created' = created
      /\ trail' = [trail EXCEPT ![s] = Append(trail[s], Entry(r))]
      /\ WriteOutcome(Bound(r), loc[r].status) = "updated"
      /\ sessions' = [sessions EXCEPT ![s] = UpdateSessionStatus(Bound(r), loc[r].status)]
  BY DEF WriteUpdates
<1>2. s \in Session /\ s \in SessionId /\ Bound(r) \in Row /\ Bound(r).status = sessions[s].status
  BY <1>1, Placed, BoundRow
<1>3. sessions[s].status = StatusAfter(s, Len(trail[s]))
  BY <1>2 DEF HistInv, TrailIsHistory
<1>4. Bound(r).status \notin Terminal \cup {loc[r].status}
  BY <1>1 DEF WriteOutcome
<1>5. UpdateSessionStatus(Bound(r), loc[r].status) = [Bound(r) EXCEPT !.status = loc[r].status]
  BY <1>1 DEF UpdateSessionStatus
<1>6. /\ UpdateSessionStatus(Bound(r), loc[r].status).status = loc[r].status
      /\ UpdateSessionStatus(Bound(r), loc[r].status).applicant = Bound(r).applicant
  BY <1>2, <1>5 DEF Row
<1>7. Entry(r).previousStatus = Bound(r).status /\ Entry(r).status = loc[r].status
  BY DEF Entry
<1> QED BY <1>1, <1>2, <1>3, <1>4, <1>6, <1>7

LEMMA HistStands ==
  ASSUME HistInv, Stands, created \in Nat
  PROVE  HistInv'
  BY DEF HistInv, Stands, TrailIsHistory, StatusAfter, Session

\* A session starts without a trail, and initial
LEMMA HistOpens ==
  ASSUME IInv, HistInv, NEW r \in Request, NEW u \in User, NEW lvl \in Level \cup {NoLevel},
         StartPersists(r, u, lvl)
  PROVE  HistInv'
<1>1. /\ created \in Nat /\ created < MaxSessions /\ created' = created + 1 /\ trail' = trail
      /\ sessions' = [sessions EXCEPT ![created + 1] = NewRow(u, lvl)]
  BY ServiceAssumption DEF IInv, TypeOK, StartPersists
<1>2. /\ created + 1 \in SessionId \ Session
      /\ Session' = Session \cup {created + 1} /\ Session \subseteq SessionId
  BY <1>1, ServiceAssumption DEF Session, SessionId
<1>3. trail[created + 1] = <<>>
  BY <1>2 DEF HistInv
<1>4. sessions'[created + 1].status = "initial"
      /\ \A s \in Session : sessions'[s] = sessions[s]
  BY <1>1, <1>2 DEF IInv, TypeOK, NewRow
<1>5. TrailIsHistory'
  <2>1. Len(<<>>) = 0
    OBVIOUS
  <2>2. \A i : i \notin 1 .. 0
    OBVIOUS
  <2> QED BY <1>1, <1>2, <1>3, <1>4, <2>1, <2>2 DEF HistInv, TrailIsHistory, StatusAfter
<1> QED BY <1>1, <1>2, <1>5 DEF HistInv

LEMMA HistWrites ==
  ASSUME IInv, HistInv, NEW r \in Request, WriteUpdates(r)
  PROVE  HistInv'
<1>s. PICK s : s = loc[r].sid
  OBVIOUS
<1>n. PICK n : n = Len(trail[s])
  OBVIOUS
<1>1. /\ s \in Session /\ s \in SessionId /\ created' = created
      /\ trail' = [trail EXCEPT ![s] = Append(trail[s], Entry(r))]
      /\ Entry(r).previousStatus = StatusAfter(s, n)
      /\ Entry(r).status = loc[r].status
      /\ Entry(r).previousStatus \notin Terminal \cup {loc[r].status}
      /\ sessions' = [sessions EXCEPT ![s] = UpdateSessionStatus(Bound(r), loc[r].status)]
      /\ UpdateSessionStatus(Bound(r), loc[r].status).status = loc[r].status
  BY <1>s, <1>n, WriteAppends
<1>2. /\ trail \in [SessionId -> Seq(TrailEntry)] /\ sessions \in [SessionId -> Row]
      /\ trail[s] \in Seq(TrailEntry) /\ n \in Nat
      /\ Session' = Session /\ Session \subseteq SessionId
  BY <1>1, <1>n, SessionIsId DEF IInv, TypeOK, Session
<1>3. /\ Len(trail'[s]) = n + 1 /\ trail'[s][n + 1] = Entry(r)
      /\ \A i \in 1 .. n : trail'[s][i] = trail[s][i]
      /\ \A t \in SessionId : t # s => trail'[t] = trail[t]
  <2>1. trail'[s] = Append(trail[s], Entry(r))
    BY <1>1, <1>2
  <2> QED BY <1>1, <1>2, <1>n, <2>1
<1>4. ASSUME NEW t \in Session, t # s
      PROVE  /\ \A i \in 1 .. Len(trail'[t]) :
                  /\ trail'[t][i].previousStatus = StatusAfter(t, i - 1)'
                  /\ trail'[t][i].previousStatus \notin Terminal \cup {trail'[t][i].status}
             /\ sessions'[t].status = StatusAfter(t, Len(trail[t]))'
  <2>1. trail'[t] = trail[t] /\ sessions'[t] = sessions[t]
    BY <1>1, <1>2, <1>3, <1>4
  <2> QED BY <2>1 DEF HistInv, TrailIsHistory, StatusAfter
<1>5. /\ \A i \in 1 .. Len(trail'[s]) :
           /\ trail'[s][i].previousStatus = StatusAfter(s, i - 1)'
           /\ trail'[s][i].previousStatus \notin Terminal \cup {trail'[s][i].status}
      /\ sessions'[s].status = StatusAfter(s, Len(trail[s]))'
  <2>1. n \in Nat /\ n = Len(trail[s])
    BY <1>2, <1>n
  <2>2. ASSUME NEW i \in 0 .. n PROVE StatusAfter(s, i)' = StatusAfter(s, i)
    <3>1. i # 0 => trail'[s][i] = trail[s][i]
      BY <1>3, <2>1
    <3> QED BY <3>1 DEF StatusAfter
  <2>3. ASSUME NEW i \in 1 .. n + 1
        PROVE  /\ trail'[s][i].previousStatus = StatusAfter(s, i - 1)'
               /\ trail'[s][i].previousStatus \notin Terminal \cup {trail'[s][i].status}
    <3>1. i - 1 \in 0 .. n
      BY <2>1
    <3>2. CASE i = n + 1
      <4>1. i - 1 = n
        BY <2>1, <3>2
      <4> QED BY <1>1, <1>3, <2>2, <3>1, <3>2, <4>1
    <3>3. CASE i # n + 1
      <4>1. i \in 1 .. n
        BY <2>1, <3>3
      <4>2. /\ trail[s][i].previousStatus = StatusAfter(s, i - 1)
            /\ trail[s][i].previousStatus \notin Terminal \cup {trail[s][i].status}
        BY <1>1, <2>1, <4>1 DEF HistInv, TrailIsHistory
      <4> QED BY <1>3, <2>2, <3>1, <4>1, <4>2
    <3> QED BY <3>2, <3>3
  <2>4. sessions'[s].status = loc[r].status
    BY <1>1, <1>2
  <2>5. StatusAfter(s, Len(trail[s]))' = trail'[s][n + 1].status
    <3>1. Len(trail'[s]) = n + 1 /\ n + 1 # 0
      BY <1>3, <2>1
    <3> QED BY <3>1 DEF StatusAfter
  <2> QED BY <1>1, <1>3, <2>3, <2>4, <2>5
<1>6. TrailIsHistory'
  <2>1. ASSUME NEW t \in Session
        PROVE  /\ \A i \in 1 .. Len(trail'[t]) :
                    /\ trail'[t][i].previousStatus = StatusAfter(t, i - 1)'
                    /\ trail'[t][i].previousStatus \notin Terminal \cup {trail'[t][i].status}
               /\ sessions'[t].status = StatusAfter(t, Len(trail[t]))'
    <3>1. CASE t = s
      BY <1>5, <3>1
    <3>2. CASE t # s
      BY <1>4, <3>2
    <3> QED BY <3>1, <3>2
  <2> QED BY <1>2, <2>1 DEF TrailIsHistory
<1>7. \A t \in SessionId \ Session : trail'[t] = trail[t]
  BY <1>1, <1>3
<1> QED BY <1>2, <1>6, <1>7 DEF HistInv

LEMMA HistKeeps == IInv /\ HistInv /\ [Next]_vars => HistInv'
<1> SUFFICES ASSUME IInv, HistInv, [Next]_vars PROVE HistInv'
  OBVIOUS
<1>1. created \in Nat
  BY ServiceAssumption DEF IInv, TypeOK
<1>2. CASE UNCHANGED vars
  BY <1>1, <1>2, HistStands DEF vars, Stands
<1>3. CASE Next
  BY <1>1, <1>3, StandsOrWrites, HistStands, HistOpens, HistWrites
<1> QED BY <1>2, <1>3

LEMMA HistInit == Init => HistInv
<1> SUFFICES ASSUME Init PROVE HistInv
  OBVIOUS
<1>1. Session = {}
  <2>1. created = 0
    BY DEF Init
  <2>2. 1 .. 0 = {}
    OBVIOUS
  <2> QED BY <2>1, <2>2 DEF Session
<1> QED BY <1>1 DEF Init, HistInv, TrailIsHistory

THEOREM HistHolds == Spec => []HistInv
  BY HistInit, HistKeeps, Invariant, PTL DEF Spec

\* The audit log of a session tells its whole history and nothing else, whoever
\* writes, retries, races or crashes (writeStatus).
THEOREM TrailCorrect == Spec => []TrailIsHistory
<1>1. HistInv => TrailIsHistory
  BY DEF HistInv
<1> QED BY <1>1, HistHolds, PTL

-----------------------------------------------------------------------------
(***************************************************************************)
(* The host's effects.  An entry waits for its effect in the one request   *)
(* that wrote it, and was not handed over before.                          *)
(***************************************************************************)
Waits(r) ==
  LET s == loc[r].sid IN
  /\ loc[r].entry \in 1 .. Len(trail[s])
  /\ \A i \in 1 .. Len(effects[s]) : effects[s][i] # loc[r].entry

EffectInv ==
  /\ \A s \in SessionId : \A i, j \in 1 .. Len(effects[s]) :
       /\ effects[s][i] \in 1 .. Len(trail[s])
       /\ i # j => effects[s][i] # effects[s][j]
  /\ \A r \in Request : pc[r] = "effect" => Waits(r)
  /\ \A q, r \in Request :
       q # r /\ pc[q] = "effect" /\ pc[r] = "effect" /\ loc[q].sid = loc[r].sid =>
         loc[q].entry # loc[r].entry

\* Nothing is written or handed over, and no request comes to hold an entry
Rests == /\ UNCHANGED <<effects, trail>>
         /\ \A q \in Request : pc'[q] = "effect" => pc[q] = "effect" /\ loc'[q] = loc[q]

LEMMA RestsOrHands ==
  ASSUME IInv, Next
  PROVE  Rests \/ \E r \in Request : WriteUpdates(r) \/ Effect(r)
<1>t. pc \in [Request -> PC] /\ loc \in [Request -> Local]
  BY DEF IInv, TypeOK
<1>1. ASSUME NEW r \in Request, NEW next, NEW local, next # "effect",
             Goto(r, next, local), UNCHANGED <<effects, trail>>
      PROVE  Rests
  BY <1>t, <1>1 DEF Rests, Goto
<1>2. ASSUME NEW r \in Request, NEW local, NEW answer,
             Finish(r, answer) \/ Ends(r, answer) \/ SetsAside(r, local, answer),
             UNCHANGED <<effects, trail>>
      PROVE  Rests
  BY <1>1, <1>2 DEF Finish, Ends, SetsAside
<1>3. ASSUME NEW r \in Request, Client(r) PROVE Rests
  <2>1. CASE StartFailsToPersist(r)
    BY <1>2, <2>1 DEF StartFailsToPersist
  <2>2. ASSUME NEW u \in User, NEW lvl \in Level \cup {NoLevel}, StartPersists(r, u, lvl)
        PROVE  Rests
    BY <1>1, <2>2 DEF StartPersists
  <2>3. ASSUME NEW u \in User, NEW s \in Session, RefreshReads(r, u, s) \/ StatusReads(r, u, s)
        PROVE  Rests
    BY <1>1, <1>2, <2>3 DEF RefreshReads, StatusReads
  <2>4. ASSUME NEW u \in User, NEW reconcile \in BOOLEAN, LatestReads(r, u, reconcile)
        PROVE  Rests
    BY <1>1, <2>4 DEF LatestReads
  <2>5. ASSUME NEW s \in Session, PageReads(r, s) PROVE Rests
    BY <1>1, <1>2, <2>5 DEF PageReads
  <2> QED BY <1>3, <2>1, <2>2, <2>3, <2>4, <2>5 DEF Client
<1>4. ASSUME NEW r \in Request, Webhook(r) PROVE Rests
  BY <1>1, <1>2, <1>4 DEF Webhook, WebhookArrives, WebhookIgnored
<1>5. ASSUME NEW r \in Request, Continues(r), ~WriteUpdates(r), ~Effect(r) PROVE Rests
  <2>1. CASE StartMints(r) \/ StartMintFails(r) \/ StartAuditsFailure(r) \/ StartBinds(r)
    BY <1>1, <1>2, <2>1 DEF StartMints, StartMintFails, StartAuditsFailure, StartBinds
  <2>2. CASE RefreshMints(r) \/ RefreshAudits(r) \/ PageMints(r)
    BY <1>1, <1>2, <2>2 DEF RefreshMints, RefreshAudits, PageMints
  <2>3. CASE Lookup(r) \/ WebhookReadsUnbound(r)
    BY <1>1, <1>2, <2>3 DEF Lookup, LookupAnswers, Reconciles, WebhookReadsUnbound
  <2>4. CASE WriteMismatch(r) \/ WriteKeeps(r) \/ EffectAudits(r)
    BY <1>2, <2>4 DEF WriteMismatch, WriteKeeps, EffectAudits
  <2> QED BY <1>5, <2>1, <2>2, <2>3, <2>4 DEF Continues
<1>6. ASSUME NEW r \in Request, Fails(r) PROVE Rests
  BY <1>2, <1>6 DEF Fails, StoreFails, ProviderFails, Lost
<1>7. ASSUME NEW n \in NoticeKinds, ProviderNotifies(n) PROVE Rests
  BY <1>7 DEF ProviderNotifies, Rests
<1> QED BY <1>3, <1>4, <1>5, <1>6, <1>7 DEF Next

\* The entry a write leaves waiting is younger than all others of its session
LEMMA EffectWrites ==
  ASSUME IInv, HistInv, EffectInv, NEW r \in Request, WriteUpdates(r)
  PROVE  EffectInv'
<1>s. PICK s : s = loc[r].sid
  OBVIOUS
<1>n. PICK n : n = Len(trail[s])
  OBVIOUS
<1>1. /\ s \in SessionId /\ n \in Nat
      /\ trail' = [trail EXCEPT ![s] = Append(trail[s], Entry(r))]
      /\ trail \in [SessionId -> Seq(TrailEntry)]
  BY <1>s, <1>n, WriteAppends DEF IInv, TypeOK
<1>2. Len(trail'[s]) = n + 1 /\ \A t \in SessionId : t # s => trail'[t] = trail[t]
  <2>1. trail'[s] = Append(trail[s], Entry(r)) /\ trail[s] \in Seq(TrailEntry)
    BY <1>1
  <2> QED BY <1>1, <1>n, <2>1
<1>3. UNCHANGED effects /\ pc \in [Request -> PC] /\ loc \in [Request -> Local]
      /\ \E answer : Goto(r, "effect", [loc[r] EXCEPT !.entry = n + 1, !.answer = answer])
  BY <1>s, <1>n DEF WriteUpdates, IInv, TypeOK
<1>4. /\ loc'[r].sid = s /\ loc'[r].entry = n + 1
      /\ \A q \in Request : q # r => pc'[q] = pc[q] /\ loc'[q] = loc[q]
  BY <1>s, <1>3 DEF Goto, Local
<1>5. \A t \in SessionId : \A k \in 1 .. Len(trail[t]) : k \in 1 .. Len(trail'[t]) /\ (t = s => k # n + 1)
  BY <1>1, <1>2, <1>n
<1>6. \A q \in Request : q # r /\ pc[q] = "effect" => loc[q].sid \in SessionId
  BY Placed
<1>7. /\ \A t \in SessionId : \A i, j \in 1 .. Len(effects'[t]) :
           /\ effects'[t][i] \in 1 .. Len(trail'[t])
           /\ i # j => effects'[t][i] # effects'[t][j]
      /\ \A i \in 1 .. Len(effects[s]) : effects[s][i] # n + 1
  BY <1>1, <1>3, <1>5 DEF EffectInv
<1>8. ASSUME NEW q \in Request, pc'[q] = "effect" PROVE Waits(q)'
  <2>1. CASE q = r
    BY <1>1, <1>2, <1>3, <1>4, <1>7, <2>1 DEF Waits
  <2>2. CASE q # r
    BY <1>3, <1>4, <1>5, <1>6, <1>8, <2>2 DEF EffectInv, Waits
  <2> QED BY <2>1, <2>2
<1>9. ASSUME NEW q \in Request, NEW p \in Request, q # p, pc'[q] = "effect", pc'[p] = "effect",
             loc'[q].sid = loc'[p].sid
      PROVE  loc'[q].entry # loc'[p].entry
  <2>1. CASE q = r
    BY <1>4, <1>5, <1>6, <1>9, <2>1 DEF EffectInv, Waits
  <2>2. CASE p = r
    BY <1>4, <1>5, <1>6, <1>9, <2>2 DEF EffectInv, Waits
  <2>3. CASE q # r /\ p # r
    BY <1>4, <1>9, <2>3 DEF EffectInv
  <2> QED BY <2>1, <2>2, <2>3
<1> QED BY <1>7, <1>8, <1>9 DEF EffectInv

\* A request hands over the entry it holds, and holds it no longer
LEMMA EffectHands ==
  ASSUME IInv, EffectInv, NEW r \in Request, Effect(r)
  PROVE  EffectInv'
<1>s. PICK s : s = loc[r].sid
  OBVIOUS
<1>e. PICK e : e = loc[r].entry
  OBVIOUS
<1>n. PICK n : n = Len(effects[s])
  OBVIOUS
<1>1. /\ s \in SessionId /\ n \in Nat /\ UNCHANGED trail
      /\ effects' = [effects EXCEPT ![s] = Append(effects[s], e)]
      /\ effects \in [SessionId -> Seq(Nat)] /\ e \in Nat
      /\ pc \in [Request -> PC] /\ loc \in [Request -> Local] /\ pc[r] = "effect"
  <2>1. pc[r] = "effect" /\ UNCHANGED trail
        /\ effects' = [effects EXCEPT ![s] = Append(effects[s], e)]
    BY <1>s, <1>e DEF Effect
  <2>2. s \in SessionId /\ loc[r] \in Local
    BY <1>s, <2>1, Placed
  <2>3. e \in Nat
    BY <1>e, <2>2 DEF Local
  <2>4. effects \in [SessionId -> Seq(Nat)] /\ pc \in [Request -> PC] /\ loc \in [Request -> Local]
    BY DEF IInv, TypeOK
  <2>5. effects[s] \in Seq(Nat)
    BY <2>2, <2>4
  <2> QED BY <1>n, <2>1, <2>2, <2>3, <2>4, <2>5
<1>2. /\ Len(effects'[s]) = n + 1 /\ effects'[s][n + 1] = e
      /\ \A i \in 1 .. n : effects'[s][i] = effects[s][i]
      /\ \A t \in SessionId : t # s => effects'[t] = effects[t]
  <2>1. effects'[s] = Append(effects[s], e) /\ effects[s] \in Seq(Nat)
    BY <1>1
  <2> QED BY <1>1, <1>n, <2>1
<1>3. /\ pc'[r] # "effect"
      /\ \A q \in Request : q # r => pc'[q] = pc[q] /\ loc'[q] = loc[q]
  <2>1. \E next \in {"done", "effect_audit"} : \E local : Goto(r, next, local)
    BY DEF Effect, Finish
  <2> QED BY <1>1, <2>1 DEF Goto
<1>4. Waits(r)
  BY <1>1 DEF EffectInv
<1>5. e \in 1 .. Len(trail[s]) /\ \A i \in 1 .. n : effects[s][i] # e
  BY <1>4, <1>s, <1>e, <1>n DEF Waits
<1>6. ASSUME NEW t \in SessionId, NEW i \in 1 .. Len(effects'[t]), NEW j \in 1 .. Len(effects'[t])
      PROVE  /\ effects'[t][i] \in 1 .. Len(trail'[t])
             /\ i # j => effects'[t][i] # effects'[t][j]
  <2>1. CASE t # s
    BY <1>1, <1>2, <2>1 DEF EffectInv
  <2>2. CASE t = s
    <3>1. \A k \in 1 .. n + 1 : k = n + 1 \/ k \in 1 .. n
      BY <1>1
    <3>2. \A k, m \in 1 .. n :
            /\ effects[s][k] \in 1 .. Len(trail[s])
            /\ k # m => effects[s][k] # effects[s][m]
      BY <1>1, <1>n DEF EffectInv
    <3>3. \A k \in 1 .. n + 1 :
            \/ k = n + 1 /\ effects'[s][k] = e
            \/ k \in 1 .. n /\ effects'[s][k] = effects[s][k]
      BY <1>2, <3>1
    <3>4. i \in 1 .. n + 1 /\ j \in 1 .. n + 1
      BY <1>2, <2>2
    <3>5. \/ i = n + 1 /\ effects'[s][i] = e
          \/ i \in 1 .. n /\ effects'[s][i] = effects[s][i]
      BY <3>3, <3>4
    <3>6. \/ j = n + 1 /\ effects'[s][j] = e
          \/ j \in 1 .. n /\ effects'[s][j] = effects[s][j]
      BY <3>3, <3>4
    <3>7. effects'[s][i] \in 1 .. Len(trail[s])
      BY <1>5, <3>2, <3>5
    <3>8. i # j => effects'[s][i] # effects'[s][j]
      BY <1>5, <3>2, <3>5, <3>6
    <3> QED BY <1>1, <2>2, <3>7, <3>8
  <2> QED BY <2>1, <2>2
<1>7. ASSUME NEW q \in Request, pc'[q] = "effect" PROVE Waits(q)'
  <2>1. q # r /\ pc[q] = "effect" /\ loc'[q] = loc[q]
    BY <1>3, <1>7
  <2>2. Waits(q) /\ loc[q].sid \in SessionId /\ (loc[q].sid = s => loc[q].entry # e)
    BY <1>1, <1>s, <1>e, <2>1, Placed DEF EffectInv
  <2>3. \A k \in 1 .. n + 1 : k = n + 1 \/ k \in 1 .. n
    BY <1>1
  <2>4. CASE loc[q].sid = s
    <3>1. \A k \in 1 .. n : effects[s][k] # loc[q].entry
      BY <1>n, <2>2, <2>4 DEF Waits
    <3>2. loc[q].entry \in 1 .. Len(trail'[s])
      BY <1>1, <2>2, <2>4 DEF Waits
    <3>3. \A k \in 1 .. Len(effects'[s]) : effects'[s][k] # loc[q].entry
      BY <1>2, <2>2, <2>3, <2>4, <3>1
    <3> QED BY <2>1, <2>4, <3>2, <3>3 DEF Waits
  <2>5. CASE loc[q].sid # s
    BY <1>1, <1>2, <2>1, <2>2, <2>5 DEF Waits
  <2> QED BY <2>4, <2>5
<1>8. \A q, p \in Request :
        q # p /\ pc'[q] = "effect" /\ pc'[p] = "effect" /\ loc'[q].sid = loc'[p].sid =>
          loc'[q].entry # loc'[p].entry
  BY <1>3 DEF EffectInv
<1> QED BY <1>6, <1>7, <1>8 DEF EffectInv

LEMMA EffectInvKeeps == IInv /\ HistInv /\ EffectInv /\ [Next]_vars => EffectInv'
<1> SUFFICES ASSUME IInv, HistInv, EffectInv, [Next]_vars PROVE EffectInv'
  OBVIOUS
<1>1. ASSUME Rests PROVE EffectInv'
  BY <1>1 DEF EffectInv, Rests, Waits
<1>2. CASE UNCHANGED vars
  BY <1>1, <1>2 DEF vars, Rests
<1>3. CASE Next
  BY <1>1, <1>3, RestsOrHands, EffectWrites, EffectHands
<1> QED BY <1>2, <1>3

LEMMA EffectInit == Init => EffectInv
<1> SUFFICES ASSUME Init PROVE EffectInv
  OBVIOUS
<1>1. \A s \in SessionId : effects[s] = <<>>
  BY DEF Init
<1>2. Len(<<>>) = 0 /\ \A i : i \notin 1 .. 0
  OBVIOUS
<1> QED BY <1>1, <1>2 DEF EffectInv, Init

\* The host's effect runs for committed changes only, and at most once for each,
\* whatever is retried or lost (runEffects after writeStatus).
THEOREM EffectsCorrect == Spec => []EffectsAreCommittedOnce
<1>1. Spec => []EffectInv
  BY EffectInit, EffectInvKeeps, HistHolds, Invariant, PTL DEF Spec
<1>2. IInv /\ EffectInv => EffectsAreCommittedOnce
  BY SessionIsId DEF EffectInv, EffectsAreCommittedOnce
<1> QED BY <1>1, <1>2, Invariant, PTL

-----------------------------------------------------------------------------
(***************************************************************************)
(* What requests answer.  What one has seen was held when it read, and     *)
(* what it answers is held, or accounted for, when it answers: trails and  *)
(* audit logs only grow and bindings stay, so both remain so.              *)
(***************************************************************************)
\* An entry from the i-th on left the status; the 0-th stands for the row's first
HeldIn(log, i, status) ==
  \E j \in i .. Len(log) : IF j = 0 THEN status = "initial" ELSE log[j].status = status

Accounted(r) ==
  LET s == loc[r].sid  a == loc[r].applicant  answer == loc[r].answer IN
  /\ s \in Session /\ a \in Applicant
  /\ answer \in {"updated", "unchanged"} =>
       sessions[s].applicant = a /\ HeldIn(trail[s], 0, loc[r].status)
  /\ answer = "rejected_terminal" =>
       sessions[s].status \in Terminal /\ audit[s]["terminal_status"] > 0
  /\ answer = "rejected_unbound" =>
       /\ sessions[s].applicant \notin {NoApplicant, a}
       /\ audit[s]["applicant_mismatch"] > 0

\* What a read saw, and the applicant of a webhook about to write
Saw(r) ==
  /\ pc[r] \in {"start_mint", "start_bind", "lookup"} => loc[r].source = "api"
  /\ pc[r] = "unbound" => loc[r].source = "webhook"
  /\ pc[r] \in {"lookup", "apply", "effect", "effect_audit"} /\ loc[r].source = "api" =>
       HeldIn(trail[loc[r].sid], loc[r].mark, loc[r].seen)
  /\ pc[r] = "apply" /\ loc[r].source = "webhook" =>
       /\ loc[r].applicant \in Applicant
       /\ loc[r].bind \/ sessions[loc[r].sid].applicant = loc[r].applicant

\* The answers of a webhook that reached the write
Written == {"updated", "unchanged", "rejected_terminal", "rejected_unbound"}

\* What it answers, or will once the effect has run
Says(r) ==
  /\ pc[r] \in {"effect", "effect_audit"} /\ loc[r].source = "api" =>
       /\ loc[r].answer \in Status
       /\ HeldIn(trail[loc[r].sid], loc[r].mark, loc[r].answer)
  /\ pc[r] \in {"effect", "effect_audit"} /\ loc[r].source = "webhook" =>
       loc[r].answer = "updated" /\ Accounted(r)
  /\ pc[r] = "done" /\ loc[r].answer \in Status =>
       loc[r].sid \in Session /\ HeldIn(trail[loc[r].sid], loc[r].mark, loc[r].answer)
  /\ pc[r] = "done" /\ loc[r].answer \in Written => Accounted(r)

LEMMA WrittenIsNoStatus == Written \cap Status = {}
  BY DEF Written, Status

Tells(r) == Saw(r) /\ Says(r)

\* Every audit log only grows
LEMMA AuditGrows ==
  ASSUME IInv, Next
  PROVE  \A s \in SessionId, k \in AuditAction : audit[s][k] <= audit'[s][k]
<1> DEFINE Goal == \A s \in SessionId, k \in AuditAction : audit[s][k] <= audit'[s][k]
<1>t. audit \in [SessionId -> [AuditAction -> Nat]]
  BY DEF IInv, TypeOK
<1>1. ASSUME UNCHANGED audit PROVE Goal
  BY <1>t, <1>1
<1>2. ASSUME NEW s, NEW k, Audit(s, k) PROVE Goal
  <2>1. ASSUME NEW t \in SessionId, NEW m \in AuditAction PROVE audit[t][m] <= audit'[t][m]
    <3>1. audit[t][m] \in Nat
      BY <1>t
    <3>2. audit'[t][m] = audit[t][m] \/ audit'[t][m] = audit[t][m] + 1
      BY <1>t, <1>2 DEF Audit
    <3> QED BY <3>1, <3>2
  <2> QED BY <2>1
<1> HIDE DEF Goal
<1>3. ASSUME NEW r \in Request, Client(r) PROVE Goal
  BY <1>1, <1>2, <1>3
  DEF Client, StartPersists, StartFailsToPersist, RefreshReads, StatusReads, LatestReads, PageReads
<1>4. ASSUME NEW r \in Request, Webhook(r) PROVE Goal
  BY <1>1, <1>4 DEF Webhook, WebhookArrives, WebhookIgnored
<1>5. ASSUME NEW r \in Request, Continues(r) PROVE Goal
  BY <1>1, <1>2, <1>5
  DEF Continues, StartMints, StartMintFails, StartAuditsFailure, StartBinds, RefreshMints,
      RefreshAudits, PageMints, Lookup, WebhookReadsUnbound, WriteMismatch, WriteUpdates,
      WriteKeeps, Effect, EffectAudits
<1>6. ASSUME NEW r \in Request, Fails(r) PROVE Goal
  BY <1>1, <1>6 DEF Fails, StoreFails, ProviderFails, Lost
<1>7. ASSUME NEW n \in NoticeKinds, ProviderNotifies(n) PROVE Goal
  BY <1>1, <1>7 DEF ProviderNotifies
<1> QED BY <1>3, <1>4, <1>5, <1>6, <1>7 DEF Next, Goal

LEMMA LogsGrow ==
  ASSUME IInv, HistInv, [Next]_vars
  PROVE  Longer
<1>t. /\ trail \in [SessionId -> Seq(TrailEntry)]
      /\ audit \in [SessionId -> [AuditAction -> Nat]]
  BY DEF IInv, TypeOK
<1>1. \A s \in SessionId : Len(trail[s]) \in Nat
  BY <1>t
<1>2. CASE UNCHANGED vars
  BY <1>t, <1>1, <1>2 DEF Longer, vars
<1>3. CASE Next
  <2>1. CASE trail' = trail
    BY <1>1, <1>3, <2>1, AuditGrows DEF Longer
  <2>2. ASSUME NEW r \in Request, WriteUpdates(r) PROVE Longer
    <3>1. /\ loc[r].sid \in SessionId
          /\ trail' = [trail EXCEPT ![loc[r].sid] = Append(trail[loc[r].sid], Entry(r))]
      BY <2>2, WriteAppends
    <3>2. ASSUME NEW s \in SessionId
          PROVE  /\ Len(trail[s]) <= Len(trail'[s])
                 /\ \A i \in 1 .. Len(trail[s]) : trail'[s][i] = trail[s][i]
      <4>1. trail[s] \in Seq(TrailEntry)
        BY <1>t
      <4>2. trail'[s] = trail[s] \/ trail'[s] = Append(trail[s], Entry(r))
        BY <1>t, <3>1
      <4> QED BY <4>1, <4>2
    <3> QED BY <1>3, <3>2, AuditGrows DEF Longer
  <2> QED BY <1>3, <2>1, <2>2, StandsOrWrites DEF Stands, StartPersists
<1> QED BY <1>2, <1>3

-----------------------------------------------------------------------------
\* Held is held for good
LEMMA HeldStays ==
  ASSUME TypeOK, TypeOK', Longer, NEW s \in SessionId, NEW i \in Nat, NEW status,
         HeldIn(trail[s], i, status)
  PROVE  HeldIn(trail'[s], i, status)
<1>1. Len(trail[s]) \in Nat /\ Len(trail'[s]) \in Nat /\ Len(trail[s]) <= Len(trail'[s])
  BY DEF TypeOK, Longer
<1>2. PICK j \in i .. Len(trail[s]) : IF j = 0 THEN status = "initial" ELSE trail[s][j].status = status
  BY DEF HeldIn
<1>3. j \in i .. Len(trail'[s]) /\ (j # 0 => j \in 1 .. Len(trail[s]))
  BY <1>1, <1>2
<1>4. j # 0 => trail'[s][j] = trail[s][j]
  BY <1>3 DEF Longer
<1> QED BY <1>2, <1>3, <1>4 DEF HeldIn

\* The row's status is held now
LEMMA HeldNow ==
  ASSUME IInv, HistInv, NEW s \in Session, NEW i \in Nat, i <= Len(trail[s])
  PROVE  HeldIn(trail[s], i, sessions[s].status)
<1>1. Len(trail[s]) \in i .. Len(trail[s])
  BY SessionIsId DEF IInv, TypeOK
<1>2. StatusAfter(s, Len(trail[s])) = sessions[s].status
  BY DEF HistInv, TrailIsHistory
<1> QED BY <1>1, <1>2 DEF HeldIn, StatusAfter

LEMMA AccountedStays ==
  ASSUME IInv, IInv', Grows, Longer, NEW q \in Request, loc'[q] = loc[q], Accounted(q)
  PROVE  Accounted(q)'
<1>s. PICK s : s = loc[q].sid
  OBVIOUS
<1>1. /\ s \in Session /\ s \in Session' /\ s \in SessionId /\ loc[q].applicant \in Applicant
  <2>1. created \in Nat /\ created' \in Nat /\ Session \subseteq Session'
    BY ServiceAssumption DEF IInv, TypeOK, Grows, Session
  <2> QED BY <1>s, <2>1, SessionIsId DEF Accounted
<1>2. /\ sessions[s].applicant # NoApplicant => sessions'[s].applicant = sessions[s].applicant
      /\ sessions[s].status \in Terminal => sessions'[s].status = sessions[s].status
  BY <1>1 DEF Grows
<1>3. HeldIn(trail[s], 0, loc[q].status) => HeldIn(trail'[s], 0, loc'[q].status)
  BY <1>1, HeldStays DEF IInv
<1>4. \A k \in AuditAction : audit[s][k] \in Nat /\ audit'[s][k] \in Nat
                            /\ (audit[s][k] > 0 => audit'[s][k] > 0)
  <2>1. \A k \in AuditAction : audit[s][k] \in Nat /\ audit'[s][k] \in Nat
    BY <1>1 DEF IInv, TypeOK
  <2>2. \A k \in AuditAction : audit[s][k] <= audit'[s][k]
    BY <1>1 DEF Longer
  <2> QED BY <2>1, <2>2
<1>5. {"terminal_status", "applicant_mismatch"} \subseteq AuditAction
  BY DEF AuditAction
<1> QED BY <1>s, <1>1, <1>2, <1>3, <1>4, <1>5, StoreAssumption DEF Accounted

\* A request that stands still goes on telling the truth
LEMMA TellsStays ==
  ASSUME IInv, IInv', Grows, Longer, NEW q \in Request, Tells(q),
         pc'[q] = pc[q], loc'[q] = loc[q]
  PROVE  Tells(q)'
<1>1. loc[q] \in Local
  BY DEF IInv, TypeOK
<1>2. ASSUME NEW status, loc[q].sid \in Session, HeldIn(trail[loc[q].sid], loc[q].mark, status)
      PROVE  HeldIn(trail'[loc[q].sid], loc[q].mark, status) /\ loc[q].sid \in Session'
  <2>1. loc[q].sid \in SessionId /\ loc[q].mark \in Nat
    BY <1>1, <1>2, SessionIsId DEF Local
  <2>2. Session \subseteq Session'
    BY ServiceAssumption DEF IInv, TypeOK, Grows, Session
  <2> QED BY <1>2, <2>1, <2>2, HeldStays DEF IInv
<1>3. Accounted(q) => Accounted(q)'
  BY AccountedStays
<1>4. pc[q] \notin {"idle", "done", "unbound"} => loc[q].sid \in Session
  BY Placed
<1>5. Saw(q)'
  <2>1. loc[q].sid \in Session /\ loc[q].applicant \in Applicant
          /\ sessions[loc[q].sid].applicant = loc[q].applicant
        => sessions'[loc[q].sid].applicant = loc[q].applicant
    BY StoreAssumption DEF Grows
  <2> QED BY <1>2, <1>4, <2>1 DEF Tells, Saw
<1>6. Says(q)'
  BY <1>2, <1>3, <1>4 DEF Tells, Says
<1> QED BY <1>5, <1>6 DEF Tells

-----------------------------------------------------------------------------
(* The steps of a request: it moves alone and goes on telling the truth *)
Told(r) == Others(r) /\ Tells(r)'

LEMMA GotoSets ==
  ASSUME TypeOK, NEW r \in Request, NEW next, NEW local, Goto(r, next, local)
  PROVE  pc'[r] = next /\ loc'[r] = local /\ Others(r)
  BY DEF TypeOK, Goto, Others

\* An answer that is not a status says nothing of a session
LEMMA EndsTold ==
  ASSUME IInv, NEW r \in Request, NEW answer, Ends(r, answer), answer \notin Status \cup Written
  PROVE  Told(r)
<1> DEFINE local == [Blank EXCEPT !.answer = answer]
<1>1. pc'[r] = "done" /\ loc'[r] = local /\ Others(r)
  BY GotoSets DEF Ends, IInv
<1>2. local.source = "api" /\ local.answer = answer
  BY DEF Blank
<1> QED BY <1>1, <1>2 DEF Told, Tells, Saw, Says

\* Nor does that of a notice set aside
LEMMA AsideTold ==
  ASSUME IInv, NEW r \in Request, NEW local \in Local, NEW answer, SetsAside(r, local, answer),
         answer \notin Status \cup Written
  PROVE  Told(r)
<1> DEFINE ended == [local EXCEPT !.rows = created, !.answer = answer]
<1>1. pc'[r] = "done" /\ loc'[r] = ended /\ Others(r)
  BY GotoSets DEF SetsAside, IInv
<1>2. ended.answer = answer
  BY DEF Local
<1> HIDE DEF ended
<1> QED BY <1>1, <1>2 DEF Told, Tells, Saw, Says

\* Nor does an await of refresh or hostedPage, or a failed start's
LEMMA MintTold ==
  ASSUME IInv, NEW r \in Request, NEW local,
         NEW next \in {"creation_failed", "refresh_mint", "refresh_audit", "page_mint"},
         Goto(r, next, local)
  PROVE  Told(r)
<1>1. pc'[r] = next /\ loc'[r] = local /\ Others(r)
  BY GotoSets DEF IInv
<1> QED BY <1>1 DEF Told, Tells, Saw, Says

\* Nor an await of start, a client's call
LEMMA StartTold ==
  ASSUME IInv, NEW r \in Request, NEW local, NEW next \in {"start_mint", "start_bind"},
         local.source = "api", Goto(r, next, local)
  PROVE  Told(r)
<1>1. pc'[r] = next /\ loc'[r] = local /\ Others(r)
  BY GotoSets DEF IInv
<1> QED BY <1>1 DEF Told, Tells, Saw, Says

\* A finished request answers a status its session has held since it read, or
\* has its notice accounted for
LEMMA FinishTold ==
  ASSUME IInv, NEW r \in Request, NEW answer, Finish(r, answer),
         answer \in Status =>
           loc[r].sid \in Session' /\ HeldIn(trail'[loc[r].sid], loc[r].mark, answer),
         answer \in Written =>
           LET s == loc[r].sid  a == loc[r].applicant IN
           /\ s \in Session' /\ a \in Applicant
           /\ answer \in {"updated", "unchanged"} =>
                sessions'[s].applicant = a /\ HeldIn(trail'[s], 0, loc[r].status)
           /\ answer = "rejected_terminal" =>
                sessions'[s].status \in Terminal /\ audit'[s]["terminal_status"] > 0
           /\ answer = "rejected_unbound" =>
                /\ sessions'[s].applicant \notin {NoApplicant, a}
                /\ audit'[s]["applicant_mismatch"] > 0
  PROVE  Told(r)
<1> DEFINE local == [Blank EXCEPT !.sid = loc[r].sid, !.mark = loc[r].mark,
                       !.applicant = loc[r].applicant, !.status = loc[r].status,
                       !.source = loc[r].source, !.answer = answer]
<1>1. pc'[r] = "done" /\ loc'[r] = local /\ Others(r)
  BY GotoSets DEF Finish, IInv
<1>2. /\ local.sid = loc[r].sid /\ local.mark = loc[r].mark
      /\ local.applicant = loc[r].applicant /\ local.status = loc[r].status
      /\ local.source = loc[r].source /\ local.answer = answer
  BY DEF Blank
<1> HIDE DEF local
<1>3. Saw(r)'
  BY <1>1 DEF Saw
<1>4. Says(r)'
  BY <1>1, <1>2 DEF Says, Accounted
<1> QED BY <1>1, <1>3, <1>4 DEF Told, Tells

\* A read that goes on to the provider, and one that answers what it read
LEMMA ReadTold ==
  ASSUME IInv, HistInv, NEW r \in Request, NEW s \in Session, UNCHANGED <<table, trail>>,
         \/ Goto(r, "lookup", Read(s))
         \/ Goto(r, "done", [Read(s) EXCEPT !.answer = sessions[s].status])
  PROVE  Told(r)
<1>1. Len(trail[s]) \in Nat /\ Len(trail[s]) <= Len(trail[s])
  BY SessionIsId DEF IInv, TypeOK
<1>2. HeldIn(trail'[s], Len(trail[s]), sessions[s].status)
  BY <1>1, HeldNow
<1>3. /\ Read(s).sid = s /\ Read(s).mark = Len(trail[s]) /\ Read(s).source = "api"
      /\ Read(s).seen = sessions[s].status
  BY DEF Read, Blank
<1>4. CASE Goto(r, "lookup", Read(s))
  <2>1. pc'[r] = "lookup" /\ loc'[r] = Read(s) /\ Others(r)
    BY <1>4, GotoSets DEF IInv
  <2> QED BY <1>2, <1>3, <2>1 DEF Told, Tells, Saw, Says
<1>5. CASE Goto(r, "done", [Read(s) EXCEPT !.answer = sessions[s].status])
  <2> DEFINE local == [Read(s) EXCEPT !.answer = sessions[s].status]
  <2>1. pc'[r] = "done" /\ loc'[r] = local /\ Others(r)
    BY <1>5, GotoSets DEF IInv
  <2>2. /\ local.sid = s /\ local.mark = Len(trail[s]) /\ local.source = "api"
        /\ local.answer = sessions[s].status
    BY DEF Read, Blank
  <2>3. s \in Session' /\ sessions[s].status \in Status
    BY SessionIsId DEF table, Session, IInv, TypeOK, Row
  <2> HIDE DEF local
  <2> QED BY <1>2, <2>1, <2>2, <2>3, WrittenIsNoStatus DEF Told, Tells, Saw, Says
<1> QED BY <1>4, <1>5

LEMMA ClientTold ==
  ASSUME IInv, HistInv, NEW r \in Request, Client(r)
  PROVE  Told(r)
<1>s. {"PERSISTENCE_FAILED", "SESSION_NOT_FOUND", "VALIDATION_ERROR", "404"}
        \cap (Status \cup Written) = {}
  BY DEF Status, Written
<1>1. CASE StartFailsToPersist(r)
  BY <1>s, <1>1, EndsTold DEF StartFailsToPersist
<1>2. ASSUME NEW u \in User, NEW lvl \in Level \cup {NoLevel}, StartPersists(r, u, lvl)
      PROVE  Told(r)
  <2>1. [Blank EXCEPT !.sid = created + 1].source = "api"
    BY DEF Blank
  <2> QED BY <1>2, <2>1, StartTold DEF StartPersists
<1>3. ASSUME NEW u \in User, NEW s \in Session, RefreshReads(r, u, s) \/ StatusReads(r, u, s)
      PROVE  Told(r)
  <2>1. CASE RefreshReads(r, u, s)
    <3>1. \/ Ends(r, "SESSION_NOT_FOUND") \/ Ends(r, "VALIDATION_ERROR")
          \/ Goto(r, "refresh_mint", Read(s))
      BY <2>1 DEF RefreshReads
    <3>2. CASE Goto(r, "refresh_mint", Read(s))
      BY <3>2, MintTold
    <3> QED BY <1>s, <3>1, <3>2, EndsTold
  <2>2. CASE StatusReads(r, u, s)
    <3>1. /\ UNCHANGED <<table, trail>>
          /\ \/ Ends(r, "SESSION_NOT_FOUND") \/ Goto(r, "lookup", Read(s))
             \/ Goto(r, "done", [Read(s) EXCEPT !.answer = sessions[s].status])
      BY <2>2 DEF StatusReads
    <3> QED BY <1>s, <3>1, EndsTold, ReadTold
  <2> QED BY <1>3, <2>1, <2>2
<1>4. ASSUME NEW u \in User, NEW reconcile \in BOOLEAN, LatestReads(r, u, reconcile)
      PROVE  Told(r)
  <2>1. \E s \in Session :
          /\ UNCHANGED <<table, trail>>
          /\ \/ Goto(r, "lookup", Read(s))
             \/ Goto(r, "done", [Read(s) EXCEPT !.answer = sessions[s].status])
    BY <1>4 DEF LatestReads, LatestForUser, Newest
  <2> QED BY <2>1, ReadTold
<1>5. ASSUME NEW s \in Session, PageReads(r, s) PROVE Told(r)
  <2>1. Ends(r, "404") \/ Goto(r, "page_mint", Read(s))
    BY <1>5 DEF PageReads
  <2>2. CASE Goto(r, "page_mint", Read(s))
    BY <2>2, MintTold
  <2> QED BY <1>s, <2>1, <2>2, EndsTold
<1> QED BY <1>1, <1>2, <1>3, <1>4, <1>5 DEF Client

\* A webhook under way carries its notice's applicant, bound or to be bound
LEMMA CarryTold ==
  ASSUME IInv, NEW r \in Request, NEW local, local.source = "webhook",
         \/ Goto(r, "unbound", local)
         \/ /\ Goto(r, "apply", local) /\ local.applicant \in Applicant
            /\ local.bind \/ sessions'[local.sid].applicant = local.applicant
  PROVE  Told(r)
<1>1. CASE Goto(r, "unbound", local)
  <2>1. pc'[r] = "unbound" /\ loc'[r] = local /\ Others(r)
    BY <1>1, GotoSets DEF IInv
  <2> QED BY <2>1 DEF Told, Tells, Saw, Says
<1>2. CASE /\ Goto(r, "apply", local) /\ local.applicant \in Applicant
           /\ local.bind \/ sessions'[local.sid].applicant = local.applicant
  <2>1. pc'[r] = "apply" /\ loc'[r] = local /\ Others(r)
    BY <1>2, GotoSets DEF IInv
  <2> QED BY <1>2, <2>1 DEF Told, Tells, Saw, Says
<1> QED BY <1>1, <1>2

LEMMA WebhookTold ==
  ASSUME IInv, NEW r \in Request, Tells(r), Webhook(r) \/ WebhookReadsUnbound(r)
  PROVE  Told(r)
<1>s. {"unknown_session", "ignored_unknown_status"} \cap (Status \cup Written) = {}
  BY DEF Status, Written
<1>1. ASSUME NEW i \in 1 .. Len(journal), WebhookArrives(r, i) PROVE Told(r)
  <2> DEFINE found == SessionByApplicant(sessions, Session, journal[i].applicant,
                                         journal[i].level)
  <2>1. \A s \in found : sessions[s].applicant = journal[i].applicant
    BY DEF SessionByApplicant, Newest, Preferred
  <2>2. journal[i].applicant \in Applicant
    <3>1. journal[i] \in Notice
      BY DEF IInv, TypeOK
    <3> QED BY <3>1 DEF Notice
  <2>3. sessions' = sessions
    BY <1>1 DEF WebhookArrives, table
  <2>4. \E s \in {0} \cup found :
          \/ Goto(r, "unbound", [Carries(i) EXCEPT !.sid = s])
          \/ SetsAside(r, Carries(i), "unknown_session")
          \/ s \in found /\ Goto(r, "apply", [Carries(i) EXCEPT !.sid = s])
    BY <1>1 DEF WebhookArrives
  <2>5. ASSUME NEW s
        PROVE  LET local == [Carries(i) EXCEPT !.sid = s] IN
               /\ local.sid = s /\ local.source = "webhook"
               /\ local.applicant = journal[i].applicant
    BY DEF Carries, Blank
  <2> HIDE DEF found
  <2>6. CASE SetsAside(r, Carries(i), "unknown_session")
    BY <1>s, <1>1, <2>6, AsideTold, CarriesIsLocal DEF WebhookArrives
  <2>7. ASSUME NEW s, Goto(r, "unbound", [Carries(i) EXCEPT !.sid = s]) PROVE Told(r)
    BY <2>5, <2>7, CarryTold
  <2>8. ASSUME NEW s \in found, Goto(r, "apply", [Carries(i) EXCEPT !.sid = s]) PROVE Told(r)
    <3> DEFINE local == [Carries(i) EXCEPT !.sid = s]
    <3>1. /\ local.source = "webhook" /\ local.applicant \in Applicant
          /\ sessions'[local.sid].applicant = local.applicant
      BY <2>1, <2>2, <2>3, <2>5
    <3>2. Goto(r, "apply", local)
      BY <2>8
    <3> HIDE DEF local
    <3> QED BY <3>1, <3>2, CarryTold
  <2> QED BY <2>4, <2>6, <2>7, <2>8
<1>2. ASSUME NEW i \in 1 .. Len(journal), WebhookIgnored(r, i) PROVE Told(r)
  <2>1. i \in 0 .. MaxNotices
    BY ServiceAssumption DEF IInv, TypeOK, JournalBounded
  <2>2. [Blank EXCEPT !.basis = i, !.source = "webhook"] \in Local
    BY <2>1, BlankIsLocal DEF Local
  <2> QED BY <1>s, <1>2, <2>2, AsideTold DEF WebhookIgnored
<1>3. CASE WebhookReadsUnbound(r)
  <2>1. /\ pc[r] = "unbound" /\ loc[r].source = "webhook" /\ loc[r] \in Local
        /\ sessions' = sessions
    BY <1>3 DEF WebhookReadsUnbound, Tells, Saw, IInv, TypeOK, table
  <2>2. /\ loc[r].applicant \in Applicant
        /\ loc[r].sid # 0 => sessions[loc[r].sid].applicant = loc[r].applicant
    <3>1. /\ loc[r].sid # 0 => sessions[loc[r].sid].applicant = loc[r].applicant
          /\ loc[r].basis \in 1 .. Len(journal)
          /\ loc[r].applicant = journal[loc[r].basis].applicant
      BY <2>1 DEF IInv, InFlight, CarriesNotice
    <3>2. journal[loc[r].basis] \in Notice
      BY <3>1 DEF IInv, TypeOK
    <3> QED BY <3>1, <3>2 DEF Notice
  <2>3. ASSUME NEW s
        PROVE  LET local == [loc[r] EXCEPT !.sid = s, !.bind = TRUE] IN
               /\ local.source = "webhook" /\ local.applicant = loc[r].applicant /\ local.bind
    BY <2>1 DEF Local
  <2>4. ASSUME NEW s, Goto(r, "apply", [loc[r] EXCEPT !.sid = s, !.bind = TRUE]) PROVE Told(r)
    BY <2>2, <2>3, <2>4, CarryTold
  <2>5. CASE loc[r].sid # 0 /\ Goto(r, "apply", loc[r])
    BY <2>1, <2>2, <2>5, CarryTold
  <2>6. CASE SetsAside(r, loc[r], "unknown_session")
    BY <1>s, <2>1, <2>6, AsideTold
  <2> QED BY <1>3, <2>4, <2>5, <2>6 DEF WebhookReadsUnbound
<1> QED BY <1>1, <1>2, <1>3 DEF Webhook

\* The steps of a request under way
LEMMA CallTold ==
  ASSUME IInv, NEW r \in Request, Tells(r),
         \/ StartMints(r) \/ StartMintFails(r) \/ StartAuditsFailure(r) \/ StartBinds(r)
         \/ RefreshMints(r) \/ RefreshAudits(r) \/ PageMints(r) \/ Fails(r)
  PROVE  Told(r)
<1>s. {"started", "PROVIDER_UNAVAILABLE", "refreshed", "page", "500", "502", "lost"}
        \cap (Status \cup Written) = {}
  BY DEF Status, Written
<1>l. loc[r] \in Local
  BY DEF IInv, TypeOK
<1>1. CASE StartMints(r)
  <2>1. loc[r].source = "api"
    BY <1>1 DEF StartMints, Tells, Saw
  <2>2. ASSUME NEW a PROVE [loc[r] EXCEPT !.applicant = a].source = "api"
    BY <1>l, <2>1 DEF Local
  <2>3. Ends(r, "started") \/ \E a : Goto(r, "start_bind", [loc[r] EXCEPT !.applicant = a])
    BY <1>1 DEF StartMints
  <2> QED BY <1>s, <2>2, <2>3, EndsTold, StartTold
<1>2. CASE StartMintFails(r)
  BY <1>2, MintTold DEF StartMintFails
<1>3. CASE StartAuditsFailure(r)
  BY <1>s, <1>3, EndsTold DEF StartAuditsFailure
<1>4. CASE StartBinds(r)
  <2>1. loc[r].source = "api" /\ Finish(r, "started")
    BY <1>4 DEF StartBinds, Tells, Saw
  <2> QED BY <1>s, <2>1, FinishTold
<1>5. CASE RefreshMints(r)
  BY <1>5, MintTold DEF RefreshMints
<1>6. CASE RefreshAudits(r)
  BY <1>s, <1>6, EndsTold DEF RefreshAudits
<1>7. CASE PageMints(r)
  BY <1>s, <1>7, EndsTold DEF PageMints
<1>8. CASE Fails(r)
  <2>1. \/ \E answer \in {"500", "PROVIDER_UNAVAILABLE", "502", "lost"} : Ends(r, answer)
        \/ /\ Finish(r, loc[r].seen) /\ pc[r] \in {"apply", "effect_audit", "lookup"}
           /\ loc[r].source = "api" /\ UNCHANGED <<table, trail>>
    BY <1>8, <1>l DEF Fails, StoreFails, ProviderFails, Lost, Tells, Saw, Local
  <2>2. ASSUME Finish(r, loc[r].seen), pc[r] \in {"apply", "effect_audit", "lookup"},
               loc[r].source = "api", UNCHANGED <<table, trail>>
        PROVE  Told(r)
    <3>1. HeldIn(trail[loc[r].sid], loc[r].mark, loc[r].seen)
      BY <2>2 DEF Tells, Saw
    <3>2. loc[r].sid \in Session' /\ loc[r].seen \notin Written
      BY <1>l, <2>2, Placed, WrittenIsNoStatus DEF table, Session, Local
    <3> QED BY <2>2, <3>1, <3>2, FinishTold
  <2> QED BY <1>s, <2>1, <2>2, EndsTold
<1> QED BY <1>1, <1>2, <1>3, <1>4, <1>5, <1>6, <1>7, <1>8

\* reconcile's lookup is a read's, as is the write that follows it
LEMMA LookupTold ==
  ASSUME IInv, NEW r \in Request, Tells(r), Lookup(r)
  PROVE  Told(r)
<1>1. /\ pc[r] = "lookup" /\ loc[r] \in Local /\ loc[r].source = "api"
      /\ UNCHANGED <<table, trail>>
      /\ HeldIn(trail[loc[r].sid], loc[r].mark, loc[r].seen)
  BY DEF Lookup, Tells, Saw, IInv, TypeOK
<1>2. ASSUME NEW a, NEW bind, NEW i, Reconciles(r, a, bind, i) PROVE Told(r)
  <2> DEFINE local == [loc[r] EXCEPT !.applicant = a, !.bind = bind, !.basis = i,
                         !.status = IF i = 0 THEN "initial" ELSE journal[i].status]
  <2>1. /\ local.source = "api" /\ local.sid = loc[r].sid /\ local.mark = loc[r].mark
        /\ local.seen = loc[r].seen
    BY <1>1 DEF Local
  <2>2. pc'[r] = "apply" /\ loc'[r] = local /\ Others(r)
    BY <1>2, GotoSets DEF Reconciles, IInv
  <2> HIDE DEF local
  <2> QED BY <1>1, <2>1, <2>2 DEF Told, Tells, Saw, Says
<1>3. CASE Finish(r, loc[r].seen)
  <2>1. loc[r].sid \in Session' /\ loc[r].seen \notin Written
    BY <1>1, Placed, WrittenIsNoStatus DEF table, Session, Local
  <2> QED BY <1>1, <1>3, <2>1, FinishTold
<1>4. Finish(r, loc[r].seen) \/ \E a, bind, i : Reconciles(r, a, bind, i)
  BY DEF Lookup, LookupAnswers
<1> QED BY <1>2, <1>3, <1>4

LEMMA EffectTold ==
  ASSUME IInv, NEW r \in Request, Tells(r), Effect(r) \/ EffectAudits(r),
         IInv', Grows, Longer
  PROVE  Told(r)
<1>1. /\ pc[r] \in {"effect", "effect_audit"} /\ UNCHANGED <<table, trail>>
      /\ Finish(r, loc[r].answer) \/ Goto(r, "effect_audit", loc[r])
  BY DEF Effect, EffectAudits
<1>2. /\ loc[r].sid \in Session /\ loc[r].sid \in SessionId /\ loc[r] \in Local
      /\ loc[r].sid \in Session'
  BY <1>1, Placed DEF table, Session
<1>3. CASE Goto(r, "effect_audit", loc[r])
  <2>1. pc'[r] = "effect_audit" /\ loc'[r] = loc[r] /\ Others(r)
    BY <1>3, GotoSets DEF IInv
  <2>2. Accounted(r) => Accounted(r)'
    BY <2>1, AccountedStays
  <2> QED BY <1>1, <2>1, <2>2 DEF Told, Tells, Saw, Says
<1>4. CASE Finish(r, loc[r].answer)
  <2>1. loc[r].source = "api" \/ loc[r].source = "webhook"
    BY <1>2 DEF Local
  <2>2. CASE loc[r].source = "api"
    <3>1. /\ HeldIn(trail[loc[r].sid], loc[r].mark, loc[r].answer)
          /\ loc[r].answer \notin Written
      BY <1>1, <2>2, WrittenIsNoStatus DEF Tells, Says
    <3> QED BY <1>1, <1>2, <1>4, <2>2, <3>1, FinishTold
  <2>3. CASE loc[r].source = "webhook"
    <3>1. loc[r].answer = "updated" /\ Accounted(r)
      BY <1>1, <2>3 DEF Tells, Says
    <3>2. "updated" \notin Status
      BY DEF Status
    <3> QED BY <1>1, <1>2, <1>4, <3>1, <3>2, FinishTold DEF Accounted, table
  <2> QED BY <2>1, <2>2, <2>3
<1> QED BY <1>1, <1>3, <1>4

-----------------------------------------------------------------------------
\* The transaction of applyStatusTransition, in its three outcomes
LEMMA WriteFacts ==
  ASSUME IInv, HistInv, NEW r \in Request, Tells(r), pc[r] = "apply"
  PROVE  LET s == loc[r].sid IN
         /\ s \in Session /\ s \in SessionId /\ loc[r] \in Local
         /\ Bound(r) \in Row /\ Bound(r).status = sessions[s].status
         /\ loc[r].source = "api" =>
              loc[r].mark \in Nat /\ loc[r].mark <= Len(trail[s])
         /\ loc[r].source = "webhook" => loc[r].applicant \in Applicant
         /\ loc[r].source = "webhook" /\ ~Mismatched(r) =>
              Bound(r).applicant = loc[r].applicant
         /\ Mismatched(r) => sessions[s].applicant \notin {NoApplicant, loc[r].applicant}
<1> DEFINE s == loc[r].sid
<1>1. /\ s \in Session /\ s \in SessionId /\ loc[r] \in Local /\ sessions[s] \in Row
      /\ Bound(r) \in Row /\ Bound(r).status = sessions[s].status
  BY Placed, BoundRow
<1>2. ASSUME loc[r].source = "api" PROVE loc[r].mark \in Nat /\ loc[r].mark <= Len(trail[s])
  <2>1. loc[r].mark \in Nat /\ Len(trail[s]) \in Nat
    BY <1>1 DEF Local, IInv, TypeOK
  <2>2. HeldIn(trail[s], loc[r].mark, loc[r].seen)
    BY <1>2 DEF Tells, Saw
  <2> QED BY <2>1, <2>2 DEF HeldIn
<1>3. loc[r].source = "webhook" =>
        /\ loc[r].applicant \in Applicant
        /\ loc[r].bind \/ sessions[s].applicant = loc[r].applicant
  BY DEF Tells, Saw
<1>4. ~loc[r].bind => Bound(r) = sessions[s]
  BY DEF Bound
<1>5. Mismatched(r) => sessions[s].applicant \notin {NoApplicant, loc[r].applicant}
  BY <1>1 DEF Mismatched, Bound, BindApplicantId, Row
<1> QED BY <1>1, <1>2, <1>3, <1>4, <1>5 DEF Mismatched

LEMMA MismatchTold ==
  ASSUME IInv, HistInv, NEW r \in Request, Tells(r), WriteMismatch(r)
  PROVE  Told(r)
<1> DEFINE s == loc[r].sid
<1>1. /\ pc[r] = "apply" /\ Mismatched(r) /\ Audit(s, "applicant_mismatch")
      /\ Finish(r, Outcome(r, "rejected_unbound", Bound(r)))
      /\ UNCHANGED <<sessions, created, trail>>
  BY DEF WriteMismatch, table
<1>2. /\ s \in Session /\ s \in Session' /\ s \in SessionId /\ loc[r] \in Local
      /\ Bound(r).status = sessions[s].status
      /\ sessions[s].applicant \notin {NoApplicant, loc[r].applicant}
      /\ loc[r].source = "api" => loc[r].mark \in Nat /\ loc[r].mark <= Len(trail[s])
      /\ loc[r].source = "webhook" => loc[r].applicant \in Applicant
  BY <1>1, WriteFacts DEF Session
<1>3. audit'[s]["applicant_mismatch"] > 0
  <2>1. "applicant_mismatch" \in AuditAction
    BY DEF AuditAction
  <2>2. audit[s]["applicant_mismatch"] \in Nat
    BY <1>2, <2>1 DEF IInv, TypeOK
  <2>3. audit'[s]["applicant_mismatch"] = audit[s]["applicant_mismatch"] + 1
    BY <1>1, <1>2, <2>1 DEF IInv, TypeOK, Audit
  <2> QED BY <2>2, <2>3
<1>4. CASE loc[r].source = "api"
  <2>1. HeldIn(trail[s], loc[r].mark, sessions[s].status)
    BY <1>2, <1>4, HeldNow
  <2>2. Finish(r, sessions[s].status) /\ sessions[s].status \notin Written
    BY <1>1, <1>2, <1>4, WrittenIsNoStatus DEF Outcome, IInv, TypeOK, Row
  <2> QED BY <1>1, <1>2, <1>4, <2>1, <2>2, FinishTold
<1>5. CASE loc[r].source = "webhook"
  <2>1. Finish(r, "rejected_unbound")
    BY <1>1, <1>5 DEF Outcome
  <2>2. "rejected_unbound" \notin Status
    BY DEF Status
  <2> QED BY <1>1, <1>2, <1>3, <1>5, <2>1, <2>2, FinishTold
<1> QED BY <1>2, <1>4, <1>5 DEF Local

LEMMA KeepTold ==
  ASSUME IInv, HistInv, NEW r \in Request, Tells(r), WriteKeeps(r)
  PROVE  Told(r)
<1> DEFINE s == loc[r].sid  outcome == WriteOutcome(Bound(r), loc[r].status)
<1>1. /\ pc[r] = "apply" /\ ~Mismatched(r) /\ outcome # "updated"
      /\ sessions' = [sessions EXCEPT ![s] = Bound(r)]
      /\ outcome = "rejected_terminal" /\ loc[r].source = "webhook" => Audit(s, "terminal_status")
      /\ Finish(r, Outcome(r, outcome, Bound(r)))
      /\ UNCHANGED <<created, trail>>
  BY DEF WriteKeeps
<1>2. /\ s \in Session /\ s \in Session' /\ s \in SessionId /\ loc[r] \in Local
      /\ Bound(r).status = sessions[s].status
      /\ loc[r].source = "api" => loc[r].mark \in Nat /\ loc[r].mark <= Len(trail[s])
      /\ loc[r].source = "webhook" =>
           loc[r].applicant \in Applicant /\ Bound(r).applicant = loc[r].applicant
  BY <1>1, WriteFacts DEF Session
<1>3. sessions'[s] = Bound(r)
  BY <1>1, <1>2 DEF IInv, TypeOK
<1>4. /\ outcome \in {"unchanged", "rejected_terminal"}
      /\ outcome = "unchanged" => Bound(r).status = loc[r].status
      /\ outcome = "rejected_terminal" => Bound(r).status \in Terminal
  BY <1>1 DEF WriteOutcome
<1>5. CASE loc[r].source = "api"
  <2>1. HeldIn(trail[s], loc[r].mark, sessions[s].status)
    BY <1>2, <1>5, HeldNow
  <2>2. Finish(r, sessions[s].status) /\ sessions[s].status \notin Written
    BY <1>1, <1>2, <1>5, WrittenIsNoStatus DEF Outcome, IInv, TypeOK, Row
  <2> QED BY <1>1, <1>2, <1>5, <2>1, <2>2, FinishTold
<1>6. CASE loc[r].source = "webhook"
  <2>1. Finish(r, outcome)
    BY <1>1, <1>6 DEF Outcome
  <2>2. outcome \notin Status
    BY <1>4 DEF Status
  <2>3. HeldIn(trail[s], 0, sessions[s].status)
    <3>1. 0 \in Nat /\ 0 <= Len(trail[s])
      BY <1>2 DEF IInv, TypeOK
    <3> QED BY <1>2, <3>1, HeldNow
  <2>4. outcome = "rejected_terminal" => audit'[s]["terminal_status"] > 0
    <3>1. "terminal_status" \in AuditAction
      BY DEF AuditAction
    <3>2. audit[s]["terminal_status"] \in Nat
      BY <1>2, <3>1 DEF IInv, TypeOK
    <3>3. outcome = "rejected_terminal" =>
            audit'[s]["terminal_status"] = audit[s]["terminal_status"] + 1
      BY <1>1, <1>2, <1>6, <3>1 DEF IInv, TypeOK, Audit
    <3> QED BY <3>2, <3>3
  <2> HIDE DEF outcome
  <2> QED BY <1>1, <1>2, <1>3, <1>4, <1>6, <2>1, <2>2, <2>3, <2>4, FinishTold
<1> QED BY <1>2, <1>5, <1>6 DEF Local

LEMMA UpdateTold ==
  ASSUME IInv, HistInv, NEW r \in Request, Tells(r), WriteUpdates(r)
  PROVE  Told(r)
<1>s. PICK s : s = loc[r].sid
  OBVIOUS
<1>n. PICK n : n = Len(trail[s])
  OBVIOUS
<1>1. /\ s \in SessionId /\ s \in Session /\ s \in Session' /\ pc[r] = "apply" /\ ~Mismatched(r)
      /\ trail' = [trail EXCEPT ![s] = Append(trail[s], Entry(r))]
      /\ Entry(r).status = loc[r].status
      /\ sessions' = [sessions EXCEPT ![s] = UpdateSessionStatus(Bound(r), loc[r].status)]
      /\ UpdateSessionStatus(Bound(r), loc[r].status).status = loc[r].status
      /\ UpdateSessionStatus(Bound(r), loc[r].status).applicant = Bound(r).applicant
  BY <1>s, WriteAppends DEF WriteUpdates, Session
<1>2. PICK answer :
        /\ Goto(r, "effect", [loc[r] EXCEPT !.entry = n + 1, !.answer = answer])
        /\ loc[r].source = "api" => answer = loc[r].status
        /\ loc[r].source = "webhook" => answer = "updated"
  BY <1>s, <1>n, <1>1 DEF WriteUpdates, Outcome
<1> DEFINE local == [loc[r] EXCEPT !.entry = n + 1, !.answer = answer]
<1>3. /\ loc[r] \in Local
      /\ loc[r].source = "api" => loc[r].mark \in Nat /\ loc[r].mark <= n
      /\ loc[r].source = "webhook" =>
           loc[r].applicant \in Applicant /\ Bound(r).applicant = loc[r].applicant
  BY <1>s, <1>n, <1>1, WriteFacts
<1>4. /\ local.sid = s /\ local.source = loc[r].source /\ local.mark = loc[r].mark
      /\ local.seen = loc[r].seen /\ local.applicant = loc[r].applicant
      /\ local.status = loc[r].status /\ local.answer = answer
  BY <1>s, <1>3 DEF Local
<1>5. pc'[r] = "effect" /\ loc'[r] = local /\ Others(r)
  BY <1>2, GotoSets DEF IInv
<1> HIDE DEF local
<1>6. /\ n \in Nat /\ Len(trail'[s]) = n + 1 /\ trail'[s][n + 1].status = loc[r].status
      /\ \A j \in 1 .. n : trail'[s][j] = trail[s][j]
  <2>1. trail[s] \in Seq(TrailEntry) /\ trail'[s] = Append(trail[s], Entry(r))
    BY <1>1 DEF IInv, TypeOK
  <2> QED BY <1>1, <1>n, <2>1
<1>7. \A i \in Nat : i <= n => HeldIn(trail'[s], i, loc[r].status)
  <2>1. \A i \in Nat : i <= n => n + 1 \in i .. n + 1
    BY <1>6
  <2>2. n + 1 # 0
    BY <1>6
  <2> QED BY <1>6, <2>1, <2>2 DEF HeldIn
<1>8. sessions'[s].applicant = Bound(r).applicant
  BY <1>1 DEF IInv, TypeOK
<1>9. loc[r].source = "api" => HeldIn(trail'[s], loc[r].mark, loc[r].seen)
  <2>1. loc[r].source = "api" => HeldIn(trail[s], loc[r].mark, loc[r].seen)
    BY <1>s, <1>1 DEF Tells, Saw
  <2>2. \A i \in Nat : \A j \in i .. n : j \in i .. n + 1 /\ (j # 0 => j \in 1 .. n)
    BY <1>6
  <2> QED BY <1>3, <1>6, <1>n, <2>1, <2>2 DEF HeldIn
<1>10. Saw(r)'
  BY <1>4, <1>5, <1>9 DEF Saw
<1>11. loc[r].source = "webhook" => Accounted(r)'
  <2>1. HeldIn(trail'[s], 0, loc[r].status)
    BY <1>6, <1>7
  <2> QED BY <1>1, <1>2, <1>3, <1>4, <1>5, <1>8, <2>1 DEF Accounted
<1>12. Says(r)'
  BY <1>2, <1>3, <1>4, <1>5, <1>7, <1>11 DEF Says, Local
<1> QED BY <1>5, <1>10, <1>12 DEF Told, Tells

-----------------------------------------------------------------------------
TellInv == \A r \in Request : Tells(r)

LEMMA StepTold ==
  ASSUME IInv, HistInv, NEW r \in Request, Tells(r),
         Client(r) \/ Webhook(r) \/ Continues(r) \/ Fails(r),
         IInv', Grows, Longer
  PROVE  Told(r)
  BY ClientTold, WebhookTold, CallTold, LookupTold, EffectTold, MismatchTold, UpdateTold, KeepTold
  DEF Continues

LEMMA TellKeeps == IInv /\ HistInv /\ TellInv /\ [Next]_vars => TellInv'
<1> SUFFICES ASSUME IInv, HistInv, TellInv, [Next]_vars PROVE TellInv'
  OBVIOUS
<1>1. IInv' /\ Grows /\ Longer
  BY NextInv, LogsGrow
<1>2. ASSUME NEW r \in Request, Client(r) \/ Webhook(r) \/ Continues(r) \/ Fails(r)
      PROVE  TellInv'
  <2>1. Told(r)
    BY <1>1, <1>2, StepTold DEF TellInv
  <2> QED BY <1>1, <2>1, TellsStays DEF TellInv, Told, Others
<1>3. CASE pc' = pc /\ loc' = loc
  BY <1>1, <1>3, TellsStays DEF TellInv
<1> QED BY <1>2, <1>3 DEF Next, ProviderNotifies, vars

LEMMA TellInit == Init => TellInv
<1> SUFFICES ASSUME Init, NEW r \in Request PROVE Tells(r)
  BY DEF TellInv
<1>1. pc[r] = "idle"
  BY DEF Init
<1> QED BY <1>1 DEF Tells, Saw, Says

THEOREM TellHolds == Spec => []TellInv
  BY TellInit, TellKeeps, HistHolds, Invariant, PTL DEF Spec

\* A status a client is answered is one its session held when the request read
\* it or later (applyStatusTransition answers the row, never the provider).
THEOREM AnswersCorrect == Spec => []AnswersAreHeld
<1>1. TellInv => AnswersAreHeld
  BY DEF TellInv, Tells, Says, AnswersAreHeld, HeldSince, HeldIn, StatusAfter
<1> QED BY <1>1, TellHolds, PTL

\* A webhook acknowledged after its write is accounted for: its status was held,
\* or the refusal is in the audit log under its reason (applyStatusTransition).
THEOREM NoticesCorrect == Spec => []NoticesAreAccountedFor
<1>1. TellInv => NoticesAreAccountedFor
  <2> SUFFICES ASSUME TellInv, NEW r \in Request, pc[r] = "done", loc[r].answer \in Written
               PROVE  LET s == loc[r].sid  answer == loc[r].answer IN
                      /\ answer \in {"updated", "unchanged"} =>
                           /\ sessions[s].applicant = loc[r].applicant
                           /\ HeldSince(s, 0, loc[r].status)
                      /\ answer = "rejected_terminal" =>
                           sessions[s].status \in Terminal /\ audit[s]["terminal_status"] > 0
                      /\ answer = "rejected_unbound" =>
                           /\ sessions[s].applicant \notin {NoApplicant, loc[r].applicant}
                           /\ audit[s]["applicant_mismatch"] > 0
    BY DEF NoticesAreAccountedFor, Written
  <2>1. Accounted(r)
    BY DEF TellInv, Tells, Says
  <2>2. HeldIn(trail[loc[r].sid], 0, loc[r].status) => HeldSince(loc[r].sid, 0, loc[r].status)
    BY DEF HeldIn, HeldSince, StatusAfter
  <2> QED BY <2>1, <2>2 DEF Accounted
<1> QED BY <1>1, TellHolds, PTL

-----------------------------------------------------------------------------
(***************************************************************************)
(* Notices set aside.  What a webhook knew of its applicant's sessions and *)
(* its user's when it gave up stays true: rows are not taken back, nor are *)
(* bindings.                                                               *)
(***************************************************************************)
Aside == {"ignored_unknown_status", "unknown_session"}

TurnedAway(r) ==
  LET i == loc[r].basis IN
  /\ loc[r].answer = "ignored_unknown_status" =>
       i \in 1 .. Len(journal) /\ journal[i].status = NoStatus
  /\ loc[r].answer = "unknown_session" =>
       /\ i \in 1 .. Len(journal) /\ loc[r].stood = {} /\ 1 .. loc[r].rows \subseteq Session
       /\ \A s \in 1 .. loc[r].rows :
            sessions[s].user = journal[i].user => sessions[s].applicant # NoApplicant

AsideInv ==
  \A r \in Request :
    /\ pc[r] = "unbound" /\ loc[r].sid = 0 => loc[r].stood = {}
    /\ pc[r] = "done" => TurnedAway(r)

\* Of some ids one is the newest, and a session is preferred among any
LEMMA NewestExists ==
  ASSUME NEW ids \in SUBSET SessionId, ids # {}
  PROVE  Newest(ids) # {}
<1> DEFINE Ages == {MaxSessions - s : s \in ids}
<1>1. MaxSessions \in Nat /\ \A s \in ids : s \in Nat /\ MaxSessions - s \in Nat
  BY ServiceAssumption DEF SessionId
<1>2. Ages \subseteq Nat /\ Ages # {}
  BY <1>1
<1>3. PICK a \in Ages : \A b \in Ages : <<b, a>> \notin OpToRel(<, Nat)
  <2> HIDE DEF Ages
  <2> QED BY <1>2, NatLessThanWellFounded, WFMin
<1>4. \A b \in Ages : ~(b < a)
  BY <1>2, <1>3 DEF OpToRel
<1>5. PICK s \in ids : a = MaxSessions - s
  OBVIOUS
<1>6. \A t \in ids : t <= s
  <2>1. ASSUME NEW t \in ids PROVE t <= s
    <3>1. ~(MaxSessions - t < MaxSessions - s)
      BY <1>4, <1>5
    <3> QED BY <1>1, <3>1
  <2> QED BY <2>1
<1> QED BY <1>6 DEF Newest

LEMMA FoundIfAny ==
  ASSUME IInv, NEW a, NEW lvl, SessionByApplicant(sessions, Session, a, lvl) = {}
  PROVE  {s \in Session : sessions[s].applicant = a} = {}
<1> DEFINE mine == {s \in Session : sessions[s].applicant = a}
<1>1. Preferred(sessions, mine, lvl) \in SUBSET mine /\ mine \in SUBSET SessionId
  BY SessionIsId DEF Preferred
<1>2. mine # {} => Preferred(sessions, mine, lvl) # {}
  BY DEF Preferred
<1>3. Newest(Preferred(sessions, mine, lvl)) = {}
  BY DEF SessionByApplicant
<1> HIDE DEF mine
<1>4. Preferred(sessions, mine, lvl) = {}
  BY <1>1, <1>3, NewestExists
<1> QED BY <1>2, <1>4 DEF mine

LEMMA UnboundIfAny ==
  ASSUME IInv, NEW u, LatestUnboundForUser(sessions, Session, u) = {}
  PROVE  \A s \in Session : sessions[s].user = u => sessions[s].applicant # NoApplicant
<1> DEFINE unbound == {s \in Session : sessions[s].user = u /\ sessions[s].applicant = NoApplicant}
<1>1. unbound \in SUBSET SessionId
  BY SessionIsId
<1>2. Newest(unbound) = {}
  BY DEF LatestUnboundForUser
<1> HIDE DEF unbound
<1>3. unbound = {}
  BY <1>1, <1>2, NewestExists
<1> QED BY <1>3 DEF unbound

\* A request stands still, ends with another answer, or reads for its notice
LEMMA AsideOrNot ==
  ASSUME IInv, TellInv, Next, NEW q \in Request, pc'[q] \in {"unbound", "done"}
  PROVE  \/ pc'[q] = pc[q] /\ loc'[q] = loc[q]
         \/ pc'[q] = "done" /\ loc'[q].answer \notin Aside
         \/ \E i \in 1 .. Len(journal) : WebhookArrives(q, i) \/ WebhookIgnored(q, i)
         \/ WebhookReadsUnbound(q)
<1> DEFINE Goal == \/ pc'[q] = pc[q] /\ loc'[q] = loc[q]
                   \/ pc'[q] = "done" /\ loc'[q].answer \notin Aside
                   \/ \E i \in 1 .. Len(journal) : WebhookArrives(q, i) \/ WebhookIgnored(q, i)
                   \/ WebhookReadsUnbound(q)
<1>t. TypeOK
  BY DEF IInv
<1>1. ASSUME NEW r \in Request, NEW next, NEW local, Goto(r, next, local),
             next \notin {"unbound", "done"} \/ (next = "done" /\ local.answer \notin Aside)
      PROVE  Goal
  BY <1>t, <1>1, GotoSets DEF Others
<1>2. ASSUME NEW r \in Request, NEW answer, answer \notin Aside, Finish(r, answer) \/ Ends(r, answer)
      PROVE  Goal
  <2>1. [Blank EXCEPT !.answer = answer].answer = answer
    BY DEF Blank
  <2>2. [Blank EXCEPT !.sid = loc[r].sid, !.mark = loc[r].mark,
                      !.applicant = loc[r].applicant, !.status = loc[r].status,
                      !.source = loc[r].source, !.answer = answer].answer = answer
    BY DEF Blank
  <2> QED BY <1>1, <1>2, <2>1, <2>2 DEF Finish, Ends
<1>3. ASSUME NEW r \in Request, NEW s \in Session,
             Goto(r, "done", [Read(s) EXCEPT !.answer = sessions[s].status])
      PROVE  Goal
  <2>1. [Read(s) EXCEPT !.answer = sessions[s].status].answer = sessions[s].status
    BY DEF Read, Blank
  <2>2. sessions[s].status \notin Aside
    BY SessionIsId DEF Row, Status, Aside
  <2> QED BY <1>1, <1>3, <2>1, <2>2
<1>4. ASSUME NEW r \in Request, pc[r] \in {"lookup", "apply", "effect", "effect_audit"}
      PROVE  /\ loc[r].seen \notin Aside
             /\ pc[r] \in {"effect", "effect_audit"} => loc[r].answer \notin Aside
  <2>1. loc[r] \in Local
    BY <1>t DEF TypeOK
  <2>2. pc[r] \in {"effect", "effect_audit"} => loc[r].answer \in Status \cup {"updated"}
    BY <2>1 DEF TellInv, Tells, Says, Local
  <2> QED BY <2>1, <2>2 DEF Local, Status, Aside
<1>5. ASSUME NEW r \in Request, q # r, \E next, local : Goto(r, next, local) PROVE Goal
  BY <1>t, <1>5, GotoSets DEF Others
<1>a. {"started", "PERSISTENCE_FAILED", "PROVIDER_UNAVAILABLE", "SESSION_NOT_FOUND",
       "VALIDATION_ERROR", "refreshed", "page", "404", "500", "502", "lost",
       "updated", "unchanged", "rejected_terminal", "rejected_unbound"} \cap Aside = {}
  BY DEF Aside
<1>b. Status \cap Aside = {}
  BY DEF Aside, Status
<1> HIDE DEF Goal
<1>6. ASSUME NEW r \in Request, Client(r) PROVE Goal
  <2>1. CASE StartFailsToPersist(r)
    BY <1>2, <1>a, <2>1 DEF StartFailsToPersist
  <2>2. ASSUME NEW u \in User, NEW lvl \in Level \cup {NoLevel}, StartPersists(r, u, lvl)
        PROVE  Goal
    BY <1>1, <2>2 DEF StartPersists
  <2>3. ASSUME NEW u \in User, NEW s \in Session, RefreshReads(r, u, s) \/ StatusReads(r, u, s)
        PROVE  Goal
    BY <1>1, <1>2, <1>3, <1>a, <2>3 DEF RefreshReads, StatusReads
  <2>4. ASSUME NEW u \in User, NEW reconcile \in BOOLEAN, LatestReads(r, u, reconcile)
        PROVE  Goal
    <3>1. \E s \in Session :
            \/ Goto(r, "lookup", Read(s))
            \/ Goto(r, "done", [Read(s) EXCEPT !.answer = sessions[s].status])
      BY <2>4 DEF LatestReads, LatestForUser, Newest
    <3> QED BY <1>1, <1>3, <3>1
  <2>5. ASSUME NEW s \in Session, PageReads(r, s) PROVE Goal
    BY <1>1, <1>2, <1>a, <2>5 DEF PageReads
  <2> QED BY <1>6, <2>1, <2>2, <2>3, <2>4, <2>5 DEF Client
<1>7. ASSUME NEW r \in Request, Webhook(r) \/ WebhookReadsUnbound(r) PROVE Goal
  <2>1. \E next, local : Goto(r, next, local)
    BY <1>7 DEF Webhook, WebhookArrives, WebhookIgnored, WebhookReadsUnbound, SetsAside
  <2> QED BY <1>5, <1>7, <2>1 DEF Goal, Webhook
<1>8. ASSUME NEW r \in Request, Continues(r), ~WebhookReadsUnbound(r) PROVE Goal
  <2>1. CASE StartMints(r) \/ StartMintFails(r) \/ StartAuditsFailure(r) \/ StartBinds(r)
    BY <1>1, <1>2, <1>a, <2>1 DEF StartMints, StartMintFails, StartAuditsFailure, StartBinds
  <2>2. CASE RefreshMints(r) \/ RefreshAudits(r) \/ PageMints(r)
    BY <1>1, <1>2, <1>a, <2>2 DEF RefreshMints, RefreshAudits, PageMints
  <2>3. CASE Lookup(r)
    BY <1>1, <1>2, <1>4, <2>3 DEF Lookup, LookupAnswers, Reconciles
  <2>4. CASE WriteMismatch(r) \/ WriteKeeps(r) \/ WriteUpdates(r)
    <3>1. pc[r] = "apply"
      BY <2>4 DEF WriteMismatch, WriteKeeps, WriteUpdates
    <3>2. Bound(r).status \notin Aside
      BY <1>b, <3>1, Placed, BoundRow DEF Row
    <3>3. \A outcome \in {"updated", "unchanged", "rejected_terminal", "rejected_unbound"} :
            Outcome(r, outcome, Bound(r)) \notin Aside
      BY <1>a, <3>2 DEF Outcome
    <3>4. \A row, status : WriteOutcome(row, status) \in {"updated", "unchanged", "rejected_terminal"}
      BY DEF WriteOutcome
    <3>5. \/ \E outcome \in {"updated", "unchanged", "rejected_terminal", "rejected_unbound"} :
               Finish(r, Outcome(r, outcome, Bound(r)))
          \/ \E local : Goto(r, "effect", local)
      BY <2>4, <3>4 DEF WriteMismatch, WriteKeeps, WriteUpdates
    <3> QED BY <1>1, <1>2, <3>3, <3>5
  <2>5. CASE Effect(r) \/ EffectAudits(r)
    BY <1>1, <1>2, <1>4, <2>5 DEF Effect, EffectAudits
  <2> QED BY <1>8, <2>1, <2>2, <2>3, <2>4, <2>5 DEF Continues
<1>9. ASSUME NEW r \in Request, Fails(r) PROVE Goal
  BY <1>2, <1>4, <1>9, <1>a DEF Fails, StoreFails, ProviderFails, Lost
<1>10. ASSUME NEW n \in NoticeKinds, ProviderNotifies(n) PROVE Goal
  BY <1>10 DEF ProviderNotifies, Goal
<1>11. Goal
  BY <1>6, <1>7, <1>8, <1>9, <1>10 DEF Next, Continues
<1> QED BY <1>11 DEF Goal

\* What is true of a notice set aside stays true
LEMMA TurnedAwayStays ==
  ASSUME IInv, IInv', Grows, NEW q \in Request, TurnedAway(q), loc'[q] = loc[q]
  PROVE  TurnedAway(q)'
<1>1. /\ Len(journal) \in Nat /\ Len(journal') \in Nat /\ Session \subseteq Session'
      /\ 1 .. Len(journal) \subseteq 1 .. Len(journal')
  BY ServiceAssumption DEF IInv, TypeOK, Grows, Session
<1>2. \A i \in 1 .. Len(journal) : journal'[i] = journal[i]
  BY DEF Grows
<1>3. \A s \in Session : /\ sessions'[s].user = sessions[s].user
                         /\ sessions[s].applicant # NoApplicant => sessions'[s].applicant # NoApplicant
  BY DEF Grows
<1> QED BY <1>1, <1>2, <1>3 DEF TurnedAway

\* The reads of a webhook set it aside only when they find nothing
LEMMA AsideReads ==
  ASSUME IInv, AsideInv, NEW q \in Request,
         \/ \E i \in 1 .. Len(journal) : WebhookArrives(q, i) \/ WebhookIgnored(q, i)
         \/ WebhookReadsUnbound(q)
  PROVE  /\ pc'[q] = "unbound" /\ loc'[q].sid = 0 => loc'[q].stood = {}
         /\ pc'[q] = "done" => TurnedAway(q)'
<1>t. TypeOK
  BY DEF IInv
<1>1. ASSUME NEW local \in Local, NEW answer, SetsAside(q, local, answer)
      PROVE  /\ pc'[q] = "done" /\ loc'[q].answer = answer
             /\ loc'[q].basis = local.basis /\ loc'[q].stood = local.stood
             /\ loc'[q].rows = created
  <2>1. pc'[q] = "done" /\ loc'[q] = [local EXCEPT !.rows = created, !.answer = answer]
    BY <1>t, <1>1, GotoSets DEF SetsAside
  <2> QED BY <2>1 DEF Local
<1>2. ASSUME NEW i \in 1 .. Len(journal), WebhookArrives(q, i)
      PROVE  /\ pc'[q] = "unbound" /\ loc'[q].sid = 0 => loc'[q].stood = {}
             /\ pc'[q] = "done" => TurnedAway(q)'
  <2> DEFINE a == journal[i].applicant
             found == SessionByApplicant(sessions, Session, a, journal[i].level)
  <2>1. Carries(i) \in Local /\ Carries(i).basis = i
        /\ Carries(i).stood = {s \in Session : sessions[s].applicant = a}
    BY <1>2, CarriesIsLocal DEF WebhookArrives, Carries, Blank
  <2>2. \A s \in found : s # 0
    BY SessionIsId DEF SessionByApplicant, Newest, Preferred
  <2>3. found = {} => Carries(i).stood = {}
    BY <2>1, FoundIfAny
  <2>4. UNCHANGED <<sessions, created, journal>>
    BY <1>2 DEF WebhookArrives, table, provider
  <2> HIDE DEF found
  <2>5. \E s \in {0} \cup found :
          /\ s = 0 => found = {}
          /\ \/ Goto(q, "unbound", [Carries(i) EXCEPT !.sid = s])
             \/ /\ s = 0 /\ journal[i].user = NoUser
                /\ SetsAside(q, Carries(i), "unknown_session")
             \/ Goto(q, "apply", [Carries(i) EXCEPT !.sid = s])
    BY <1>2, <2>2 DEF WebhookArrives, found
  <2>6. ASSUME NEW s \in {0} \cup found, s = 0 => found = {},
               Goto(q, "unbound", [Carries(i) EXCEPT !.sid = s])
        PROVE  pc'[q] = "unbound" /\ (loc'[q].sid = 0 => loc'[q].stood = {})
    <3>1. pc'[q] = "unbound" /\ loc'[q] = [Carries(i) EXCEPT !.sid = s]
      BY <1>t, <2>6, GotoSets
    <3>2. loc'[q].sid = s /\ loc'[q].stood = Carries(i).stood
      BY <2>1, <3>1 DEF Local
    <3> QED BY <2>3, <2>6, <3>1, <3>2
  <2>7. ASSUME found = {}, journal[i].user = NoUser, SetsAside(q, Carries(i), "unknown_session")
        PROVE  pc'[q] = "done" /\ TurnedAway(q)'
    <3>1. /\ pc'[q] = "done" /\ loc'[q].answer = "unknown_session" /\ loc'[q].basis = i
          /\ loc'[q].stood = {} /\ loc'[q].rows = created
      BY <1>1, <2>1, <2>3, <2>7
    <3>2. \A s \in Session : sessions[s].user # journal[i].user
      BY <2>7, SessionIsId, ServiceAssumption DEF Row
    <3> QED BY <2>4, <3>1, <3>2 DEF TurnedAway, Session
  <2>8. ASSUME NEW s, Goto(q, "apply", [Carries(i) EXCEPT !.sid = s]) PROVE pc'[q] = "apply"
    BY <1>t, <2>8, GotoSets
  <2> QED BY <2>5, <2>6, <2>7, <2>8
<1>3. ASSUME NEW i \in 1 .. Len(journal), WebhookIgnored(q, i)
      PROVE  pc'[q] = "done" /\ TurnedAway(q)'
  <2> DEFINE local == [Blank EXCEPT !.basis = i, !.source = "webhook"]
  <2>1. i \in 0 .. MaxNotices
    BY ServiceAssumption DEF IInv, TypeOK, JournalBounded
  <2>2. local \in Local /\ local.basis = i
    BY <2>1, BlankIsLocal DEF Local
  <2>3. /\ SetsAside(q, local, "ignored_unknown_status") /\ journal[i].status = NoStatus
        /\ journal' = journal
    BY <1>3 DEF WebhookIgnored, Actionable, provider
  <2> HIDE DEF local
  <2> QED BY <1>1, <2>2, <2>3 DEF TurnedAway
<1>4. CASE WebhookReadsUnbound(q)
  <2>1. /\ pc[q] = "unbound" /\ loc[q] \in Local /\ loc[q].basis \in 1 .. Len(journal)
        /\ UNCHANGED <<sessions, created, journal>>
    BY <1>4, <1>t DEF WebhookReadsUnbound, TypeOK, IInv, InFlight, CarriesNotice, table, provider
  <2>2. CASE \E local : Goto(q, "apply", local)
    BY <1>t, <2>2, GotoSets
  <2>3. CASE /\ LatestUnboundForUser(sessions, Session, journal[loc[q].basis].user) = {}
             /\ loc[q].sid = 0 /\ SetsAside(q, loc[q], "unknown_session")
    <3>1. /\ pc'[q] = "done" /\ loc'[q].answer = "unknown_session"
          /\ loc'[q].basis = loc[q].basis /\ loc'[q].stood = {} /\ loc'[q].rows = created
      BY <1>1, <2>1, <2>3 DEF AsideInv
    <3>2. \A s \in Session : sessions[s].user = journal[loc[q].basis].user =>
            sessions[s].applicant # NoApplicant
      BY <2>3, UnboundIfAny
    <3> QED BY <2>1, <3>1, <3>2 DEF TurnedAway, Session
  <2> QED BY <1>4, <2>2, <2>3 DEF WebhookReadsUnbound
<1> QED BY <1>2, <1>3, <1>4

LEMMA AsideKeeps == IInv /\ TellInv /\ AsideInv /\ [Next]_vars => AsideInv'
<1> SUFFICES ASSUME IInv, TellInv, AsideInv, [Next]_vars, NEW q \in Request,
                    pc'[q] \in {"unbound", "done"}
             PROVE  /\ pc'[q] = "unbound" /\ loc'[q].sid = 0 => loc'[q].stood = {}
                    /\ pc'[q] = "done" => TurnedAway(q)'
  BY DEF AsideInv
<1>1. IInv' /\ Grows
  BY NextInv
<1>2. CASE pc'[q] = pc[q] /\ loc'[q] = loc[q]
  BY <1>1, <1>2, TurnedAwayStays DEF AsideInv
<1>3. CASE pc'[q] = "done" /\ loc'[q].answer \notin Aside
  BY <1>3 DEF TurnedAway, Aside
<1> QED BY <1>2, <1>3, AsideOrNot, AsideReads DEF vars

LEMMA AsideInit == Init => AsideInv
  BY DEF Init, AsideInv

\* A notice acknowledged without a trace had no session to go to: it named no
\* status, or its applicant had no session when it came in and the user it names
\* no unbound one at its second read (handleWebhookEvent).
THEOREM SetAsideCorrect == Spec => []SetAsideHadNoSession
<1>1. AsideInv => SetAsideHadNoSession
  BY DEF AsideInv, TurnedAway, SetAsideHadNoSession
<1> QED BY <1>1, AsideInit, AsideKeeps, TellHolds, Invariant, PTL DEF Spec

-----------------------------------------------------------------------------
(***************************************************************************)
(* What refresh and hostedPage ask a token for.  Bindings stay and trails  *)
(* only grow, so what they read of the row stays true of its past.         *)
(***************************************************************************)
Mints(r) ==
  LET s == loc[r].sid  a == loc[r].applicant IN
  /\ s \in Session
  /\ a # NoApplicant => sessions[s].applicant = a /\ Owner[a] = sessions[s].user
  /\ loc[r].mark \in 0 .. Len(trail[s])
  /\ StatusAfter(s, loc[r].mark) \notin Terminal

MintInv == \A r \in Request : pc[r] \in Minting => Mints(r)

\* A request is at such an await because it was, or because it has read a live row
LEMMA MintOrReads ==
  ASSUME IInv, Next, NEW q \in Request, pc'[q] \in Minting
  PROVE  \/ pc[q] \in Minting /\ loc'[q] = loc[q]
         \/ \E s \in Session : /\ loc'[q] = Read(s) /\ sessions[s].status \notin Terminal
                               /\ UNCHANGED <<table, trail>>
<1> DEFINE Goal == \/ pc[q] \in Minting /\ loc'[q] = loc[q]
                   \/ \E s \in Session : /\ loc'[q] = Read(s) /\ sessions[s].status \notin Terminal
                                         /\ UNCHANGED <<table, trail>>
<1>t. TypeOK
  BY DEF IInv
<1>1. ASSUME NEW r \in Request, NEW next, NEW local, next \notin Minting, Goto(r, next, local)
      PROVE  Goal
  BY <1>t, <1>1, GotoSets DEF Others
<1>2. ASSUME NEW r \in Request, NEW local, NEW answer,
             Finish(r, answer) \/ Ends(r, answer) \/ SetsAside(r, local, answer)
      PROVE  Goal
  BY <1>1, <1>2 DEF Finish, Ends, SetsAside, Minting
<1>3. ASSUME NEW r \in Request, NEW s \in Session, NEW next, Goto(r, next, Read(s)),
             sessions[s].status \notin Terminal, UNCHANGED <<table, trail>>
      PROVE  Goal
  BY <1>t, <1>3, GotoSets DEF Others
<1>n. \A next \in {"start_mint", "creation_failed", "start_bind", "lookup", "unbound", "apply",
                   "effect", "effect_audit", "done"} : next \notin Minting
  BY DEF Minting
<1> HIDE DEF Goal
<1>4. ASSUME NEW r \in Request, Client(r) PROVE Goal
  <2>1. CASE StartFailsToPersist(r)
    BY <1>2, <2>1 DEF StartFailsToPersist
  <2>2. ASSUME NEW u \in User, NEW lvl \in Level \cup {NoLevel}, StartPersists(r, u, lvl)
        PROVE  Goal
    BY <1>1, <2>2 DEF StartPersists, Minting
  <2>3. ASSUME NEW u \in User, NEW s \in Session, RefreshReads(r, u, s) PROVE Goal
    BY <1>2, <1>3, <2>3 DEF RefreshReads
  <2>4. ASSUME NEW u \in User, NEW s \in Session, StatusReads(r, u, s) PROVE Goal
    BY <1>1, <1>2, <2>4 DEF StatusReads, Minting
  <2>5. ASSUME NEW u \in User, NEW reconcile \in BOOLEAN, LatestReads(r, u, reconcile)
        PROVE  Goal
    BY <1>1, <2>5 DEF LatestReads, Minting
  <2>6. ASSUME NEW s \in Session, PageReads(r, s) PROVE Goal
    BY <1>2, <1>3, <2>6 DEF PageReads
  <2> QED BY <1>4, <2>1, <2>2, <2>3, <2>4, <2>5, <2>6 DEF Client
<1>5. ASSUME NEW r \in Request, Webhook(r) PROVE Goal
  BY <1>1, <1>2, <1>5, <1>n DEF Webhook, WebhookArrives, WebhookIgnored
<1>6. ASSUME NEW r \in Request, Continues(r) PROVE Goal
  <2>1. CASE StartMints(r) \/ StartMintFails(r) \/ StartAuditsFailure(r) \/ StartBinds(r)
    BY <1>1, <1>2, <2>1, <1>n DEF StartMints, StartMintFails, StartAuditsFailure, StartBinds
  <2>2. CASE RefreshMints(r)
    <3>1. /\ pc[r] \in Minting /\ loc'[r] = loc[r] /\ Others(r)
      BY <1>t, <2>2, GotoSets DEF RefreshMints, Minting
    <3>2. q # r => pc'[q] = pc[q] /\ loc'[q] = loc[q]
      BY <3>1 DEF Others
    <3> QED BY <3>1, <3>2 DEF Goal
  <2>3. CASE RefreshAudits(r) \/ PageMints(r)
    BY <1>2, <2>3 DEF RefreshAudits, PageMints
  <2>4. CASE Lookup(r)
    <3>1. ASSUME NEW a, NEW bind, LookupAnswers(r, a, bind) PROVE Goal
      BY <1>1, <1>n, <3>1 DEF LookupAnswers, Reconciles
    <3>2. ASSUME NEW a, NEW bind, NEW i, Reconciles(r, a, bind, i) PROVE Goal
      BY <1>1, <1>n, <3>2 DEF Reconciles
    <3> QED BY <1>2, <2>4, <3>1, <3>2 DEF Lookup
  <2>7. CASE WebhookReadsUnbound(r)
    BY <1>1, <1>2, <2>7, <1>n DEF WebhookReadsUnbound
  <2>5. CASE WriteMismatch(r) \/ WriteKeeps(r) \/ EffectAudits(r)
    BY <1>2, <2>5 DEF WriteMismatch, WriteKeeps, EffectAudits
  <2>6. CASE WriteUpdates(r) \/ Effect(r)
    BY <1>1, <1>2, <1>n, <2>6 DEF WriteUpdates, Effect
  <2> QED BY <1>6, <2>1, <2>2, <2>3, <2>4, <2>5, <2>6, <2>7 DEF Continues
<1>7. ASSUME NEW r \in Request, Fails(r) PROVE Goal
  BY <1>2, <1>7 DEF Fails, StoreFails, ProviderFails, Lost
<1>8. ASSUME NEW n \in NoticeKinds, ProviderNotifies(n) PROVE Goal
  BY <1>8 DEF ProviderNotifies, Goal
<1>9. Goal
  BY <1>4, <1>5, <1>6, <1>7, <1>8 DEF Next
<1> QED BY <1>9 DEF Goal

\* What was read of a row was true of it then
LEMMA MintReads ==
  ASSUME IInv, HistInv, NEW q \in Request, NEW s \in Session, loc'[q] = Read(s),
         sessions[s].status \notin Terminal, UNCHANGED <<table, trail>>
  PROVE  Mints(q)'
<1>1. Read(s).sid = s /\ Read(s).mark = Len(trail[s]) /\ Read(s).applicant = sessions[s].applicant
  BY DEF Read, Blank
<1>2. Len(trail[s]) \in 0 .. Len(trail[s])
  BY SessionIsId DEF IInv, TypeOK
<1>3. StatusAfter(s, Len(trail[s])) = sessions[s].status
  BY DEF HistInv, TrailIsHistory
<1>4. sessions[s].applicant # NoApplicant => Owner[sessions[s].applicant] = sessions[s].user
  BY DEF IInv, ApplicantIsOwners
<1>5. /\ sessions' = sessions /\ trail' = trail /\ Session' = Session
      /\ \A i : StatusAfter(s, i)' = StatusAfter(s, i)
  BY DEF table, Session, StatusAfter
<1> QED BY <1>1, <1>2, <1>3, <1>4, <1>5 DEF Mints, StatusAfter

\* ... and stays true of its past
LEMMA MintStays ==
  ASSUME IInv, IInv', Grows, Longer, NEW q \in Request, Mints(q), loc'[q] = loc[q]
  PROVE  Mints(q)'
<1>s. PICK s : s = loc[q].sid
  OBVIOUS
<1>m. PICK m : m = loc[q].mark
  OBVIOUS
<1>1. s \in Session /\ s \in Session' /\ s \in SessionId
  <2>1. created \in Nat /\ created' \in Nat /\ Session \subseteq Session'
    BY ServiceAssumption DEF IInv, TypeOK, Grows, Session
  <2> QED BY <1>s, <2>1, SessionIsId DEF Mints
<1>2. /\ sessions'[s].user = sessions[s].user
      /\ sessions[s].applicant # NoApplicant => sessions'[s].applicant = sessions[s].applicant
  BY <1>1 DEF Grows
<1>3. /\ Len(trail[s]) \in Nat /\ Len(trail'[s]) \in Nat /\ Len(trail[s]) <= Len(trail'[s])
      /\ \A i \in 1 .. Len(trail[s]) : trail'[s][i] = trail[s][i]
  <2>1. Len(trail[s]) \in Nat /\ Len(trail'[s]) \in Nat
    BY <1>1 DEF IInv, TypeOK
  <2> QED BY <1>1, <2>1 DEF Longer
<1>4. m \in 0 .. Len(trail[s]) /\ m \in 0 .. Len(trail'[s])
  BY <1>s, <1>m, <1>3 DEF Mints
<1>5. StatusAfter(s, m)' = StatusAfter(s, m)
  <2>1. m # 0 => m \in 1 .. Len(trail[s])
    BY <1>3, <1>4
  <2> QED BY <1>3, <2>1 DEF StatusAfter
<1>6. /\ loc[q].applicant # NoApplicant =>
           sessions[s].applicant = loc[q].applicant /\ Owner[loc[q].applicant] = sessions[s].user
      /\ StatusAfter(s, m) \notin Terminal
  BY <1>s, <1>m DEF Mints
<1> HIDE DEF StatusAfter
<1> QED BY <1>s, <1>m, <1>1, <1>2, <1>4, <1>5, <1>6 DEF Mints

LEMMA MintKeeps == IInv /\ HistInv /\ MintInv /\ [Next]_vars => MintInv'
<1> SUFFICES ASSUME IInv, HistInv, MintInv, [Next]_vars, NEW q \in Request, pc'[q] \in Minting
             PROVE  Mints(q)'
  BY DEF MintInv
<1>1. IInv' /\ Grows /\ Longer
  BY NextInv, LogsGrow
<1>2. ASSUME pc[q] \in Minting, loc'[q] = loc[q] PROVE Mints(q)'
  BY <1>1, <1>2, MintStays DEF MintInv
<1> QED BY <1>2, MintOrReads, MintReads DEF vars

LEMMA MintInit == Init => MintInv
  BY DEF Init, MintInv, Minting

\* refresh and hostedPage ask for a token on what they read: the applicant is
\* still the session's, its owner still the caller's, and the session was live
\* then, so that a verdict there now was committed while they waited.
THEOREM MintsCorrect == Spec => []MintsAreOwn
<1>1. MintInv => MintsAreOwn
  BY DEF MintInv, Mints, MintsAreOwn
<1> QED BY <1>1, MintInit, MintKeeps, HistHolds, Invariant, PTL DEF Spec

=============================================================================
