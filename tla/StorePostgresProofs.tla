-------------------------- MODULE StorePostgresProofs --------------------------
(***************************************************************************)
(* The row lock makes the statements of a transaction one step, for any    *)
(* number of transactions, sessions and applicants.                        *)
(***************************************************************************)
EXTENDS StorePostgres, TLAPS

S(t) == call[t].session
Held(t) == locker[S(t)] = t
Other(t) == Mismatch(rows[S(t)], call[t])
Bound(t) == BoundRow(rows[S(t)], call[t])

\* The transaction holds the row's lock, and the row may be its applicant's
Owns(t) == Held(t) /\ S(t) \in exists /\ ~Other(t)

\* The statuses a row holds or held
Past(s) == {rows[s].status} \cup {trail[s][i].previousStatus : i \in 1 .. Len(trail[s])}

\* A lock belongs to a transaction on that row, between its first write and its end
LocksAreOwned ==
  \A s \in SessionId, t \in Txn :
    locker[s] = t => S(t) = s /\ pc[t] \in {"lock", "write", "audit", "commit"}

\* What a decided transaction will commit, by its outcome
Created(t) ==
  /\ call[t].kind = "create" /\ Held(t) /\ S(t) \notin exists
  /\ entry[t].outcome = "created"
  /\ \E u \in User, lvl \in Level \cup {NoLevel} : view[t] = NewRow(u, lvl)

BoundIt(t) ==
  /\ call[t].kind = "bind" /\ entry[t].outcome = "bound"
  /\ \/ Owns(t) /\ view[t] = Bound(t) /\ entry[t].previousStatus = rows[S(t)].status
     \/ ~Held(t) /\ S(t) \in exists /\ Other(t)

Wrote(t) ==
  /\ call[t].kind = "status" /\ Owns(t)
  /\ entry[t].previousStatus = rows[S(t)].status
  /\ entry[t].outcome = WriteOutcome(Bound(t), call[t].status)
  /\ view[t] = UpdateSessionStatus(Bound(t), call[t].status)

Refused(t) ==
  /\ call[t].kind = "status" /\ ~Held(t) /\ S(t) \in exists /\ Other(t)
  /\ entry[t].outcome = "rejected_unbound"
  /\ entry[t].previousStatus \in Past(S(t))

Decided(t) == Created(t) \/ BoundIt(t) \/ Wrote(t) \/ Refused(t)

\* What a transaction knows, by the statement it is about to send
Knows(t) ==
  /\ pc[t] # "done" => answer[t] = ""
  /\ pc[t] \notin {"audit", "commit", "done"} => entry[t] = Undecided
  /\ pc[t] = "insert" => call[t].kind = "create"
  /\ pc[t] = "bind" => call[t].kind # "create" /\ call[t].applicant # NoApplicant
  /\ pc[t] = "requery" => call[t].kind # "create" /\ S(t) \in exists /\ Other(t)
  /\ pc[t] = "lock" => /\ call[t].kind = "status"
                       /\ \/ call[t].applicant = NoApplicant /\ ~Held(t)
                          \/ Owns(t) /\ view[t] = Bound(t)
  /\ pc[t] = "write" => call[t].kind = "status" /\ Owns(t) /\ view[t] = Bound(t)
  /\ pc[t] \in {"audit", "commit"} => Decided(t)

\* ChainIsUnbroken, of one session
Chained(s) ==
  /\ \A i \in 1 .. Len(trail[s]) : trail[s][i].previousStatus = Left(s, i - 1)
  /\ rows[s].status = Left(s, Len(trail[s]))

Fresh == \A s \in SessionId \ exists : trail[s] = <<>>

Inv == TypeOK /\ LocksAreOwned /\ (\A t \in Txn : Knows(t)) /\ ChainIsUnbroken /\ Fresh

-----------------------------------------------------------------------------
(* Facts of rows and calls *)

LEMMA CallFacts ==
  ASSUME TypeOK, NEW t \in Txn
  PROVE  /\ call[t] \in Calls /\ S(t) \in SessionId
         /\ call[t].applicant \in Applicant \cup {NoApplicant}
         /\ call[t].status \in Status /\ call[t].kind \in {"create", "bind", "status"}
         /\ call[t].source \in {"api", "webhook"}
  BY CallAssumption DEF TypeOK, Call, S

\* A binding changes the applicant only, and only of a row that has none
LEMMA BoundRowFacts ==
  ASSUME NEW row \in Row, NEW c \in Call
  PROVE  /\ BoundRow(row, c) \in Row
         /\ BoundRow(row, c).status = row.status
         /\ row.applicant # NoApplicant => BoundRow(row, c).applicant = row.applicant
         /\ Mismatch(row, c) => BoundRow(row, c) = row
         /\ ~Mismatch(row, c) => ~Mismatch(BoundRow(row, c), c)
         /\ c.applicant # NoApplicant /\ row.applicant \in {NoApplicant, c.applicant} =>
              BindApplicantId(row, c.applicant) = BoundRow(row, c)
<1>1. CASE c.applicant # NoApplicant /\ row.applicant \in {NoApplicant, c.applicant}
  <2>1. BoundRow(row, c) = [row EXCEPT !.applicant = c.applicant]
    BY <1>1 DEF BoundRow, BindApplicantId
  <2>2. c.applicant \in Applicant
    BY <1>1 DEF Call
  <2> QED
    BY <1>1, <2>1, <2>2 DEF Row, Mismatch, BoundRow
<1>2. CASE ~(c.applicant # NoApplicant /\ row.applicant \in {NoApplicant, c.applicant})
  BY <1>2 DEF BoundRow, BindApplicantId, Mismatch
<1> QED
  BY <1>1, <1>2

\* A status write changes the status only
LEMMA WriteFacts ==
  ASSUME NEW row \in Row, NEW status \in Status
  PROVE  /\ UpdateSessionStatus(row, status) \in Row
         /\ UpdateSessionStatus(row, status).applicant = row.applicant
         /\ WriteOutcome(row, status) \in {"updated", "unchanged", "rejected_terminal"}
         /\ WriteOutcome(row, status) = "updated" =>
              UpdateSessionStatus(row, status) = [row EXCEPT !.status = status]
         /\ WriteOutcome(row, status) # "updated" => UpdateSessionStatus(row, status) = row
  BY DEF UpdateSessionStatus, WriteOutcome, Row

LEMMA NewRowIsRow ==
  ASSUME NEW u \in User, NEW lvl \in Level \cup {NoLevel}
  PROVE  /\ NewRow(u, lvl) \in Row /\ NewRow(u, lvl).status = "initial"
         /\ NewRow(u, lvl).applicant = NoApplicant
  BY DEF NewRow, Row, Status

-----------------------------------------------------------------------------
(* What one transaction does, the others do not notice *)

\* The others keep what is theirs
OthersKeep(u) ==
  \A t \in Txn \ {u} :
    /\ pc'[t] = pc[t] /\ call'[t] = call[t] /\ view'[t] = view[t]
    /\ entry'[t] = entry[t] /\ answer'[t] = answer[t]
    /\ \A s \in SessionId : locker'[s] = t <=> locker[s] = t

\* The tables only move forward, and only u's own rows move
Forward(u) ==
  /\ exists \subseteq exists'
  /\ \A s \in SessionId \ exists' : trail'[s] = trail[s]
  /\ \A s \in SessionId :
       locker[s] # u => rows'[s] = rows[s] /\ trail'[s] = trail[s] /\ (s \in exists' => s \in exists)
  /\ \A s \in exists :
       /\ rows[s].applicant # NoApplicant => rows'[s].applicant = rows[s].applicant
       /\ Past(s) \subseteq Past(s)'

LEMMA StillForward ==
  ASSUME NEW u, UNCHANGED tables
  PROVE  Forward(u)
  BY DEF Forward, tables, Past

LEMMA OthersStillKnow ==
  ASSUME Inv, NEW u \in Txn, OthersKeep(u), Forward(u), NEW t \in Txn \ {u}
  PROVE  Knows(t)' /\ \A s \in SessionId :
           locker'[s] = t => S(t)' = s /\ pc'[t] \in {"lock", "write", "audit", "commit"}
<1>1. /\ pc'[t] = pc[t] /\ call'[t] = call[t] /\ view'[t] = view[t]
      /\ entry'[t] = entry[t] /\ answer'[t] = answer[t]
      /\ \A s \in SessionId : locker'[s] = t <=> locker[s] = t
  BY DEF OthersKeep
<1>2. S(t) \in SessionId /\ S(t)' = S(t) /\ Held(t)' = Held(t) /\ call[t] \in Call
  BY <1>1, CallFacts, CallAssumption DEF Inv, S, Held
<1>3. Held(t) => /\ rows'[S(t)] = rows[S(t)] /\ (S(t) \in exists' <=> S(t) \in exists)
                 /\ Other(t)' = Other(t) /\ Bound(t)' = Bound(t)
  BY <1>1, <1>2 DEF Held, Forward, Other, Bound
<1>4. S(t) \in exists /\ Other(t) => S(t) \in exists' /\ Other(t)'
  BY <1>1, <1>2 DEF Forward, Other, Mismatch
<1>5. \A s \in exists : Past(s) \subseteq Past(s)'
  BY DEF Forward
<1>6. Knows(t)
  BY DEF Inv
<1>7. Owns(t) => Owns(t)' /\ Bound(t)' = Bound(t) /\ rows'[S(t)] = rows[S(t)]
  BY <1>2, <1>3 DEF Owns
<1>8. Decided(t) => Decided(t)'
  <2>1. Created(t) => Created(t)'
    BY <1>1, <1>2, <1>3 DEF Created
  <2>2. BoundIt(t) => BoundIt(t)'
    BY <1>1, <1>2, <1>4, <1>7 DEF BoundIt
  <2>3. Wrote(t) => Wrote(t)'
    BY <1>1, <1>2, <1>7 DEF Wrote
  <2>4. Refused(t) => Refused(t)'
    <3> SUFFICES ASSUME Refused(t), NEW s \in exists, s = S(t) PROVE Refused(t)'
      BY DEF Refused
    <3>1. entry'[t].previousStatus \in Past(s)'
      BY <1>1, <1>5 DEF Refused
    <3>2. (entry[t].previousStatus \in Past(S(t)))'
      BY <3>1, <1>2 DEF Past
    <3> QED
      BY <1>1, <1>2, <1>4, <3>2 DEF Refused
  <2> QED
    BY <2>1, <2>2, <2>3, <2>4 DEF Decided
<1>9. Knows(t)'
  BY <1>1, <1>2, <1>4, <1>6, <1>7, <1>8 DEF Knows
<1> QED
  BY <1>1, <1>2, <1>9 DEF Inv, LocksAreOwned
\* So a step of u is safe when it leaves u knowing what it should
LEMMA StepIsSafe ==
  ASSUME Inv, NEW u \in Txn, TypeOK', OthersKeep(u), Forward(u), Knows(u)',
         ChainIsUnbroken', Fresh',
         \A s \in SessionId : locker'[s] = u => S(u)' = s /\ pc'[u] \in {"lock", "write", "audit", "commit"}
  PROVE  Inv'
<1>1. \A t \in Txn : Knows(t)' /\ \A s \in SessionId :
         locker'[s] = t => S(t)' = s /\ pc'[t] \in {"lock", "write", "audit", "commit"}
  <2> TAKE t \in Txn
  <2> QED
    BY OthersStillKnow
<1> QED
  BY <1>1 DEF Inv, LocksAreOwned

\* A statement before COMMIT: the tables stay, the row is locked or it is not
LEMMA StatementIsSafe ==
  ASSUME Inv, NEW u \in Txn, NEW next \in PC, NEW row \in Row, NEW e \in Decision,
         UNCHANGED <<tables, answer, call>>,
         pc' = [pc EXCEPT ![u] = next], view' = [view EXCEPT ![u] = row],
         entry' = [entry EXCEPT ![u] = e],
         \/ UNCHANGED locker
         \/ locker' = [locker EXCEPT ![S(u)] = u] /\ locker[S(u)] \in {NoTxn, u},
         next \in {"lock", "write", "audit", "commit"} \/ (~Held(u) /\ UNCHANGED locker),
         Knows(u)'
  PROVE  Inv'
<1>1. S(u) \in SessionId /\ S(u)' = S(u) /\ u # NoTxn
  BY CallFacts, PostgresAssumption DEF Inv, S
<1>2. /\ pc'[u] = next /\ view'[u] = row /\ entry'[u] = e
      /\ \A t \in Txn \ {u} : pc'[t] = pc[t] /\ view'[t] = view[t] /\ entry'[t] = entry[t]
  BY DEF Inv, TypeOK
<1>3. TypeOK'
  BY <1>1 DEF Inv, TypeOK, tables
<1>4. \A s \in SessionId, t \in Txn \ {u} : locker'[s] = t <=> locker[s] = t
  BY <1>1, PostgresAssumption DEF Inv, TypeOK
<1>5. OthersKeep(u)
  BY <1>2, <1>4 DEF OthersKeep
<1>6. ChainIsUnbroken' /\ Fresh'
  BY DEF Inv, tables, ChainIsUnbroken, Left, Fresh
<1>7. ASSUME NEW s \in SessionId, locker'[s] = u
      PROVE  S(u)' = s /\ pc'[u] \in {"lock", "write", "audit", "commit"}
  BY <1>1, <1>2, <1>7 DEF Inv, TypeOK, LocksAreOwned, Held
<1> QED
  BY <1>3, <1>5, <1>6, <1>7, StillForward, StepIsSafe

\* An end without a commit
LEMMA RollbackIsSafe ==
  ASSUME Inv, NEW u \in Txn, NEW heard \in Answer, EndsWith(u, heard), UNCHANGED tables
  PROVE  Inv'
<1>1. S(u)' = S(u) /\ pc'[u] = "done" /\ u # NoTxn
  BY PostgresAssumption DEF EndsWith, Inv, TypeOK, S
<1>2. TypeOK'
  BY DEF Inv, TypeOK, tables, EndsWith, PC
<1>3. OthersKeep(u) /\ \A s \in SessionId : locker'[s] # u
  BY <1>1, PostgresAssumption DEF EndsWith, Inv, TypeOK, OthersKeep
<1>4. ChainIsUnbroken' /\ Fresh'
  BY DEF Inv, tables, ChainIsUnbroken, Left, Fresh
<1>5. Knows(u)'
  BY <1>1 DEF Knows
<1> QED
  BY <1>2, <1>3, <1>4, <1>5, StillForward, StepIsSafe

-----------------------------------------------------------------------------
(* COMMIT is the step StoreAtomic promises *)

LEMMA CommitIsOneStep ==
  ASSUME Inv, NEW t \in Txn, Commit(t)
  PROVE  \/ call[t].kind = "create" /\ Held(t) /\ Creates(t, S(t))
         \/ call[t].kind = "bind" /\ (Held(t) \/ rows' = rows) /\ Binds(t, call[t])
         \/ call[t].kind = "status" /\ Held(t) /\ (Changes(t, call[t]) \/ Keeps(t, call[t]))
         \/ call[t].kind = "status" /\ Refuses(t, call[t])
<1>1. /\ S(t) \in SessionId /\ call[t] \in Call /\ call[t].status \in Status
      /\ rows[S(t)] \in Row /\ Knows(t) /\ Decided(t)
  BY CallFacts, CallAssumption DEF Inv, TypeOK, Commit, Knows
<1>2. Answers(t, entry[t].outcome)
  BY <1>1 DEF Commit, EndsWith, Answers, Knows
<1>3. rows' = IF Held(t) THEN [rows EXCEPT ![S(t)] = view[t]] ELSE rows
  BY DEF Commit, CommitsRow, Held, S
<1>4. exists' = IF entry[t].outcome = "created" THEN exists \cup {S(t)} ELSE exists
  BY DEF Commit, CommitsRow, S
<1>5. /\ Bound(t) \in Row /\ Bound(t).status = rows[S(t)].status
      /\ Other(t) => Bound(t) = rows[S(t)]
      /\ WriteOutcome(Bound(t), call[t].status) \in {"updated", "unchanged", "rejected_terminal"}
  BY <1>1, BoundRowFacts, WriteFacts DEF Bound, Other
<1>6. CASE Created(t)
  <2>1. UNCHANGED <<trail, refusals>>
    BY <1>6 DEF Created, Commit, CommitsEntry
  <2> QED
    BY <1>2, <1>3, <1>4, <1>6, <2>1 DEF Created, Creates
<1>7. CASE BoundIt(t)
  <2>1. UNCHANGED <<trail, refusals, exists>>
    BY <1>4, <1>7 DEF BoundIt, Commit, CommitsEntry
  <2>2. rows' = [rows EXCEPT ![S(t)] = Bound(t)]
    BY <1>1, <1>3, <1>5, <1>7 DEF BoundIt, Owns, Inv, TypeOK
  <2> QED
    BY <1>2, <1>3, <1>7, <2>1, <2>2 DEF BoundIt, Owns, Binds, Bound, S
<1>8. CASE Wrote(t)
  <2>1. exists' = exists /\ entry[t].outcome \in {"updated", "unchanged", "rejected_terminal"}
    BY <1>4, <1>5, <1>8 DEF Wrote
  <2>2. CASE entry[t].outcome = "updated"
    <3>1. rows' = [rows EXCEPT ![S(t)] = [Bound(t) EXCEPT !.status = call[t].status]]
      BY <1>1, <1>3, <1>5, <1>8, <2>2, WriteFacts DEF Wrote, Owns
    <3>2. /\ trail' = [trail EXCEPT ![S(t)] =
                         Append(@, [by |-> t, previousStatus |-> Bound(t).status, status |-> call[t].status])]
          /\ UNCHANGED refusals
      BY <1>5, <1>8, <2>2 DEF Wrote, Commit, CommitsEntry, S
    <3> QED
      BY <1>2, <1>8, <2>1, <2>2, <3>1, <3>2 DEF Wrote, Owns, Changes, Bound, Other, S
  <2>3. CASE entry[t].outcome # "updated"
    <3>1. rows' = [rows EXCEPT ![S(t)] = Bound(t)]
      BY <1>1, <1>3, <1>5, <1>8, <2>3, WriteFacts DEF Wrote, Owns
    <3>2. /\ refusals' = IF entry[t].outcome = "rejected_terminal" /\ call[t].source = "webhook"
                         THEN [refusals EXCEPT ![S(t)] = @ \cup {[by |-> t, previousStatus |-> Bound(t).status]}]
                         ELSE refusals
          /\ UNCHANGED trail
      BY <1>5, <1>8, <2>1, <2>3 DEF Wrote, Commit, CommitsEntry, S
    <3> QED
      BY <1>2, <1>8, <2>1, <2>3, <3>1, <3>2 DEF Wrote, Owns, Keeps, Bound, Other, S
  <2> QED
    BY <2>2, <2>3
<1>9. CASE Refused(t)
  <2>1. UNCHANGED <<rows, exists, trail>>
    BY <1>3, <1>4, <1>9 DEF Refused, Commit, CommitsEntry
  <2>2. refusals' = [refusals EXCEPT ![S(t)] = @ \cup {[by |-> t, previousStatus |-> entry[t].previousStatus]}]
    BY <1>9 DEF Refused, Commit, CommitsEntry, S
  <2> QED
    BY <1>2, <1>9, <2>1, <2>2 DEF Refused, Refuses, Other, Past, S
<1> QED
  BY <1>1, <1>6, <1>7, <1>8, <1>9 DEF Decided
\* What each of these steps does to one session's row and trail
LEMMA CommitMoves ==
  ASSUME Inv, NEW t \in Txn, Commit(t)
  PROVE  /\ Forward(t)
         /\ rows' \in [SessionId -> Row] /\ exists' \subseteq SessionId
         /\ trail' \in [SessionId -> Seq([by : Txn, previousStatus : Status, status : Status])]
         /\ ChainIsUnbroken' /\ Fresh'
<1>1. /\ S(t) \in SessionId /\ call[t] \in Call /\ call[t].status \in Status
      /\ rows[S(t)] \in Row /\ Bound(t) \in Row /\ Bound(t).status = rows[S(t)].status
      /\ rows[S(t)].applicant # NoApplicant => Bound(t).applicant = rows[S(t)].applicant
  BY CallFacts, CallAssumption, BoundRowFacts DEF Inv, TypeOK, Bound
<1>2. Held(t) => \A s \in SessionId : locker[s] # t => s # S(t)
  BY DEF Held
<1>3. CASE call[t].kind = "create" /\ Held(t) /\ Creates(t, S(t))
  <2>1. PICK u \in User, lvl \in Level \cup {NoLevel} : rows' = [rows EXCEPT ![S(t)] = NewRow(u, lvl)]
    BY <1>3 DEF Creates
  <2>2. exists' = exists \cup {S(t)} /\ S(t) \notin exists /\ trail' = trail
    BY <1>3 DEF Creates
  <2>3. NewRow(u, lvl) \in Row /\ NewRow(u, lvl).status = "initial"
    BY NewRowIsRow
  <2>4. Forward(t)
    <3>1. \A s \in SessionId \ {S(t)} : rows'[s] = rows[s] /\ Past(s)' = Past(s)
      BY <2>1, <2>2 DEF Inv, TypeOK, Past
    <3>2. exists \subseteq SessionId \ {S(t)}
      BY <2>2 DEF Inv, TypeOK
    <3> QED
      BY <1>2, <1>3, <2>2, <3>1, <3>2 DEF Forward
  <2>5. ChainIsUnbroken' /\ Fresh'
    BY <1>1, <2>1, <2>2, <2>3 DEF Inv, TypeOK, ChainIsUnbroken, Left, Fresh
  <2> QED
    BY <1>1, <2>1, <2>2, <2>3, <2>4, <2>5 DEF Inv, TypeOK
<1>4. CASE exists' = exists /\ trail' = trail /\ S(t) \in exists
           /\ (rows' = rows \/ (Held(t) /\ rows' = [rows EXCEPT ![S(t)] = Bound(t)]))
  <2>1. rows' \in [SessionId -> Row] /\ \A s \in SessionId : rows'[s].status = rows[s].status
    BY <1>1, <1>4 DEF Inv, TypeOK
  <2>2. Forward(t)
    BY <1>1, <1>2, <1>4, <2>1 DEF Forward, Past, Inv, TypeOK
  <2>3. ChainIsUnbroken' /\ Fresh'
    BY <1>4, <2>1 DEF Inv, TypeOK, ChainIsUnbroken, Left, Fresh
  <2> QED
    BY <1>4, <2>1, <2>2, <2>3 DEF Inv, TypeOK
<1>5. CASE Held(t) /\ Changes(t, call[t])
  <2> DEFINE new == [Bound(t) EXCEPT !.status = call[t].status]
             item == [by |-> t, previousStatus |-> rows[S(t)].status, status |-> call[t].status]
  <2>1. /\ S(t) \in exists /\ exists' = exists
        /\ rows' = [rows EXCEPT ![S(t)] = new]
        /\ trail' = [trail EXCEPT ![S(t)] = Append(@, item)]
    BY <1>1, <1>5 DEF Changes, Bound, S
  <2>2. /\ new \in Row /\ new.status = call[t].status
        /\ rows[S(t)].applicant # NoApplicant => new.applicant = rows[S(t)].applicant
    BY <1>1 DEF Row
  <2>3. item \in [by : Txn, previousStatus : Status, status : Status]
    BY <1>1 DEF Row
  <2>4. trail' \in [SessionId -> Seq([by : Txn, previousStatus : Status, status : Status])]
    <3> HIDE DEF new, item
    <3> DEFINE Entries == [by : Txn, previousStatus : Status, status : Status]
    <3>1. trail[S(t)] \in Seq(Entries) /\ item \in Entries
      BY <1>1, <2>3 DEF Inv, TypeOK
    <3>2. Append(trail[S(t)], item) \in Seq(Entries)
      <4> HIDE DEF Entries
      <4> QED BY <3>1
    <3> QED
      BY <1>1, <2>1, <3>2 DEF Inv, TypeOK
  <2>5. \A s \in SessionId \ {S(t)} : rows'[s] = rows[s] /\ trail'[s] = trail[s]
    BY <2>1 DEF Inv, TypeOK
  <2>6. /\ rows'[S(t)] = new
        /\ Len(trail'[S(t)]) = Len(trail[S(t)]) + 1 /\ Len(trail[S(t)]) \in Nat
        /\ trail'[S(t)][Len(trail[S(t)]) + 1].previousStatus = rows[S(t)].status
        /\ trail'[S(t)][Len(trail[S(t)]) + 1].status = call[t].status
        /\ \A i \in 1 .. Len(trail[S(t)]) : trail'[S(t)][i] = trail[S(t)][i]
    BY <1>1, <2>1, <2>3 DEF Inv, TypeOK
  <2> HIDE DEF new, item
  <2>7. Forward(t)
    <3>1. \A s \in SessionId \ {S(t)} : Past(s)' = Past(s)
      BY <2>5 DEF Past
    <3>2. ASSUME NEW s \in SessionId, s = S(t), NEW p \in Past(s)
          PROVE  p \in Past(s)'
      <4>1. CASE p = rows[s].status
        BY <2>6, <3>2, <4>1 DEF Past
      <4>2. CASE \E i \in 1 .. Len(trail[s]) : p = trail[s][i].previousStatus
        BY <2>6, <3>2, <4>2 DEF Past
      <4> QED
        BY <3>2, <4>1, <4>2 DEF Past
    <3> QED
      BY <1>1, <1>2, <1>5, <2>1, <2>2, <2>5, <2>6, <3>1, <3>2 DEF Forward, Inv, TypeOK
  <2>8. Fresh'
    BY <2>1, <2>5 DEF Inv, TypeOK, Fresh
  <2>9. ASSUME NEW s \in exists, Chained(s)
        PROVE  Chained(s)'
    <3>1. s \in SessionId
      BY DEF Inv, TypeOK
    <3>2. CASE s # S(t)
      BY <2>5, <2>9, <3>1, <3>2 DEF Left, Chained
    <3>3. CASE s = S(t)
      <4> DEFINE n == Len(trail[s])
      <4>1. /\ n \in Nat /\ Len(trail'[s]) = n + 1 /\ rows'[s].status = call[t].status
            /\ \A i \in 1 .. n : trail'[s][i] = trail[s][i]
            /\ trail'[s][n + 1].previousStatus = rows[s].status
            /\ trail'[s][n + 1].status = call[t].status
        BY <2>2, <2>6, <3>3
      <4>2. /\ \A i \in 1 .. n : trail[s][i].previousStatus = IF i - 1 = 0 THEN "initial" ELSE trail[s][i - 1].status
            /\ rows[s].status = IF n = 0 THEN "initial" ELSE trail[s][n].status
        BY <2>9 DEF Chained, Left
      <4> HIDE DEF n
      <4>3. rows'[s].status = IF n + 1 = 0 THEN "initial" ELSE trail'[s][n + 1].status
        BY <4>1
      <4>4. ASSUME NEW i \in 1 .. n + 1
            PROVE  trail'[s][i].previousStatus = IF i - 1 = 0 THEN "initial" ELSE trail'[s][i - 1].status
        BY <4>1, <4>2
      <4> QED
        BY <4>1, <4>3, <4>4 DEF Chained, Left
    <3> QED
      BY <3>2, <3>3
  <2>10. ChainIsUnbroken'
    BY <2>1, <2>9 DEF Inv, ChainIsUnbroken, Chained
  <2> QED
    BY <1>1, <2>1, <2>2, <2>4, <2>7, <2>8, <2>10 DEF Inv, TypeOK
<1>6. Binds(t, call[t]) => /\ exists' = exists /\ trail' = trail /\ S(t) \in exists
                           /\ rows' = [rows EXCEPT ![S(t)] = Bound(t)]
  BY DEF Binds, Bound, S
<1>7. Keeps(t, call[t]) => /\ exists' = exists /\ trail' = trail /\ S(t) \in exists
                           /\ rows' = [rows EXCEPT ![S(t)] = Bound(t)]
  BY DEF Keeps, Bound, S
<1>8. Refuses(t, call[t]) => rows' = rows /\ exists' = exists /\ trail' = trail /\ S(t) \in exists
  BY DEF Refuses, S
<1>9. \/ call[t].kind = "create" /\ Held(t) /\ Creates(t, S(t))
      \/ Held(t) /\ Changes(t, call[t])
      \/ /\ exists' = exists /\ trail' = trail /\ S(t) \in exists
         /\ (rows' = rows \/ (Held(t) /\ rows' = [rows EXCEPT ![S(t)] = Bound(t)]))
  <2>1. CASE call[t].kind = "bind" /\ (Held(t) \/ rows' = rows) /\ Binds(t, call[t])
    BY <1>6, <2>1
  <2>2. CASE Held(t) /\ Keeps(t, call[t])
    BY <1>7, <2>2
  <2>3. CASE Refuses(t, call[t])
    BY <1>8, <2>3
  <2> QED
    BY <2>1, <2>2, <2>3, CommitIsOneStep
<1> QED
  BY <1>3, <1>4, <1>5, <1>9

LEMMA CommitIsSafe ==
  ASSUME Inv, NEW t \in Txn, Commit(t)
  PROVE  Inv'
<1>1. /\ S(t)' = S(t) /\ pc'[t] = "done" /\ t # NoTxn /\ S(t) \in SessionId
      /\ call[t].status \in Status /\ entry[t] \in Decision /\ view[t] \in Row
  BY CallFacts, PostgresAssumption DEF Commit, EndsWith, Inv, TypeOK, S
<1>2. answer' \in [Txn -> Answer]
  BY <1>1 DEF Commit, EndsWith, Inv, TypeOK, Decision, Answer
<1>3. refusals' \in [SessionId -> SUBSET [by : Txn, previousStatus : Status]]
  BY <1>1 DEF Commit, CommitsEntry, Inv, TypeOK, Decision, S
<1>4. TypeOK'
  BY <1>2, <1>3, CommitMoves DEF Inv, TypeOK, Commit, EndsWith, PC
<1>5. OthersKeep(t) /\ \A s \in SessionId : locker'[s] # t
  BY <1>1, PostgresAssumption DEF Commit, EndsWith, Inv, TypeOK, OthersKeep
<1>6. Knows(t)'
  BY <1>1 DEF Knows
<1> QED
  BY <1>4, <1>5, <1>6, CommitMoves, StepIsSafe

-----------------------------------------------------------------------------
(* The invariant *)

LEMMA InitSafe ==
  ASSUME Init
  PROVE  Inv
<1> DEFINE blank == NewRow(CHOOSE u \in User : TRUE, NoLevel)
<1>1. blank \in Row /\ blank.status = "initial"
  <2>1. (CHOOSE u \in User : TRUE) \in User
    BY PostgresAssumption
  <2> QED
    BY <2>1, NewRowIsRow
<1>2. /\ rows = [s \in SessionId |-> blank] /\ trail = [s \in SessionId |-> <<>>]
      /\ view = [t \in Txn |-> blank] /\ exists \subseteq SessionId
  BY DEF Init, AtomicInit
<1> HIDE DEF blank
<1>3. TypeOK
  <2>1. rows \in [SessionId -> Row] /\ view \in [Txn -> Row]
    BY <1>1, <1>2
  <2>2. trail \in [SessionId -> Seq([by : Txn, previousStatus : Status, status : Status])]
    BY <1>2
  <2>3. entry \in [Txn -> Decision]
    BY DEF Init, Decision, Undecided, Status, Answer
  <2> QED
    BY <1>2, <2>1, <2>2, <2>3 DEF Init, AtomicInit, TypeOK, Answer, PC
<1>4. ChainIsUnbroken
  <2> SUFFICES ASSUME NEW s \in exists
               PROVE  Chained(s)
    BY DEF ChainIsUnbroken, Chained
  <2>1. trail[s] = <<>> /\ Len(trail[s]) = 0 /\ rows[s].status = "initial"
    BY <1>1, <1>2
  <2> QED
    BY <2>1 DEF Chained, Left
<1>5. LocksAreOwned /\ \A t \in Txn : Knows(t)
  BY PostgresAssumption DEF Init, AtomicInit, LocksAreOwned, Knows
<1> QED
  BY <1>2, <1>3, <1>4, <1>5 DEF Inv, Fresh

LEMMA NextSafe ==
  ASSUME Inv, [Next]_vars
  PROVE  Inv'
<1>1. CASE UNCHANGED vars
  <2>1. TypeOK' /\ LocksAreOwned' /\ ChainIsUnbroken' /\ Fresh'
    <3>1. /\ rows' = rows /\ exists' = exists /\ trail' = trail /\ refusals' = refusals
          /\ answer' = answer /\ locker' = locker /\ pc' = pc /\ call' = call
          /\ view' = view /\ entry' = entry
      BY <1>1 DEF vars, tables
    <3>2. TypeOK' /\ LocksAreOwned'
      BY <3>1 DEF Inv, TypeOK, LocksAreOwned, S
    <3> QED
      BY <3>1, <3>2 DEF Inv, ChainIsUnbroken, Left, Fresh
  <2>2. ASSUME NEW t \in Txn
        PROVE  Knows(t)'
    BY <1>1 DEF vars, tables, Inv, Knows, S, Held, Other, Bound, Owns, Decided, Created, BoundIt,
         Wrote, Refused, Past
  <2> QED
    BY <2>1, <2>2 DEF Inv
<1>2. ASSUME NEW t \in Txn, Begin(t) \/ Statement(t) \/ Breaks(t)
      PROVE  Inv'
  <2> DEFINE c == call[t]
             row == rows[S(t)]
  <2>1. /\ S(t) \in SessionId /\ c \in Calls /\ c \in Call /\ row \in Row /\ view[t] \in Row
        /\ entry[t] \in Decision /\ Knows(t) /\ TypeOK /\ t # NoTxn
        /\ c.applicant \in Applicant \cup {NoApplicant} /\ c.status \in Status
    BY CallFacts, CallAssumption, PostgresAssumption DEF Inv, TypeOK
  <2>2. pc[t] \notin {"lock", "write", "audit", "commit"} => ~Held(t)
    BY <2>1 DEF Inv, LocksAreOwned, Held
  <2>3. CASE Begin(t)
    <3>1. PICK next \in {"insert", "bind", "lock"} :
            /\ pc' = [pc EXCEPT ![t] = next]
            /\ next = "insert" => c.kind = "create"
            /\ next = "bind" => c.kind # "create" /\ c.applicant # NoApplicant
            /\ next = "lock" => c.kind # "create" /\ c.applicant = NoApplicant
      BY <2>3 DEF Begin
    <3>2. UNCHANGED <<tables, answer, call, view, entry, locker>>
      BY <2>3 DEF Begin
    <3>3. view' = [view EXCEPT ![t] = view[t]] /\ entry' = [entry EXCEPT ![t] = entry[t]]
      BY <3>2 DEF Inv, TypeOK
    <3>4. Knows(t)'
      BY <2>1, <2>2, <2>3, <3>1, <3>2, PostgresAssumption, CallFacts
         DEF Begin, Knows, TypeOK, S, Held
    <3> QED
      BY <2>1, <2>2, <2>3, <3>1, <3>2, <3>3, <3>4, StatementIsSafe DEF Begin, PC
  <2>4. CASE InsertSession(t)
    <3>1. PICK u \in User, lvl \in Level \cup {NoLevel} : Step(t, "audit", NewRow(u, lvl))
      BY <2>4 DEF InsertSession
    <3> DEFINE e == [outcome |-> "created", previousStatus |-> "initial"]
    <3>2. NewRow(u, lvl) \in Row /\ e \in Decision
      BY NewRowIsRow DEF Decision, Answer, Status
    <3>3. /\ pc' = [pc EXCEPT ![t] = "audit"] /\ view' = [view EXCEPT ![t] = NewRow(u, lvl)]
          /\ entry' = [entry EXCEPT ![t] = e] /\ UNCHANGED <<tables, answer, call>>
          /\ locker' = [locker EXCEPT ![S(t)] = t] /\ locker[S(t)] \in {NoTxn, t}
          /\ S(t) \notin exists
      BY <2>4, <3>1 DEF InsertSession, Step, Decides, Takes, LockFree, S
    <3>4. Created(t)'
      BY <2>1, <2>4, <3>3 DEF Created, Knows, InsertSession, TypeOK, tables, S, Held
    <3>5. Knows(t)'
      BY <2>1, <2>4, <3>3, <3>4 DEF Knows, Decided, InsertSession, TypeOK
    <3> QED
      BY <3>2, <3>3, <3>5, StatementIsSafe DEF PC
  <2>5. CASE BindRow(t)
    <3> DEFINE next == IF c.kind = "bind" THEN "commit" ELSE "lock"
               e == IF c.kind = "bind" THEN [outcome |-> "bound", previousStatus |-> row.status]
                                       ELSE entry[t]
    <3>1. /\ S(t) \in exists /\ pc[t] = "bind" /\ c.kind # "create" /\ c.applicant # NoApplicant
          /\ row.applicant \in {NoApplicant, c.applicant} /\ ~Other(t)
      BY <2>1, <2>5 DEF BindRow, Knows, S, Other, Mismatch
    <3>2. Bound(t) \in Row /\ BindApplicantId(row, c.applicant) = Bound(t)
      BY <2>1, <3>1, BoundRowFacts DEF Bound
    <3>3. /\ pc' = [pc EXCEPT ![t] = next] /\ view' = [view EXCEPT ![t] = Bound(t)]
          /\ UNCHANGED <<tables, answer, call>>
          /\ locker' = [locker EXCEPT ![S(t)] = t] /\ locker[S(t)] \in {NoTxn, t}
      BY <2>5, <3>2 DEF BindRow, Step, Takes, LockFree, S
    <3>4. entry' = [entry EXCEPT ![t] = e] /\ e \in Decision
      BY <2>1, <2>5 DEF BindRow, Decides, TypeOK, Decision, Answer, Row, S
    <3>5. /\ S(t)' = S(t) /\ rows' = rows /\ exists' = exists /\ call' = call /\ answer' = answer
          /\ Bound(t)' = Bound(t) /\ Other(t)' = Other(t) /\ Owns(t)'
      BY <2>1, <3>1, <3>3 DEF TypeOK, tables, S, Bound, Other, Owns, Held
    <3>6. pc'[t] = next /\ view'[t] = Bound(t) /\ entry'[t] = e
      BY <3>3, <3>4 DEF Inv, TypeOK
    <3>7. Knows(t)'
      <4>1. CASE c.kind = "bind"
        <5>1. BoundIt(t)'
          BY <3>5, <3>6, <4>1 DEF BoundIt
        <5> QED
          BY <2>1, <3>1, <3>5, <3>6, <4>1, <5>1 DEF Knows, Decided
      <4>2. CASE c.kind = "status"
        BY <2>1, <3>1, <3>5, <3>6, <4>2 DEF Knows
      <4> QED
        BY <2>1, <3>1, <4>1, <4>2, CallFacts
    <3> QED
      BY <3>2, <3>3, <3>4, <3>7, StatementIsSafe DEF PC
  <2>6. CASE BindMatchesNone(t)
    <3>1. /\ S(t) \in exists /\ pc[t] = "bind" /\ c.kind # "create" /\ Other(t) /\ ~Held(t)
      BY <2>1, <2>2, <2>6 DEF BindMatchesNone, Knows, S, Other, Mismatch
    <3>2. /\ pc' = [pc EXCEPT ![t] = "requery"] /\ view' = [view EXCEPT ![t] = view[t]]
          /\ entry' = [entry EXCEPT ![t] = entry[t]] /\ UNCHANGED <<tables, answer, call, locker>>
      BY <2>1, <2>6 DEF BindMatchesNone, Step, TypeOK
    <3>3. Knows(t)'
      BY <2>1, <3>1, <3>2 DEF Knows, TypeOK, tables, S, Other
    <3> QED
      BY <2>1, <3>1, <3>2, <3>3, StatementIsSafe DEF PC
  <2>7. CASE Requery(t)
    <3> DEFINE next == IF c.kind = "bind" THEN "commit" ELSE "audit"
               e == [outcome |-> IF c.kind = "bind" THEN "bound" ELSE "rejected_unbound",
                     previousStatus |-> row.status]
    <3>1. /\ S(t) \in exists /\ pc[t] = "requery" /\ c.kind # "create" /\ Other(t) /\ ~Held(t)
      BY <2>1, <2>2, <2>7 DEF Requery, Knows
    <3>2. /\ pc' = [pc EXCEPT ![t] = next] /\ view' = [view EXCEPT ![t] = row]
          /\ entry' = [entry EXCEPT ![t] = e] /\ UNCHANGED <<tables, answer, call, locker>>
      BY <2>7 DEF Requery, Step, Decides, S
    <3>3. e \in Decision
      BY <2>1 DEF Decision, Answer, Row
    <3>4. /\ S(t)' = S(t) /\ rows' = rows /\ exists' = exists /\ call' = call /\ answer' = answer
          /\ trail' = trail /\ Held(t)' = Held(t) /\ Other(t)' = Other(t)
      BY <3>2 DEF tables, S, Other, Held
    <3>5. pc'[t] = next /\ view'[t] = row /\ entry'[t] = e
      BY <3>2 DEF Inv, TypeOK
    <3>6. Decided(t)'
      BY <2>1, <3>1, <3>4, <3>5, CallFacts DEF Decided, BoundIt, Refused, Past
    <3>7. Knows(t)'
      BY <2>1, <3>1, <3>4, <3>5, <3>6 DEF Knows
    <3> QED
      BY <2>1, <3>1, <3>2, <3>3, <3>7, StatementIsSafe DEF PC
  <2>8. CASE LockRow(t)
    <3>1. /\ S(t) \in exists /\ pc[t] = "lock" /\ c.kind = "status"
          /\ Seen(t) = Bound(t) /\ ~Other(t) /\ Seen(t) \in Row
      BY <2>1, <2>8, BoundRowFacts
         DEF LockRow, Knows, S, Seen, Owns, Held, Other, Bound, Mismatch, BoundRow
    <3>2. /\ pc' = [pc EXCEPT ![t] = "write"] /\ view' = [view EXCEPT ![t] = Bound(t)]
          /\ entry' = [entry EXCEPT ![t] = entry[t]] /\ UNCHANGED <<tables, answer, call>>
          /\ locker' = [locker EXCEPT ![S(t)] = t] /\ locker[S(t)] \in {NoTxn, t}
      BY <2>1, <2>8, <3>1 DEF LockRow, Step, Takes, LockFree, TypeOK, S
    <3>3. /\ S(t)' = S(t) /\ call' = call /\ answer' = answer
          /\ Bound(t)' = Bound(t) /\ Owns(t)'
      BY <2>1, <3>1, <3>2 DEF TypeOK, tables, S, Bound, Other, Owns, Held
    <3>4. Knows(t)'
      BY <2>1, <3>1, <3>2, <3>3 DEF Knows, TypeOK
    <3> QED
      BY <2>1, <3>1, <3>2, <3>4, StatementIsSafe DEF PC
  <2>9. CASE WriteRow(t)
    <3> DEFINE out == WriteOutcome(view[t], c.status)
               new == UpdateSessionStatus(view[t], c.status)
               e == [outcome |-> out, previousStatus |-> view[t].status]
    <3>1. /\ pc[t] = "write" /\ c.kind = "status" /\ Owns(t) /\ view[t] = Bound(t)
          /\ view[t].status = row.status
      BY <2>1, <2>9, BoundRowFacts DEF WriteRow, Knows, Bound
    <3>2. PICK next \in {"audit", "commit"} : pc' = [pc EXCEPT ![t] = next]
      BY <2>9 DEF WriteRow, Step
    <3>3. /\ view' = [view EXCEPT ![t] = new] /\ entry' = [entry EXCEPT ![t] = e]
          /\ UNCHANGED <<tables, answer, call, locker>>
      BY <2>9 DEF WriteRow, Step, Decides
    <3>4. new \in Row /\ e \in Decision
      BY <2>1, WriteFacts DEF Decision, Answer, Row
    <3>5. /\ S(t)' = S(t) /\ rows' = rows /\ call' = call /\ answer' = answer
          /\ Bound(t)' = Bound(t) /\ Owns(t)'
      BY <3>1, <3>3 DEF tables, S, Bound, Other, Owns, Held
    <3>6. pc'[t] = next /\ view'[t] = new /\ entry'[t] = e
      BY <3>2, <3>3 DEF Inv, TypeOK
    <3>7. Wrote(t)'
      BY <3>1, <3>5, <3>6 DEF Wrote
    <3>8. Knows(t)'
      BY <2>1, <3>1, <3>2, <3>5, <3>6, <3>7 DEF Knows, Decided
    <3> QED
      BY <3>2, <3>3, <3>4, <3>8, StatementIsSafe DEF PC
  <2>10. CASE InsertAudit(t)
    <3>1. /\ pc' = [pc EXCEPT ![t] = "commit"] /\ view' = [view EXCEPT ![t] = view[t]]
          /\ entry' = [entry EXCEPT ![t] = entry[t]] /\ UNCHANGED <<tables, answer, call, locker>>
      BY <2>1, <2>10 DEF InsertAudit, Step, TypeOK
    <3>2. pc[t] = "audit" /\ Decided(t)
      BY <2>1, <2>10 DEF InsertAudit, Knows
    <3>3. /\ pc'[t] = "commit" /\ S(t)' = S(t) /\ rows' = rows /\ call' = call /\ answer' = answer
          /\ view' = view /\ entry' = entry /\ locker' = locker /\ exists' = exists /\ trail' = trail
      BY <2>1, <3>1 DEF TypeOK, tables, S
    <3>4. Decided(t)'
      BY <3>2, <3>3 DEF Decided, Created, BoundIt, Wrote, Refused, Owns, Held, Other, Bound, Past, S
    <3>5. Knows(t)'
      BY <2>1, <3>2, <3>3, <3>4 DEF Knows
    <3> QED
      BY <2>1, <3>1, <3>5, StatementIsSafe DEF PC
  <2>11. CASE Commit(t)
    BY <2>11, CommitIsSafe
  <2>12. CASE Throws(t) \/ Breaks(t)
    BY <2>12, RollbackIsSafe DEF Throws, Breaks, Answer
  <2> QED
    BY <1>2, <2>3, <2>4, <2>5, <2>6, <2>7, <2>8, <2>9, <2>10, <2>11, <2>12 DEF Statement
<1> QED
  BY <1>1, <1>2 DEF Next

-----------------------------------------------------------------------------
(* The theorems *)

\* Every reachable state of the transactions is one the invariant describes.
THEOREM InvHolds == Spec => []Inv
<1>1. Init => Inv
  BY InitSafe
<1>2. Inv /\ [Next]_vars => Inv'
  BY NextSafe
<1> QED
  BY <1>1, <1>2, PTL DEF Spec

\* The rows, the locks and what each callback holds have their types.
THEOREM TypesHold == Spec => []TypeOK
<1>1. Inv => TypeOK
  BY DEF Inv
<1> QED
  BY <1>1, InvHolds, PTL

\* From its first write or FOR UPDATE read to its commit, the row a transaction
\* decided on is the committed one: updateSessionStatus never writes, audits or
\* answers on a status another transaction has replaced.
THEOREM ReadsStayCurrent == Spec => []ReadIsCurrent
<1>1. ASSUME Inv, NEW t \in Txn, pc[t] \in Writing,
             entry[t].outcome \notin {"created", "rejected_unbound"},
             ~(call[t].kind = "bind" /\ Other(t))
      PROVE  /\ S(t) \in exists /\ ~Other(t)
             /\ entry[t].outcome # "" => entry[t].previousStatus = rows[S(t)].status
             /\ view[t] = IF entry[t].outcome = "updated"
                          THEN [Bound(t) EXCEPT !.status = call[t].status] ELSE Bound(t)
  <2>1. Knows(t) /\ Bound(t) \in Row /\ call[t].status \in Status
    BY <1>1, CallFacts, CallAssumption, BoundRowFacts DEF Inv, TypeOK, Bound, S
  <2>2. CASE pc[t] = "write"
    <3>1. Owns(t) /\ view[t] = Bound(t) /\ entry[t] = Undecided
      BY <2>1, <2>2 DEF Knows
    <3>2. Undecided.outcome = ""
      BY DEF Undecided
    <3> QED
      BY <3>1, <3>2 DEF Owns
  <2>3. CASE BoundIt(t)
    BY <1>1, <2>3 DEF BoundIt, Owns
  <2>4. CASE Wrote(t)
    BY <1>1, <2>1, <2>4, WriteFacts DEF Wrote, Owns
  <2> QED
    BY <1>1, <2>1, <2>2, <2>3, <2>4 DEF Writing, Knows, Decided, Created, Refused
<1>2. Inv => ReadIsCurrent
  BY <1>1 DEF ReadIsCurrent, Other, Bound, S
<1> QED
  BY <1>2, InvHolds, PTL

\* The audit log of a session is the history of its status: each committed entry
\* starts where the one before it ended, and the row holds what the last wrote.
THEOREM ChainHolds == Spec => []ChainIsUnbroken
<1>1. Inv => ChainIsUnbroken
  BY DEF Inv
<1> QED
  BY <1>1, InvHolds, PTL

\* The statements of a transaction over the Knex store are one step of the store
\* VerificationService is written against, or none.
THEOREM TransactionsAreAtomic == Spec => ImplementsOneStep
<1>1. Init => AtomicInit
  BY DEF Init
<1>2. Inv /\ [Next]_vars => [AtomicNext]_atomic
  <2> SUFFICES ASSUME Inv, [Next]_vars
               PROVE  [AtomicNext]_atomic
    OBVIOUS
  <2>1. CASE UNCHANGED vars
    BY <2>1 DEF vars, atomic
  <2>2. ASSUME NEW t \in Txn, Begin(t) \/ Statement(t) \/ Breaks(t)
        PROVE  [AtomicNext]_atomic
    <3>1. CASE Commit(t)
      <4>1. call[t] \in Calls /\ S(t) = call[t].session
        BY CallFacts DEF Inv, S
      <4> QED
        BY <3>1, <4>1, CommitIsOneStep DEF AtomicNext
    <3>2. CASE Throws(t) \/ Breaks(t)
      <4>1. answer[t] = ""
        BY <3>2 DEF Throws, Breaks, Inv, Knows
      <4> QED
        BY <3>2, <4>1 DEF Throws, Breaks, EndsWith, Leaves, AtomicNext
    <3>3. CASE ~(Commit(t) \/ Throws(t) \/ Breaks(t))
      BY <2>2, <3>3 DEF Statement, Begin, InsertSession, BindRow, BindMatchesNone, Requery, LockRow,
           WriteRow, InsertAudit, atomic
    <3> QED
      BY <3>1, <3>2, <3>3
  <2> QED
    BY <2>1, <2>2 DEF Next
<1> QED
  BY <1>1, <1>2, InvHolds, PTL DEF Spec, ImplementsOneStep, AtomicSpec
=============================================================================
