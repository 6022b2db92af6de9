---------------------------- MODULE StorePostgres ----------------------------
(***************************************************************************)
(* The transactions of sessions.ts over the Knex store (knex/store.ts) on  *)
(* PostgreSQL at READ COMMITTED, one action per SQL statement.  A          *)
(* statement sees the rows committed before it and its own transaction's   *)
(* writes; a row written or read FOR UPDATE is locked until the            *)
(* transaction ends.  The foreign key's share lock of the audit INSERT is  *)
(* left out: it can only delay.                                            *)
(***************************************************************************)
EXTENDS StoreAtomic

CONSTANT NoTxn       \* nobody holds the row's lock

ASSUME PostgresAssumption ==
  /\ NoTxn \notin Txn /\ User # {}
  /\ \A c \in Calls : c.kind = "bind" => c.applicant # NoApplicant

VARIABLES locker,    \* whose lock a row is under
          pc,        \* the statement a transaction is about to send
          call,      \* the callback it runs
          view,      \* the row as the callback has it
          entry      \* what the callback decided: outcome, previous status

vars == <<tables, answer, locker, pc, call, view, entry>>

Decision == [outcome : Answer, previousStatus : Status]
Undecided == [outcome |-> "", previousStatus |-> "initial"]

PC == {"idle", "insert", "bind", "requery", "lock", "write", "audit", "commit", "done"}

TypeOK ==
  /\ rows \in [SessionId -> Row]
  /\ exists \subseteq SessionId
  /\ trail \in [SessionId -> Seq([by : Txn, previousStatus : Status, status : Status])]
  /\ refusals \in [SessionId -> SUBSET [by : Txn, previousStatus : Status]]
  /\ answer \in [Txn -> Answer]
  /\ locker \in [SessionId -> Txn \cup {NoTxn}]
  /\ pc \in [Txn -> PC]
  /\ call \in [Txn -> Calls]
  /\ view \in [Txn -> Row]
  /\ entry \in [Txn -> Decision]

Init ==
  /\ AtomicInit
  /\ locker = [s \in SessionId |-> NoTxn]
  /\ pc = [t \in Txn |-> "idle"]
  /\ call \in [Txn -> Calls]
  /\ view = [t \in Txn |-> NewRow(CHOOSE u \in User : TRUE, NoLevel)]
  /\ entry = [t \in Txn |-> Undecided]

-----------------------------------------------------------------------------
\* Statements

\* BEGIN, and what the callback does first
Begin(t) ==
  /\ pc[t] = "idle"
  /\ pc' = [pc EXCEPT ![t] = CASE call[t].kind = "create" -> "insert"
                               [] call[t].kind # "create" /\ call[t].applicant # NoApplicant -> "bind"
                               [] OTHER -> "lock"]
  /\ UNCHANGED <<tables, answer, locker, call, view, entry>>

\* A read without FOR UPDATE, which waits for nobody
BugLockFree(s, t) == TRUE

\* Whether transaction t may lock row s now
LockFree(s, t) == locker[s] \in {NoTxn, t}

\* The row as t sees it: its own uncommitted write, else the committed row
Seen(t) == IF locker[call[t].session] = t THEN view[t] ELSE rows[call[t].session]

Step(t, next, row) ==
  /\ pc' = [pc EXCEPT ![t] = next]
  /\ view' = [view EXCEPT ![t] = row]

Decides(t, outcome, previous) ==
  entry' = [entry EXCEPT ![t] = [outcome |-> outcome, previousStatus |-> previous]]

Takes(t) == locker' = [locker EXCEPT ![call[t].session] = t]

\* createSession: the id is new, and nobody sees the row before the commit
InsertSession(t) ==
  /\ pc[t] = "insert"
  /\ call[t].session \notin exists
  /\ LockFree(call[t].session, t)
  /\ Takes(t)
  /\ \E u \in User, lvl \in Level \cup {NoLevel} : Step(t, "audit", NewRow(u, lvl))
  /\ Decides(t, "created", "initial")
  /\ UNCHANGED <<tables, answer, call>>

\* bindApplicantId: the row matches the WHERE, is free, and is updated
BindRow(t) ==
  LET s == call[t].session IN
  /\ pc[t] = "bind"
  /\ s \in exists
  /\ rows[s].applicant \in {NoApplicant, call[t].applicant}
  /\ LockFree(s, t)
  /\ Takes(t)
  /\ Step(t, IF call[t].kind = "bind" THEN "commit" ELSE "lock",
          BindApplicantId(rows[s], call[t].applicant))
  /\ IF call[t].kind = "bind" THEN Decides(t, "bound", rows[s].status) ELSE UNCHANGED entry
  /\ UNCHANGED <<tables, answer, call>>

\* ... or does not match: no row comes back, and none is locked
BindMatchesNone(t) ==
  LET s == call[t].session IN
  /\ pc[t] = "bind"
  /\ s \in exists
  /\ rows[s].applicant \notin {NoApplicant, call[t].applicant}
  /\ Step(t, "requery", view[t])
  /\ UNCHANGED <<tables, answer, locker, entry, call>>

\* requireSession: a plain read; writeStatus refuses the event on what it says
Requery(t) ==
  LET row == rows[call[t].session] IN
  /\ pc[t] = "requery"
  /\ IF call[t].kind = "bind"
     THEN Step(t, "commit", row) /\ Decides(t, "bound", row.status)
     ELSE Step(t, "audit", row) /\ Decides(t, "rejected_unbound", row.status)
  /\ UNCHANGED <<tables, answer, locker, call>>

\* updateSessionStatus: SELECT ... FOR UPDATE
LockRow(t) ==
  LET s == call[t].session IN
  /\ pc[t] = "lock"
  /\ s \in exists
  /\ LockFree(s, t)
  /\ Takes(t)
  /\ Step(t, "write", Seen(t))
  /\ UNCHANGED <<tables, answer, entry, call>>

\* ... then the UPDATE with the terminal guard in its WHERE
WriteRow(t) ==
  LET outcome == WriteOutcome(view[t], call[t].status)
      audited == outcome = "updated" \/ (outcome = "rejected_terminal" /\ call[t].source = "webhook")
  IN
  /\ pc[t] = "write"
  /\ Decides(t, outcome, view[t].status)
  /\ Step(t, IF audited THEN "audit" ELSE "commit", UpdateSessionStatus(view[t], call[t].status))
  /\ UNCHANGED <<tables, answer, locker, call>>

\* appendAuditEntry: the INSERT, invisible to others until the commit
InsertAudit(t) ==
  /\ pc[t] = "audit"
  /\ Step(t, "commit", view[t])
  /\ UNCHANGED <<tables, answer, locker, entry, call>>

-----------------------------------------------------------------------------
\* The end of a transaction

\* Only COMMIT lets the lock fall
BugKeepsLock(t, heard) ==
  /\ pc' = [pc EXCEPT ![t] = "done"]
  /\ locker' = [s \in SessionId |-> IF locker[s] = t /\ heard # "failed" THEN NoTxn ELSE locker[s]]
  /\ answer' = [answer EXCEPT ![t] = heard]
  /\ UNCHANGED <<view, entry, call>>

\* Its lock falls; the caller hears `heard`
EndsWith(t, heard) ==
  /\ pc' = [pc EXCEPT ![t] = "done"]
  /\ locker' = [s \in SessionId |-> IF locker[s] = t THEN NoTxn ELSE locker[s]]
  /\ answer' = [answer EXCEPT ![t] = heard]
  /\ UNCHANGED <<view, entry, call>>

\* The audit row committed although the update was not
BugCommitsEntryOnly(t) ==
  LET s == call[t].session IN
  /\ rows' = IF locker[s] = t /\ entry[t].outcome # "updated" THEN [rows EXCEPT ![s] = view[t]] ELSE rows
  /\ exists' = IF entry[t].outcome = "created" THEN exists \cup {s} ELSE exists

\* What COMMIT makes visible of the sessions
CommitsRow(t) ==
  LET s == call[t].session IN
  /\ rows' = IF locker[s] = t THEN [rows EXCEPT ![s] = view[t]] ELSE rows
  /\ exists' = IF entry[t].outcome = "created" THEN exists \cup {s} ELSE exists

\* The metadata without the previous status
BugNoPrevious(t) ==
  /\ trail' = IF entry[t].outcome = "updated"
              THEN [trail EXCEPT ![call[t].session] = Append(@, [by |-> t, status |-> call[t].status])]
              ELSE trail
  /\ UNCHANGED refusals

\* ... and of the audit log
CommitsEntry(t) ==
  LET s == call[t].session  e == entry[t] IN
  /\ trail' = IF e.outcome = "updated"
              THEN [trail EXCEPT ![s] = Append(@, [by |-> t, previousStatus |-> e.previousStatus,
                                                   status |-> call[t].status])]
              ELSE trail
  /\ refusals' = IF \/ e.outcome = "rejected_unbound"
                    \/ e.outcome = "rejected_terminal" /\ call[t].source = "webhook"
                 THEN [refusals EXCEPT ![s] = @ \cup {[by |-> t, previousStatus |-> e.previousStatus]}]
                 ELSE refusals

\* COMMIT, whose answer may be lost on the way back
Commit(t) ==
  /\ pc[t] = "commit"
  /\ CommitsRow(t)
  /\ CommitsEntry(t)
  /\ EndsWith(t, entry[t].outcome) \/ EndsWith(t, "failed")

\* The session is not there, or its id is taken: the callback throws, and Knex
\* rolls back
Throws(t) ==
  /\ \/ pc[t] \in {"bind", "lock"} /\ call[t].session \notin exists
     \/ pc[t] = "insert" /\ call[t].session \in exists
  /\ EndsWith(t, "failed")
  /\ UNCHANGED tables

\* A statement fails, or the process dies and its connection with it
Breaks(t) ==
  /\ pc[t] \notin {"idle", "done"}
  /\ EndsWith(t, "failed")
  /\ UNCHANGED tables

-----------------------------------------------------------------------------
Statement(t) ==
  \/ InsertSession(t) \/ BindRow(t) \/ BindMatchesNone(t) \/ Requery(t)
  \/ LockRow(t) \/ WriteRow(t) \/ InsertAudit(t) \/ Commit(t) \/ Throws(t)

Next == \E t \in Txn : Begin(t) \/ Statement(t) \/ Breaks(t)

Spec == Init /\ [][Next]_vars

-----------------------------------------------------------------------------
\* Properties

\* What a transaction decides on is still so when it commits: from its first
\* write or FOR UPDATE read on, the committed row is the one it saw, but for its
\* own changes.  The row lock is all that makes the read, the conditional UPDATE
\* and the audit INSERT of updateSessionStatus one.
Writing == {"write", "audit", "commit"}

ReadIsCurrent ==
  \A t \in Txn :
    LET c == call[t]  row == rows[c.session] IN
    pc[t] \in Writing /\ entry[t].outcome \notin {"created", "rejected_unbound"}
      /\ ~(c.kind = "bind" /\ Mismatch(row, c)) =>
        /\ c.session \in exists /\ ~Mismatch(row, c)
        /\ entry[t].outcome # "" => entry[t].previousStatus = row.status
        /\ view[t] = IF entry[t].outcome = "updated"
                     THEN [BoundRow(row, c) EXCEPT !.status = c.status] ELSE BoundRow(row, c)

\* Every committed status_updated entry starts from what the one before it left,
\* and the row holds what the last one wrote, whatever failed in between.
Left(s, i) == IF i = 0 THEN "initial" ELSE trail[s][i].status

ChainIsUnbroken ==
  \A s \in exists :
    /\ \A i \in 1 .. Len(trail[s]) : trail[s][i].previousStatus = Left(s, i - 1)
    /\ rows[s].status = Left(s, Len(trail[s]))

\* No set of transactions waits for one another: while any is under way, the
\* next statement of one of them can run without a failure to help it.  A
\* transaction that dies while it holds a row's lock must not keep it.
UnderWay == {t \in Txn : pc[t] \notin {"idle", "done"}}

SomeoneProceeds == UnderWay # {} => \E t \in UnderWay : ENABLED Statement(t)

\* The statements of a transaction implement the one step StoreAtomic promises:
\* the step is the commit, everything before it is invisible.
ImplementsOneStep == AtomicSpec
=============================================================================
