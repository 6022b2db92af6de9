----------------------------- MODULE StoreAtomic -----------------------------
(***************************************************************************)
(* What the session store promises of a transaction (store.ts: "every      *)
(* write through the store it receives commits together or not at all"):   *)
(* a call takes effect in one step, on the row as that step finds it, or   *)
(* has no effect.  VerificationService is written against this promise.    *)
(***************************************************************************)
EXTENDS SessionStore, Sequences

CONSTANTS Txn, SessionId,
          Calls              \* the callbacks a transaction may run

VARIABLES rows,      \* table VerificationSession
          exists,    \* the ids it holds
          trail,     \* AuditLog: the status_updated entries of a session
          refusals,  \* AuditLog: its webhook_rejected entries
          answer     \* what each transaction answered its caller

tables == <<rows, exists, trail, refusals>>
atomic == <<tables, answer>>

\* A transaction's callback: start's insert, a bind, or writeStatus
Call == [kind : {"create", "bind", "status"}, session : SessionId,
         applicant : Applicant \cup {NoApplicant}, status : Status,
         source : {"api", "webhook"}]

ASSUME CallAssumption == Calls \subseteq Call

Answer == {"", "failed", "created", "bound", "updated", "unchanged",
           "rejected_terminal", "rejected_unbound"}

\* The row once the optional binding is done, and whether it went to another
BoundRow(row, c) ==
  IF c.applicant = NoApplicant THEN row ELSE BindApplicantId(row, c.applicant)

Mismatch(row, c) ==
  c.applicant # NoApplicant /\ row.applicant \notin {NoApplicant, c.applicant}

\* Sessions nothing has happened to yet, or no session
AtomicInit ==
  /\ rows = [s \in SessionId |-> NewRow(CHOOSE u \in User : TRUE, NoLevel)]
  /\ exists \in SUBSET SessionId
  /\ trail = [s \in SessionId |-> <<>>]
  /\ refusals = [s \in SessionId |-> {}]
  /\ answer = [t \in Txn |-> ""]

\* The caller hears the outcome, or an error when the answer to COMMIT is lost
Answers(t, outcome) ==
  /\ answer[t] = ""
  /\ \E heard \in {outcome, "failed"} : answer' = [answer EXCEPT ![t] = heard]

Creates(t, s) ==
  /\ s \notin exists
  /\ exists' = exists \cup {s}
  /\ \E u \in User, lvl \in Level \cup {NoLevel} : rows' = [rows EXCEPT ![s] = NewRow(u, lvl)]
  /\ Answers(t, "created")
  /\ UNCHANGED <<trail, refusals>>

Binds(t, c) ==
  /\ c.session \in exists
  /\ rows' = [rows EXCEPT ![c.session] = BoundRow(@, c)]
  /\ Answers(t, "bound")
  /\ UNCHANGED <<exists, trail, refusals>>

Changes(t, c) ==
  LET s == c.session  row == BoundRow(rows[s], c) IN
  /\ s \in exists
  /\ ~Mismatch(rows[s], c)
  /\ WriteOutcome(row, c.status) = "updated"
  /\ rows' = [rows EXCEPT ![s] = [row EXCEPT !.status = c.status]]
  /\ trail' = [trail EXCEPT ![s] =
                 Append(@, [by |-> t, previousStatus |-> row.status, status |-> c.status])]
  /\ Answers(t, "updated")
  /\ UNCHANGED <<exists, refusals>>

\* Same status or a terminal one: the binding stays, a refused webhook is audited
Keeps(t, c) ==
  LET s == c.session  row == BoundRow(rows[s], c)  outcome == WriteOutcome(row, c.status) IN
  /\ s \in exists
  /\ ~Mismatch(rows[s], c)
  /\ outcome # "updated"
  /\ rows' = [rows EXCEPT ![s] = row]
  /\ refusals' = IF outcome = "rejected_terminal" /\ c.source = "webhook"
                 THEN [refusals EXCEPT ![s] = @ \cup {[by |-> t, previousStatus |-> row.status]}]
                 ELSE refusals
  /\ Answers(t, outcome)
  /\ UNCHANGED <<exists, trail>>

\* Another applicant's session: the entry names a status the row holds or held
Refuses(t, c) ==
  LET s == c.session IN
  /\ s \in exists
  /\ Mismatch(rows[s], c)
  /\ \E was \in {rows[s].status} \cup {trail[s][i].previousStatus : i \in 1 .. Len(trail[s])} :
       refusals' = [refusals EXCEPT ![s] = @ \cup {[by |-> t, previousStatus |-> was]}]
  /\ Answers(t, "rejected_unbound")
  /\ UNCHANGED <<rows, exists, trail>>

\* Rolled back
Leaves(t) == /\ answer[t] = ""
             /\ answer' = [answer EXCEPT ![t] = "failed"]
             /\ UNCHANGED tables

AtomicNext ==
  \E t \in Txn :
    \/ Leaves(t)
    \/ \E c \in Calls : \/ c.kind = "create" /\ Creates(t, c.session)
                        \/ c.kind = "bind" /\ Binds(t, c)
                        \/ c.kind = "status" /\ (Changes(t, c) \/ Keeps(t, c) \/ Refuses(t, c))

AtomicSpec == AtomicInit /\ [][AtomicNext]_atomic
=============================================================================
