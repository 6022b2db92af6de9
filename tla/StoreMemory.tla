----------------------------- MODULE StoreMemory -----------------------------
(***************************************************************************)
(* The same transactions over createMemorySessionStore (store.ts).  Each   *)
(* store call runs to its end at once, on the tables everybody shares; its *)
(* caller goes on in a microtask, and microtasks run in the order they     *)
(* were queued.  A callback that throws puts both tables back as they were *)
(* when its transaction began.                                             *)
(***************************************************************************)
EXTENDS StoreAtomic

VARIABLES pc,       \* what a transaction does when its microtask runs
          call,     \* the callback it runs
          entry,    \* what the callback decided: outcome, previous status
          saved,    \* the tables as they were when it began
          ready     \* the microtasks queued

vars == <<tables, answer, pc, call, entry, saved, ready>>

Now == [rows |-> rows, exists |-> exists, trail |-> trail, refusals |-> refusals]

Undecided == [outcome |-> "", previousStatus |-> "initial"]

Init ==
  /\ AtomicInit
  /\ pc = [t \in Txn |-> "idle"]
  /\ call \in [Txn -> Calls]
  /\ entry = [t \in Txn |-> Undecided]
  /\ saved = [t \in Txn |-> Now]
  /\ ready = <<>>

Queues(t, next, queue) ==
  /\ pc' = [pc EXCEPT ![t] = next]
  /\ ready' = Append(queue, t)

Decides(t, outcome, previous) ==
  entry' = [entry EXCEPT ![t] = [outcome |-> outcome, previousStatus |-> previous]]

\* The next store call of the callback, up to the await of its answer
CreateSession(t, queue) ==
  LET s == call[t].session IN
  /\ exists' = exists \cup {s}
  /\ \E u \in User, lvl \in Level \cup {NoLevel} : rows' = [rows EXCEPT ![s] = NewRow(u, lvl)]
  /\ Decides(t, "created", "initial")
  /\ Queues(t, "audit", queue)
  /\ UNCHANGED <<trail, refusals>>

Bind(t, queue) ==
  LET s == call[t].session  row == rows[s] IN
  /\ s \in exists
  /\ rows' = [rows EXCEPT ![s] = BindApplicantId(row, call[t].applicant)]
  /\ CASE call[t].kind = "bind" ->
            Decides(t, "bound", row.status) /\ Queues(t, "return", queue)
       [] call[t].kind = "status" /\ Mismatch(row, call[t]) ->
            Decides(t, "rejected_unbound", row.status) /\ Queues(t, "audit", queue)
       [] OTHER -> UNCHANGED entry /\ Queues(t, "update", queue)
  /\ UNCHANGED <<exists, trail, refusals>>

Update(t, queue) ==
  LET s == call[t].session  row == rows[s]  outcome == WriteOutcome(row, call[t].status) IN
  /\ s \in exists
  /\ rows' = [rows EXCEPT ![s] = UpdateSessionStatus(row, call[t].status)]
  /\ Decides(t, outcome, row.status)
  /\ Queues(t, IF \/ outcome = "updated"
                  \/ outcome = "rejected_terminal" /\ call[t].source = "webhook"
               THEN "audit" ELSE "return", queue)
  /\ UNCHANGED <<exists, trail, refusals>>

\* require: no such session
Rejects(t, queue) ==
  /\ call[t].session \notin exists
  /\ Queues(t, "throw", queue)
  /\ UNCHANGED <<tables, entry>>

AppendAudit(t, queue) ==
  LET s == call[t].session  e == entry[t]
      row == [by |-> t, previousStatus |-> e.previousStatus]
  IN
  /\ trail' = IF e.outcome = "updated"
              THEN [trail EXCEPT ![s] = Append(@, [by |-> t, previousStatus |-> e.previousStatus,
                                                   status |-> call[t].status])]
              ELSE trail
  /\ refusals' = IF e.outcome \in {"rejected_unbound", "rejected_terminal"}
                 THEN [refusals EXCEPT ![s] = @ \cup {row}] ELSE refusals
  /\ Queues(t, "return", queue)
  /\ UNCHANGED <<rows, exists, entry>>

Calling(t, at, queue) ==
  \/ at = "create" /\ CreateSession(t, queue)
  \/ at = "bind" /\ (Bind(t, queue) \/ Rejects(t, queue))
  \/ at = "update" /\ (Update(t, queue) \/ Rejects(t, queue))
  \/ at = "audit" /\ AppendAudit(t, queue)

First(c) == IF c.kind = "create" THEN "create"
            ELSE IF c.applicant # NoApplicant THEN "bind" ELSE "update"

\* store.transaction: both tables copied, then the callback's first store call
Begin(t) ==
  /\ pc[t] = "idle"
  /\ saved' = [saved EXCEPT ![t] = Now]
  /\ Calling(t, First(call[t]), ready)
  /\ UNCHANGED <<answer, call>>

Ends(t, heard) == /\ answer' = [answer EXCEPT ![t] = heard]
                  /\ pc' = [pc EXCEPT ![t] = "done"]
                  /\ ready' = Tail(ready)

\* The first microtask of the queue
Continues(t) ==
  /\ ready # <<>> /\ t = Head(ready)
  /\ \/ Calling(t, pc[t], Tail(ready)) /\ UNCHANGED answer
     \/ pc[t] = "return" /\ Ends(t, entry[t].outcome) /\ UNCHANGED <<tables, entry>>
     \/ pc[t] = "throw" /\ Queues(t, "restore", Tail(ready)) /\ UNCHANGED <<tables, entry, answer>>
  /\ UNCHANGED <<call, saved>>

\* The catch of transaction: the copies put back, the error thrown on
Restores(t) ==
  /\ ready # <<>> /\ t = Head(ready)
  /\ pc[t] = "restore"
  /\ rows' = saved[t].rows /\ exists' = saved[t].exists
  /\ trail' = saved[t].trail /\ refusals' = saved[t].refusals
  /\ Ends(t, "failed")
  /\ UNCHANGED <<entry, call, saved>>

Next == \E t \in Txn : Begin(t) \/ Continues(t) \/ Restores(t)

Spec == Init /\ [][Next]_vars

-----------------------------------------------------------------------------
\* store.ts:157: "Transactions snapshot both tables and restore them when the
\* callback throws, giving the same all-or-nothing guarantee a database
\* transaction does."  So what a transaction answered stays: the entry of a
\* change it reported is in the log, whatever other transactions throw.
AnsweredIsKept ==
  \A t \in Txn :
    answer[t] = "updated" =>
      \E i \in 1 .. Len(trail[call[t].session]) : trail[call[t].session][i].by = t
=============================================================================
