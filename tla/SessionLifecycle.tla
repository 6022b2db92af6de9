-------------------------- MODULE SessionLifecycle --------------------------
(***************************************************************************)
(* What the verification service promises of a session, whatever calls,    *)
(* notices, retries and crashes its handlers go through: it opens unbound  *)
(* and initial for one user, is bound once, to an applicant of that user,  *)
(* and takes only statuses the provider reported for that applicant, until *)
(* a terminal one.  The data model of docs/architecture/data-models.md,    *)
(* with the transitions of sessions.ts.                                    *)
(***************************************************************************)
EXTENDS SessionStore

CONSTANTS Owner, SessionId

VARIABLES rows,      \* the sessions, one row per id
          opened,    \* the ids of those that exist
          reported   \* every <<applicant, status>> the provider ever reported

life == <<rows, opened, reported>>

LifeInit == /\ rows \in [SessionId -> Row]
            /\ opened = {}
            /\ reported = {}

\* The provider reports a status
Report == /\ \E a \in Applicant, status \in Status :
               reported' = reported \cup {<<a, status>>}
          /\ UNCHANGED <<rows, opened>>

\* service.start
Open(s) == /\ s \notin opened
           /\ opened' = opened \cup {s}
           /\ \E u \in User, lvl \in Level \cup {NoLevel} :
                rows' = [rows EXCEPT ![s] = NewRow(u, lvl)]
           /\ UNCHANGED reported

\* An unbound session gets its applicant, with or without a status
Bind(s, a) == /\ s \in opened
              /\ rows[s].applicant = NoApplicant
              /\ Owner[a] = rows[s].user
              /\ rows' = [rows EXCEPT ![s].applicant = a]
              /\ UNCHANGED <<opened, reported>>

\* A session takes a status of its applicant, which the same step may bind
Decide(s, a, status) ==
  /\ s \in opened
  /\ rows[s].applicant \in {NoApplicant, a}
  /\ Owner[a] = rows[s].user
  /\ rows[s].status \notin Terminal
  /\ status = "initial" \/ <<a, status>> \in reported
  /\ rows' = [rows EXCEPT ![s].applicant = a, ![s].status = status]
  /\ UNCHANGED <<opened, reported>>

LifeNext ==
  \/ Report
  \/ \E s \in SessionId :
       \/ Open(s)
       \/ \E a \in Applicant : Bind(s, a) \/ \E status \in Status : Decide(s, a, status)

LifeSpec == LifeInit /\ [][LifeNext]_life
=============================================================================
