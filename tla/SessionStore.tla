---------------------------- MODULE SessionStore ----------------------------
(***************************************************************************)
(* The session store port of kyc-node (store.ts, with its Knex form in     *)
(* knex/store.ts), as operators on rows: what each call answers and what   *)
(* it writes.  The modules that use them decide when a call runs and what  *)
(* runs between two of them.                                               *)
(*                                                                         *)
(* A session id is the number of the row in order of creation, so "newest" *)
(* is "largest id".  The columns no rule reads (locale, platform, the      *)
(* timestamps) are left out; a deployment has one provider, so is the      *)
(* provider column.                                                        *)
(***************************************************************************)
EXTENDS Naturals

CONSTANTS User, Applicant, Level,
          NoApplicant,   \* providerApplicantId IS NULL
          NoLevel        \* levelName null, or an event that names none

ASSUME StoreAssumption == NoApplicant \notin Applicant /\ NoLevel \notin Level

Status == {"initial", "incomplete", "pending",
           "approved", "declined", "finallyRejected"}

Terminal == {"approved", "finallyRejected"}

Row == [user : User, level : Level \cup {NoLevel},
        applicant : Applicant \cup {NoApplicant}, status : Status]

\* store.createSession: unbound and initial
NewRow(u, lvl) ==
  [user |-> u, level |-> lvl, applicant |-> NoApplicant, status |-> "initial"]

-----------------------------------------------------------------------------
\* Definitions named Bug... are wrong on purpose: each is a definition of the
\* model as a plausible bug would have it, and some property must refute it.

\* The guard on terminal statuses dropped
BugNoTerminalGuard(row, status) ==
  IF row.status = status THEN "unchanged" ELSE "updated"

\* store.updateSessionStatus: the terminal guard is part of the write
WriteOutcome(row, status) ==
  IF row.status = status THEN "unchanged"
  ELSE IF row.status \in Terminal THEN "rejected_terminal" ELSE "updated"

UpdateSessionStatus(row, status) ==
  IF WriteOutcome(row, status) = "updated"
  THEN [row EXCEPT !.status = status] ELSE row

\* The WHERE on the applicant dropped
BugBindAlways(row, a) == [row EXCEPT !.applicant = a]

\* store.bindApplicantId: only an unbound row takes an applicant
BindApplicantId(row, a) ==
  IF row.applicant \in {NoApplicant, a} THEN [row EXCEPT !.applicant = a] ELSE row

-----------------------------------------------------------------------------
\* The newest of a set of session ids: that id alone, or nothing
Newest(ids) == {s \in ids : \A t \in ids : t <= s}

\* The level is a filter, not a preference
BugOnLevelOnly(rows, mine, lvl) == {s \in mine : rows[s].level = lvl}

\* pickSessionForApplicant among the sessions `mine`: the event's level first,
\* else those in progress, else all of them
Preferred(rows, mine, lvl) ==
  LET onLevel    == {s \in mine : lvl # NoLevel /\ rows[s].level = lvl}
      inProgress == {s \in mine : rows[s].status \notin Terminal}
  IN  IF onLevel # {} THEN onLevel
      ELSE IF inProgress # {} THEN inProgress ELSE mine

\* store.getSessionByProviderApplicantId
SessionByApplicant(rows, ids, a, lvl) ==
  Newest(Preferred(rows, {s \in ids : rows[s].applicant = a}, lvl))

\* The user left out of the WHERE
BugUnboundOfAnyone(rows, ids, u) == Newest({s \in ids : rows[s].applicant = NoApplicant})

\* store.getLatestUnboundSessionForUser: whatever its level
LatestUnboundForUser(rows, ids, u) ==
  Newest({s \in ids : rows[s].user = u /\ rows[s].applicant = NoApplicant})

\* store.getLatestSessionForUser
LatestForUser(rows, ids, u) == Newest({s \in ids : rows[s].user = u})
=============================================================================
