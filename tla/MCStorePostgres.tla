--------------------------- MODULE MCStorePostgres ---------------------------
(***************************************************************************)
(* Instances of StorePostgres for TLC: one session that exists from the    *)
(* start and one that a transaction may insert meanwhile.                  *)
(***************************************************************************)
EXTENDS StorePostgres, TLC

CONSTANTS Old, New      \* the two sessions

Base == [kind |-> "status", session |-> Old, applicant |-> NoApplicant,
         status |-> "pending", source |-> "webhook"]

Writes(applicant, status) == [Base EXCEPT !.applicant = applicant, !.status = status]

CallsDef ==
  {Writes(NoApplicant, "pending")}
  \cup {Writes(a, "approved") : a \in Applicant}
  \cup {[Base EXCEPT !.status = "declined", !.source = "api"]}
  \cup {[Base EXCEPT !.kind = "bind", !.applicant = a] : a \in Applicant}
  \cup {[Base EXCEPT !.session = New], [Base EXCEPT !.session = New, !.kind = "create"]}

InitOld == Init /\ exists = {Old}

SpecOld == InitOld /\ [][Next]_vars

Interchangeable == Permutations(Txn) \cup Permutations(Applicant)
=============================================================================
