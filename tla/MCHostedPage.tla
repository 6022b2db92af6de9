----------------------------- MODULE MCHostedPage -----------------------------
(***************************************************************************)
(* HostedPage for TLC: verdicts of each kind, one of them with a reject     *)
(* type and one with a status the table does not know.                     *)
(***************************************************************************)
EXTENDS HostedPage

\* What a backend served from its public URL
Page == [scheme |-> "https", host |-> "backend", spelled |-> "plain"]

ServedPage == ProxyStart("data", "", Page)

NoSubdomains == [host \in {"backend"} |-> {}]

Of(status, answer, reject) == [status |-> status, answer |-> answer, reject |-> reject]

EveryKind == {Of("completed", "RED", Unknown), Of("completed", "GREEN", Absent),
              Of("completed", "RED", "FINAL"), Of(Unknown, "GREEN", Absent)}

\* A rejection the applicant may answer
Retryable == {Of("completed", "RED", "RETRY")}
=============================================================================
