-------------------------- MODULE SumsubVocabulary --------------------------
(***************************************************************************)
(* Sumsub's reviews, webhook types and mobile results in the words of the  *)
(* verification (kyc-core/src/providers/sumsub/mapping.ts), and the table  *)
(* the hosted page looks reviews up in (kyc-node/src/providers/sumsub/     *)
(* page.ts), which has to say the same.                                    *)
(***************************************************************************)

\* The documented values; a review may leave a field out or name another
ReviewStatuses == {"init", "pending", "prechecked", "queued", "completed", "onHold"}
ReviewAnswers  == {"GREEN", "RED"}
RejectTypes    == {"FINAL", "RETRY"}
Absent == "absent"
Unknown == "unknown"

Review == [status : ReviewStatuses \cup {Absent, Unknown},
           answer : ReviewAnswers \cup {Absent, Unknown},
           reject : RejectTypes \cup {Absent, Unknown}]

\* What the page and the session say of a verification
Spoken == {"initial", "incomplete", "pending", "approved", "declined", "finallyRejected"}

\* mapSumsubStatus
MapStatus(r) ==
  CASE r.status = "completed" /\ r.answer = "GREEN" -> "approved"
    [] r.status = "completed" /\ r.answer = "RED" /\ r.reject = "FINAL" -> "finallyRejected"
    [] r.status = "completed" /\ r.answer = "RED" /\ r.reject # "FINAL" -> "declined"
    [] r.status = "completed" /\ r.answer \notin ReviewAnswers -> "pending"
    [] r.status \in {"pending", "queued", "prechecked", "onHold"} -> "pending"
    [] r.status = "init" -> "incomplete"
    [] OTHER -> "initial"

\* mapSumsubWebhookType
WebhookTypes == [applicantCreated |-> "incomplete", applicantPending |-> "pending",
                 applicantOnHold |-> "pending", applicantReset |-> "initial"]

MapWebhook(type, r) ==
  CASE type = "applicantReviewed" -> MapStatus(r)
    [] type \in DOMAIN WebhookTypes -> WebhookTypes[type]
    [] OTHER -> Absent

-----------------------------------------------------------------------------
(* The page's table *)

\* buildSumsubStatusTable: a row without an answer has no result to map
Table == [k \in [status : ReviewStatuses, answer : ReviewAnswers \cup {Absent},
                 reject : RejectTypes \cup {Absent}] |->
            MapStatus(IF k.answer = Absent THEN [k EXCEPT !.reject = Absent] ELSE k)]

\* An unknown reject type takes the review for one that is not in the table
BugLookup(r) ==
  IF r \in DOMAIN Table THEN Table[r]
  ELSE LET unanswered == [r EXCEPT !.answer = Absent, !.reject = Absent]
       IN  IF unanswered \in DOMAIN Table THEN Table[unanswered] ELSE "initial"

\* lookupSumsubStatus and its twin in the page: without the reject type, then
\* without the answer, then SUMSUB_STATUS_FALLBACK
Lookup(r) ==
  LET typeless   == [r EXCEPT !.reject = Absent]
      unanswered == [typeless EXCEPT !.answer = Absent]
  IN  CASE r \in DOMAIN Table -> Table[r]
        [] r \notin DOMAIN Table /\ typeless \in DOMAIN Table -> Table[typeless]
        [] typeless \notin DOMAIN Table /\ unanswered \in DOMAIN Table -> Table[unanswered]
        [] OTHER -> "initial"

-----------------------------------------------------------------------------
(* The mobile SDK *)

MobileStatuses ==
  [Ready |-> "initial", Initial |-> "initial", Incomplete |-> "incomplete",
   Pending |-> "pending", TemporarilyDeclined |-> "declined",
   FinallyRejected |-> "finallyRejected", Approved |-> "approved",
   Failed |-> Absent, ActionCompleted |-> Absent]

\* mapSumsubMobileStatus
MapMobile(status) ==
  IF status \in DOMAIN MobileStatuses THEN MobileStatuses[status] ELSE Absent

\* mapSumsubMobileErrorCode: two types have a code of the client's own
MobileErrorCode(errorType) ==
  CASE errorType = "Unauthorized" -> "TOKEN_EXPIRED"
    [] errorType = "NetworkError" -> "NETWORK_ERROR"
    [] OTHER -> "SUMSUB"

\* mapSumsubMobileResult: the one event that ends the flow
MobileResult(success, status, errorType) ==
  IF success /\ MapMobile(status) # Absent
  THEN [type |-> "complete", status |-> MapMobile(status)]
  ELSE [type |-> "error", status |-> MobileErrorCode(errorType)]
=============================================================================
