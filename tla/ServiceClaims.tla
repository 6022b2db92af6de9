---------------------------- MODULE ServiceClaims ----------------------------
(***************************************************************************)
(* What the comments and docs of the verification service say of it and    *)
(* the interleavings of VerificationService refute.  Each definition       *)
(* quotes the sentence it states.                                          *)
(***************************************************************************)
EXTENDS MCVerificationService

\* backend.md:160: a card level "after an approved onboarding proceed[s] on its
\* own session while the approved one stands"; backend.md:138: the level "is
\* what tells two sessions of one user apart".  So a verdict on a session's row
\* is one the provider gave its applicant on that session's level.
VerdictIsOfItsLevel ==
  \A s \in Session :
    sessions[s].status \in Terminal =>
      \E i \in 1 .. Len(journal) :
        /\ journal[i].applicant = sessions[s].applicant
        /\ journal[i].status = sessions[s].status
        /\ journal[i].level = sessions[s].level

\* backend.md:158: unknown_session when "neither the applicant id nor the external
\* user id resolves to a session".  So no row there was at that answer is now bound
\* to the notice's applicant, if it is the named user's: the second read left it
\* bound already, and bindings stay (SetAsideHadNoSession, BindingIsFinal).
UnknownHasNoSession ==
  \A r \in Request :
    pc[r] = "done" /\ loc[r].answer = "unknown_session" =>
      LET notice == journal[loc[r].basis] IN
      \A s \in 1 .. loc[r].rows :
        sessions[s].user = notice.user => sessions[s].applicant # notice.applicant
=============================================================================
