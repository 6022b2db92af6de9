------------------------ MODULE MCVerificationService ------------------------
(***************************************************************************)
(* Instances of VerificationService for TLC.  Owner files every applicant  *)
(* under the first user but the one named stranger's.                      *)
(***************************************************************************)
EXTENDS VerificationService, TLC

CONSTANTS Stranger, StrangersApplicant

OwnerDef == [a \in Applicant |->
               IF a = StrangersApplicant THEN Stranger
               ELSE CHOOSE u \in User : u # Stranger]

\* Notices that name a level and the user, of any of these statuses
Named(statuses) == {n \in Notice : /\ n.status \in statuses /\ n.level \in Level
                                   /\ n.user = OwnerDef[n.applicant]}

\* Notices without a level that may leave out the user, and one without a status
Bare(statuses) == {n \in Notice : /\ n.status \in statuses /\ n.level = NoLevel
                                  /\ n.user \in {OwnerDef[n.applicant], NoUser}
                                  /\ n.status = NoStatus => n.user = NoUser}

Verdicts == Named({"pending", "declined", "approved"})
Approvals == Bare({"approved"})
AnyForm == Bare({"pending", "approved", NoStatus})

Interchangeable == Permutations(Request) \cup Permutations(Level)

\* ... and applicants of one user, where no initial state picks one
InterchangeableFiles == Interchangeable \cup Permutations(Applicant \ {StrangersApplicant})

-----------------------------------------------------------------------------
(***************************************************************************)
(* States calls that ended long ago leave behind, so that the requests of  *)
(* an instance are all spent on what happens next.                         *)
(***************************************************************************)
Left(rows, entries, notices) ==
  /\ created = Len(rows)
  /\ sessions = [s \in SessionId |-> rows[s]]
  /\ trail = [s \in SessionId |-> entries[s]]
  /\ audit = [s \in SessionId |->
                [k \in AuditAction |-> IF k = "session_created" THEN 1 ELSE 0]]
  /\ effects = [s \in SessionId |-> [i \in 1 .. Len(entries[s]) |-> i]]
  /\ journal = notices
  /\ applicants = {notices[i].applicant : i \in 1 .. Len(notices)}
  /\ pc = [r \in Request |-> "idle"]
  /\ loc = [r \in Request |-> Blank]

Subject == CHOOSE u \in User : u # Stranger
Mine == CHOOSE a \in Applicant : a # StrangersApplicant

\* A first level approved by its webhook, a second level just started
Onboarded ==
  \E l1, l2 \in Level :
    /\ l1 # l2
    /\ Left(<<[NewRow(Subject, l1) EXCEPT !.applicant = Mine, !.status = "approved"],
              NewRow(Subject, l2)>>,
            << <<[previousStatus |-> "initial", status |-> "approved",
                  source |-> "webhook", basis |-> 1]>>, <<>> >>,
            <<[applicant |-> Mine, level |-> l1, status |-> "approved",
               user |-> Subject]>>)

SpecOnboarded == Onboarded /\ [][Next]_vars
=============================================================================
