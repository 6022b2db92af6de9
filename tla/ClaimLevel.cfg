\* A status read of a second level after an approved first one
CONSTANTS
  User = {u1}
  Applicant = {a1}
  Level = {l1, l2}
  Request = {r1}
  MaxSessions = 2
  MaxNotices = 2
  NoticeKinds <- Verdicts
  Stranger = Stranger
  StrangersApplicant = StrangersApplicant
  MintsApplicant = FALSE
  UserLookup = TRUE
  Owner <- OwnerDef
  NoApplicant = NoApplicant
  NoLevel = NoLevel
  NoUser = NoUser
SPECIFICATION SpecOnboarded
SYMMETRY Interchangeable
\* every request may have been served
CHECK_DEADLOCK FALSE
INVARIANTS
  VerdictIsOfItsLevel
