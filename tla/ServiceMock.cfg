\* A provider that files an applicant at start: two of them under one user, and
\* one of a stranger
CONSTANTS
  User = {u1, Stranger}
  Applicant = {a1, a2, StrangersApplicant}
  Level = {l1}
  Request = {r1, r2, r3}
  MaxSessions = 2
  MaxNotices = 2
  NoticeKinds <- AnyForm
  Stranger = Stranger
  StrangersApplicant = StrangersApplicant
  MintsApplicant = TRUE
  UserLookup = FALSE
  Owner <- OwnerDef
  NoApplicant = NoApplicant
  NoLevel = NoLevel
  NoUser = NoUser
SPECIFICATION Spec
SYMMETRY InterchangeableFiles
\* every request may have been served
CHECK_DEADLOCK FALSE
INVARIANTS
  TypeOK
  ApplicantIsOwners
  NoticesAreAccountedFor
  SetAsideHadNoSession
PROPERTIES
  BindingIsFinal
