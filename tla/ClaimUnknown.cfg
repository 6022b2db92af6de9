\* A notice between whose two reads the session it is about is bound
CONSTANTS
  User = {u1}
  Applicant = {a1, a2}
  Level = {l1}
  Request = {r1, r2}
  MaxSessions = 2
  MaxNotices = 2
  NoticeKinds <- AnyForm
  Stranger = Stranger
  StrangersApplicant = StrangersApplicant
  MintsApplicant = TRUE
  UserLookup = FALSE
  Owner <- OwnerDef
  NoApplicant = NoApplicant
  NoLevel = NoLevel
  NoUser = NoUser
SPECIFICATION Spec
SYMMETRY Interchangeable
\* every request may have been served
CHECK_DEADLOCK FALSE
INVARIANTS
  UnknownHasNoSession
