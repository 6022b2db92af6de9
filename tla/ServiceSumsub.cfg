\* Sumsub: no applicant when a session starts, found by user id later
CONSTANTS
  User = {u1}
  Applicant = {a1}
  Level = {l1}
  Request = {r1, r2, r3}
  MaxSessions = 2
  MaxNotices = 2
  NoticeKinds <- Verdicts
  Stranger = Stranger
  StrangersApplicant = StrangersApplicant
  MintsApplicant = FALSE
  UserLookup = TRUE
  Owner <- OwnerDef
  NoApplicant = NoApplicant
  NoLevel = NoLevel
  NoUser = NoUser
SPECIFICATION Spec
SYMMETRY Interchangeable
\* every request may have been served
CHECK_DEADLOCK FALSE
INVARIANTS
  EffectsAreCommittedOnce
  TrailIsHistory
  VerdictIsReported
  AnswersAreHeld
PROPERTIES
  TerminalIsFinal
  ImplementsLifecycle
