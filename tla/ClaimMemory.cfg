SPECIFICATION Spec
CONSTANTS
  User = {u1}
  Level = {}
  NoLevel = NoLevel
  Applicant = {a1}
  NoApplicant = NoApplicant
  Txn = {t1, t2}
  SessionId = {s1, s2}
  Old = s1
  New = s2
  Calls <- CallsDef
INVARIANT AnsweredIsKept
\* Every call is answered in the end, and the system stops
CHECK_DEADLOCK FALSE
