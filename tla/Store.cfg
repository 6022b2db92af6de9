SPECIFICATION SpecOld
CONSTANTS
  User = {u1}
  Level = {}
  NoLevel = NoLevel
  Applicant = {a1, a2}
  NoApplicant = NoApplicant
  Txn = {t1, t2, t3}
  NoTxn = NoTxn
  SessionId = {s1, s2}
  Old = s1
  New = s2
  Calls <- CallsDef
SYMMETRY Interchangeable
INVARIANTS TypeOK ReadIsCurrent ChainIsUnbroken SomeoneProceeds
PROPERTY ImplementsOneStep
\* Every call is answered in the end, and the system stops
CHECK_DEADLOCK FALSE
