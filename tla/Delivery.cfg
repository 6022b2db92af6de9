SPECIFICATION Spec
CONSTANTS
  Slot = {s1, s2}
  Genuine = {verdict}
  Forged = {forged}
  Garbled = {garbled}
  Foreign = {foreign}
  Exercised <- Deployments
  Asked <- Requests
  MaxAttempts = 3
  MaxBoots = 2
INVARIANTS
  ServiceTypeOK
  AckMeansHandled
  OnlyAuthentic
  StartedCanServe
PROPERTIES
  OrderlyDrain
  DrainCompletes
  NoticesArrive
CHECK_DEADLOCK FALSE
