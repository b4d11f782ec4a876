CONSTANTS
  r1 = r1
  r2 = r2
  Requests = {r1, r2}
  DependsOn <- MCDependsOn
  PasswordRequests = {r1}
  Connections = {1, 2}
  HasRequiredAuthToken = TRUE
  HasApiInitializationHash = FALSE
  MaxMessageId = 2
  MaxTransactions = 2
  NoTimer = NoTimer
SPECIFICATION Spec
INVARIANTS
  TypeOK
  ContextsAreOwn
  WaitingIsOwed
  DropsOnlyCancelled
  CompletedOnce
  NoLostWakeUp
PROPERTIES
  DependenciesNamed
  ImplementsContract
