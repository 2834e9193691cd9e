SPECIFICATION AuthSpec
CONSTANTS
  AuthBrokers = {b1, b2}
  AskingClients = {c1, c2}
  MaxAsks = 2
  MaxDecides = 2
  MaxPending = 2
CHECK_DEADLOCK FALSE
INVARIANT DecidableFromAnyNode
