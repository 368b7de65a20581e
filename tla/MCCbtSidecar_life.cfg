CONSTANTS
  Endpoints = {e1, e2}
  NoEndpoint = NoEndpoint
  Requests = {q1, q2}
  MaxRestarts = 1
CHECK_DEADLOCK FALSE
SPECIFICATION FairSpec
INVARIANTS TypeOK ServingIsRegistered 
PROPERTIES RegistrationEnds NextRequestEnds
